----------------------------- MODULE Evaluation -----------------------------
(***************************************************************************)
(* What a checked body does when it runs: the meaning the properties of    *)
(* Typing hold the checker to.  It reads the checked tree only, and goes   *)
(* stuck, saying why, wherever the tree promises something that is not so: *)
(* a value is not of the type recorded for its expression, an assignment   *)
(* or a mutable borrow reaches what is not writable, no arm of a match     *)
(* applies, a function comes to its end without a result, a call has no    *)
(* callee.  A trap is not going wrong, and "unknown" is where the model    *)
(* stops following (raw pointers, standard operations, deferred blocks).   *)
(*                                                                         *)
(* A value is <<tag, head, parts>>.  A machine M has the store, whether    *)
(* each location is writable, the locations of the locals, and the types   *)
(* its generic parameters and Self stand for.  A place is a location, a    *)
(* path of parts, and whether it is writable; results have at most one.    *)
(***************************************************************************)
EXTENDS Checker

CONSTANTS Iterations,    \* of a loop, before a run is given up
          Calls          \* nested ones

VARIABLE checked         \* the checked body of each function

Made(tag, head, parts) == <<tag, head, parts>>
UnitValue == Made("tuple", "", <<>>)
Truth(b) == Made("bool", b, <<>>)
Data(name, variant, parts) == Made("data", [name |-> name, variant |-> variant], parts)
Pointer(place) == Made("ref", place, <<>>)
Parts(v) == v[3]

Outcome(out, value, place, M) == [out |-> out, value |-> value, place |-> place, why |-> "", M |-> M]
Gives(value, M) == Outcome("value", value, <<>>, M)
Done(M) == Gives(UnitValue, M)
Stuck(why, M) == [Outcome("stuck", UnitValue, <<>>, M) EXCEPT !.why = why]
Unknown(M) == Outcome("unknown", UnitValue, <<>>, M)
Trap(M) == Outcome("trap", UnitValue, <<>>, M)

-----------------------------------------------------------------------------
(* The store *)

Alloc(M, v, writable) == [M EXCEPT !.store = Append(@, v), !.writable = Append(@, writable)]
Named(M, name, v, writable) ==
    [Alloc(M, v, writable) EXCEPT !.locals = (name :> Len(M.store) + 1) @@ @]
Part(place, i) == [place EXCEPT !.path = Append(@, i)]
Read(M, place) == FoldLeft(LAMBDA v, i : Parts(v)[i], M.store[place.at], place.path)
RECURSIVE Replaced(_, _, _)
Replaced(v, path, new) ==
    IF path = <<>> THEN new
    ELSE <<v[1], v[2], [Parts(v) EXCEPT ![path[1]] = Replaced(@, Tail(path), new)]>>
Write(M, place, v) == [M EXCEPT !.store[place.at] = Replaced(@, place.path, v)]
AtPlace(M, place) == Outcome("value", Read(M, place), <<place>>, M)

\* A type of the tree in the instance that runs.
Ground(M, type) ==
    LET t == Substitute(M.bindings, Deep(M.bindings, type), M.types) IN
    IF M.self = Nil THEN t ELSE SubstituteSelf(<<>>, t, M.self)

\* Whether a value is of a ground type.
RECURSIVE Fitting(_, _, _)
Fitting(M, v, type) ==
    LET t == Expanded(<<>>, type)
        tag == v[1]
        Each(types) == /\ Len(Parts(v)) = Len(types)
                       /\ \A i \in DOMAIN types : Fitting(M, Parts(v)[i], types[i])
    IN  CASE IsInteger(t) -> tag = "int" /\ v[2].name = Name(t) /\ Fits(Name(t), v[2].n)
          [] t = Unit -> v = UnitValue
          [] t = Bool -> tag = "bool"
          [] Kind(t) = "Primitive" /\ ~IsInteger(t) /\ t \notin {Unit, Bool} -> tag = "opaque" /\ v[2] = Name(t)
          [] Kind(t) = "Tuple" -> tag = "tuple" /\ Each(Children(t))
          [] Kind(t) = "Array" ->
                tag = "array" /\ Len(Parts(v)) = Name(t) /\ \A i \in DOMAIN Parts(v) : Fitting(M, Parts(v)[i], TargetOf(t))
          [] Kind(t) = "Nominal" ->
                /\ tag = "data" /\ v[2].name = Name(t)
                /\ LET fields == FieldsOf(Name(t), v[2].variant)
                       map == Assigned(Declaration(Name(t)).parameters, Children(t))
                   IN  Each([i \in DOMAIN fields |-> Substitute(<<>>, fields[i].type, map)])
          [] Kind(t) \in {"Reference", "Slice"} ->
                LET target == Expanded(<<>>, TargetOf(t)) IN
                CASE Kind(target) = "Function" -> tag \in {"fn", "closure"}
                  [] Kind(target) = "TraitObject" -> /\ tag = "object" /\ v[2].trait = Name(TargetOf(target))
                                                  /\ Name(t) = "mutable" => Parts(v)[1][2].writable
                  [] OTHER -> /\ tag = "ref" /\ (Name(t) = "mutable" => v[2].writable)
                              /\ Kind(t) = "Reference" => Fitting(M, Read(M, v[2]), target)
          [] Kind(t) = "Closure" -> tag = "closure" /\ v[2].name = Name(t).name
          [] OTHER -> FALSE

-----------------------------------------------------------------------------
(* Operators *)

Arithmetic(e, name, l, r) ==
    LET value == CASE e.name = "+" -> <<l + r>> [] e.name = "-" -> <<l - r>> [] e.name = "*" -> <<l * r>>
                   [] e.name \in {"/", "%"} /\ r = 0 -> <<>>
                   [] e.name = "/" /\ r # 0 -> <<Truncated(l, r)>>
                   [] e.name = "%" /\ r # 0 -> <<l - r * Truncated(l, r)>>
                   [] e.name \in {"<<", ">>"} /\ (r < 0 \/ r >= Width(name)) -> <<>>
                   [] e.name = "<<" /\ r >= 0 /\ r < Width(name) -> <<l * 2 ^ r>>
                   [] e.name = ">>" /\ r >= 0 /\ r < Width(name) -> <<l \div 2 ^ r>>
    IN  IF value = <<>> \/ ~Fits(name, value[1]) THEN <<>> ELSE value
Signs(e, n) == IF e.name = "-" THEN -n ELSE n

\* An operation on constants that was accepted does not trap.
Constant(node) == node.kids[1].kind = "Literal" /\ node.kids[2].kind = "Literal"
Operated(e, l, r, M) ==
    LET value == Arithmetic(e, l[2].name, l[2].n, r[2].n) IN
    CASE e.name = "==" -> Gives(Truth(l = r), M)
      [] e.name = "!=" -> Gives(Truth(l # r), M)
      [] e.name \in Orderings ->
            IF l[1] # "int" THEN Unknown(M)
            ELSE Gives(Truth(CASE e.name = "<" -> l[2].n < r[2].n [] e.name = "<=" -> l[2].n <= r[2].n
                               [] e.name = ">" -> l[2].n > r[2].n [] OTHER -> l[2].n >= r[2].n), M)
      [] e.name = "++" -> Gives(l, M)
      [] OTHER -> IF l[1] # "int" THEN Unknown(M)
                  ELSE IF e.name \in {"&", "|", "^"} THEN Gives(l, M)
                  ELSE IF value # <<>> THEN Gives(Made("int", [l[2] EXCEPT !.n = value[1]], <<>>), M)
                  ELSE IF Constant(e) THEN Stuck("constant", M) ELSE Trap(M)

\* A place reached from a value: the value itself when it is at a place, what a
\* reference leads to otherwise.
Reached(r) == IF r.value[1] = "ref" THEN <<r.value[2]>> ELSE r.place
Member(r, i, M) ==
    IF Reached(r) # <<>> THEN AtPlace(M, Part(Reached(r)[1], i)) ELSE Gives(Parts(r.value)[i], M)

\* A borrow of a place, a reborrow of a reference.
Borrowed(r, mutable, M) ==
    LET place == IF r.value[1] = "ref" THEN <<r.value[2]>> ELSE r.place IN
    IF r.value[1] \in {"fn", "closure", "object"} THEN Gives(r.value, M)
    ELSE IF place = <<>> THEN Stuck("borrow of a value", M)
    ELSE IF mutable /\ ~place[1].writable THEN Stuck("mutable borrow", M)
    ELSE Gives(Pointer([place[1] EXCEPT !.writable = mutable]), M)

-----------------------------------------------------------------------------
(* Patterns: whether a value matches, and what it binds *)

NoMatch == [ok |-> FALSE, bound |-> <<>>]
RECURSIVE Matches(_, _, _)
Matches(M, p, v) ==
    LET All(parts) ==
            FoldLeft(LAMBDA m, i : LET one == Matches(M, p.kids[i], parts[i]) IN
                                   IF m.ok /\ one.ok THEN [ok |-> TRUE, bound |-> one.bound @@ m.bound] ELSE NoMatch,
                     [ok |-> TRUE, bound |-> <<>>], [i \in DOMAIN p.kids |-> i])
        Position(i) == CHOOSE f \in DOMAIN FieldsOf(p.info.declaration, p.info.variant) :
                            <<FieldsOf(p.info.declaration, p.info.variant)[f]>> = PatternField(p, i)
        fits == {i \in DOMAIN p.kids : Matches(M, p.kids[i], v).ok}
    IN  CASE p.kind = "Bind" -> [ok |-> TRUE, bound |-> IF p.name = "_" THEN <<>> ELSE (p.name :> v)]
          [] p.kind \in {"Tuple", "TuplePattern"} -> All(Parts(v))
          [] p.kind = "Dereference" -> All(<<Read(M, v[2])>>)
          [] p.kind = "Unit" -> [ok |-> v[2].variant = p.name, bound |-> <<>>]
          [] p.kind = "Literal" ->
                [ok |-> IF p.name = "bool" THEN v = Truth(p.info.value) ELSE v[1] = "int" /\ v[2].n = p.info.magnitude,
                 bound |-> <<>>]
          [] p.kind = "Alternatives" ->
                IF fits = {} THEN NoMatch ELSE Matches(M, p.kids[CHOOSE i \in fits : \A j \in fits : i <= j], v)
          [] p.kind = "Fields" ->
                IF v[2].variant # p.info.variant THEN NoMatch
                ELSE All([i \in DOMAIN p.kids |-> Parts(v)[Position(i)]])
\* Patterns bind copies that cannot be assigned.
WithBound(M, bound, writable) ==
    FoldLeft(LAMBDA m, name : Named(m, name, bound[name], writable), M, SetToSeq(DOMAIN bound))

-----------------------------------------------------------------------------
(* The order the kids of a node run in: a loop repeats them, 0 stands for  *)
(* the body of what is called.                                             *)

CallKinds == {"Call", "TypeCall", "MethodCall", "ValueCall"}
Schedule(n) ==
    LET kids == [i \in DOMAIN n.kids |-> i] IN
    CASE n.kind = "While" -> [k \in 1..(2 * Iterations + 1) |-> IF k % 2 = 1 THEN 1 ELSE 2]
      [] n.kind = "For" -> <<1>> \o [k \in 1..Iterations |-> 2]
      [] n.kind \in {"Closure", "Defer", "Expect"} -> <<>>
      [] n.kind \in CallKinds -> Append(kids, 0)
      [] OTHER -> kids

\* The results so far: skipped steps have ran FALSE.
Holds(step) == step.ran /\ step.value = Truth(TRUE)
Skipped == [value |-> UnitValue, place |-> <<>>, ran |-> FALSE]
Goes(n, k, at) ==
    LET i == Schedule(n)[k]
        rs == at.rs
    IN  CASE n.kind = "If" -> i = 1 \/ Holds(rs[1]) = (i = 2)
          [] n.kind = "Binary" /\ n.name \in {"&&", "||"} -> i = 1 \/ Holds(rs[1]) = (n.name = "&&")
          [] n.kind = "While" -> k = 1 \/ (IF i = 1 THEN rs[k - 1].ran ELSE Holds(rs[k - 1]))
          [] n.kind = "For" -> \/ k = 1
                               \/ rs[1].value[1] = "array" /\ k - 1 <= Len(Parts(rs[1].value)) /\ rs[k - 1].ran
          [] n.kind = "Match" -> \/ k = 1
                                 \/ /\ \A j \in 2..(k - 1) : ~Holds(rs[j])
                                    /\ Matches(at.M, n.kids[i].info.pattern, rs[1].value).ok
          [] n.kind = "Arm" -> k = 1 \/ Holds(rs[1])
          [] OTHER -> TRUE

-----------------------------------------------------------------------------
(* Calls: a target is [function, arguments, self] with the values passed,  *)
(* or a closure with them; <<>> where the model does not follow.           *)

TraitWith(function) ==
    CHOOSE d \in DOMAIN program.declarations :
        Declaration(d).kind = "Trait" /\ \E i \in DOMAIN TraitMethods(d) : TraitMethods(d)[i].function = function
GroundInstance(M, instance) ==
    [function |-> instance.function, arguments |-> [i \in DOMAIN instance.arguments |-> Ground(M, instance.arguments[i])],
     self |-> IF instance.self = Nil THEN Nil ELSE Ground(M, instance.self)]
EntryInstance(entry) == [function |-> entry.function, arguments |-> entry.arguments, self |-> entry.self]

\* The receiver a method gets, as the checker adjusted it.
Adjusted(adjustment, r, M) ==
    CASE adjustment = "borrow shared" -> Borrowed(r, FALSE, M)
      [] adjustment = "borrow mutable" -> Borrowed(r, TRUE, M)
      [] adjustment = "dereference" -> IF r.value[1] = "ref" THEN Gives(Read(M, r.value[2]), M) ELSE Stuck("receiver", M)
      [] OTHER -> Gives(r.value, M)
ValuesFrom(rs, first) == [i \in 1..(Len(rs) - first + 1) |-> rs[i + first - 1].value]

\* The entry the trait has for the type that runs.
Dispatched(trait, type, method, receiver, rs) ==
    LET entry == VtableEntry(trait, type, method) IN
    IF entry = <<>> THEN <<>>
    ELSE <<[target |-> EntryInstance(entry[1]), values |-> <<receiver>> \o ValuesFrom(rs, 2)]>>
Target(n, at) ==
    LET call == n.call
        rs == at.rs
        M == at.M
        value == rs[1].value
        adjusted == Adjusted(call.adjustment, rs[1], M).value
    IN  IF call = <<>> THEN <<>>
        ELSE CASE call.form = "Direct" -> <<[target |-> GroundInstance(M, call.target), values |-> ValuesFrom(rs, 1)]>>
               [] call.form = "Bound" ->
                    <<[target |-> GroundInstance(M, call.target), values |-> <<adjusted>> \o ValuesFrom(rs, 2)]>>
               [] call.form = "GenericBound" ->
                    Dispatched(TraitWith(call.target.function), Ground(M, call.target.self), n.name, adjusted, rs)
               [] call.form = "Dynamic" ->
                    IF value[1] = "object" THEN Dispatched(value[2].trait, value[2].type, n.name, Parts(value)[1], rs)
                    ELSE <<>>
               [] call.form = "TraitSelf" ->
                    Dispatched(TraitWith(call.target.function), M.self, n.name, value, rs)
               [] call.form \in {"Indirect", "Closure"} ->
                    IF value[1] = "fn" THEN <<[target |-> value[2], values |-> ValuesFrom(rs, 2)]>>
                    ELSE IF value[1] = "closure" THEN <<[target |-> value[2], values |-> ValuesFrom(rs, 2)]>> ELSE <<>>
               [] OTHER -> <<>>

IsClosure(target) == "body" \in DOMAIN target
Runnable(t) == IsClosure(t.target) \/ t.target.function \in DOMAIN checked
BodyOf(t) == IF IsClosure(t.target) THEN t.target.body ELSE checked[t.target.function].node

\* The machine a body starts in; parameters and captures are not writable.
Called(t, M) ==
    LET values == IF IsClosure(t.target) THEN t.target.captured \o t.values ELSE t.values
        names == IF IsClosure(t.target) THEN t.target.names ELSE Function(t.target.function).body[1].parameters
        inner == IF IsClosure(t.target)
                 THEN [M EXCEPT !.types = t.target.types, !.self = t.target.self, !.bindings = t.target.bindings,
                                !.result = t.target.result]
                 ELSE [M EXCEPT !.types = Assigned(Function(t.target.function).parameters, t.target.arguments),
                                !.self = t.target.self, !.bindings = checked[t.target.function].bindings,
                                !.result = Function(t.target.function).result]
    IN  FoldLeft(LAMBDA m, i : Named(m, names[i], values[i], FALSE),
                 [inner EXCEPT !.depth = @ + 1], [i \in DOMAIN names |-> i])
CanCall(t, M) == t # <<>> /\ Runnable(t[1]) /\ M.depth < Calls

\* What a call gives: the body returned, or came to its end.
Back(r, M) == [M EXCEPT !.store = r.M.store, !.writable = r.M.writable]
Returned(r, M) ==
    CASE r.out = "return" -> Gives(r.value, Back(r, M))
      [] r.out = "value" -> IF Ground(r.M, r.M.result) = Unit THEN Done(Back(r, M)) ELSE Stuck("no result", M)
      [] OTHER -> r

-----------------------------------------------------------------------------
(* One step of a schedule: the node that runs, the machine it runs in, and *)
(* what it leaves.                                                         *)

Ready(n, k, at) ==
    /\ at.out = "value" /\ Goes(n, k, at)
    /\ Schedule(n)[k] = 0 => CanCall(Target(n, at), at.M)
NodeAt(n, k, at) == IF Schedule(n)[k] = 0 THEN BodyOf(Target(n, at)[1]) ELSE n.kids[Schedule(n)[k]]
MachineAt(n, k, at) ==
    CASE Schedule(n)[k] = 0 -> Called(Target(n, at)[1], at.M)
      [] n.kind = "For" /\ k > 1 -> Named(at.M, n.name, Parts(at.rs[1].value)[k - 1], FALSE)
      [] n.kind = "Match" /\ k > 1 ->
            WithBound(at.M, Matches(at.M, n.kids[k].info.pattern, at.rs[1].value).bound, FALSE)
      [] OTHER -> at.M

\* break and continue end at their loop.
InLoop(n, k) == n.kind \in {"While", "For"} /\ Schedule(n)[k] = 2
Left(at, r, ran) == [at EXCEPT !.rs = Append(@, [value |-> r.value, place |-> r.place, ran |-> ran]), !.M = r.M]
Stopped(at, r) == [out |-> r.out, value |-> r.value, why |-> r.why, rs |-> at.rs, M |-> r.M]
Stepped(n, k, at, r) ==
    CASE Schedule(n)[k] # 0 /\ r.out = "value" -> Left(at, r, TRUE)
      [] Schedule(n)[k] # 0 /\ r.out \in {"break", "continue"} /\ InLoop(n, k) -> Left(at, r, r.out = "continue")
      [] Schedule(n)[k] = 0 /\ Returned(r, at.M).out = "value" -> Left(at, Returned(r, at.M), TRUE)
      [] Schedule(n)[k] = 0 /\ Returned(r, at.M).out # "value" -> Stopped(at, Returned(r, at.M))
      [] OTHER -> Stopped(at, r)

-----------------------------------------------------------------------------
(* What a node comes to, from the steps of its schedule *)

Assigned1(n, rs, M) ==
    LET place == rs[1].place
        operator == IF n.name = "=" THEN "=" ELSE SubSeq(n.name, 1, Len(n.name) - 1)
        value == IF n.name = "=" THEN Gives(rs[2].value, M)
                 ELSE Operated([n EXCEPT !.name = operator], rs[1].value, rs[2].value, M)
    IN  IF place = <<>> \/ ~place[1].writable THEN Stuck("assignment", M)
        ELSE IF value.out # "value" THEN value ELSE Done(Write(M, place[1], value.value))

StatementMeaning(n, rs, M) ==
    CASE n.kind = "Let" ->
            LET m == Matches(M, n.info.pattern, rs[1].value) IN
            IF m.ok THEN Done(WithBound(M, m.bound, n.info.var)) ELSE Stuck("binding", M)
      [] n.kind = "Assignment" -> Assigned1(n, rs, M)
      [] n.kind = "Return" -> Outcome("return", IF rs = <<>> THEN UnitValue ELSE rs[1].value, <<>>, M)
      [] n.kind = "Jump" -> Outcome(n.name, UnitValue, <<>>, M)
      [] n.kind = "While" -> IF Holds(Last(rs)) THEN Unknown(M) ELSE Done(M)
      [] n.kind = "For" -> IF rs[1].value[1] # "array" THEN Unknown(M) ELSE Done(M)
      [] n.kind = "Match" -> IF \E i \in 2..Len(rs) : Holds(rs[i]) THEN Done(M) ELSE Stuck("no arm", M)
      [] n.kind = "Arm" -> Gives(Truth(Last(rs).ran), M)
      [] n.kind \in {"Defer", "Expect"} -> Unknown(M)
      [] OTHER -> Done(M)

UnaryMeaning(n, rs, M) ==
    LET v == rs[1].value IN
    CASE n.name \in {"&", "&var"} ->
            IF n.kids[1].kind = "Record" /\ rs[1].place = <<>>
            THEN Gives(Pointer([at |-> Len(M.store) + 1, path |-> <<>>, writable |-> n.name = "&var"]), Alloc(M, v, TRUE))
            ELSE Borrowed(rs[1], n.name = "&var", M)
      [] n.name = "*" -> IF v[1] = "ref" THEN AtPlace(M, v[2]) ELSE Unknown(M)
      [] n.name = "!" -> Gives(Truth(~v[2]), M)
      [] OTHER -> IF v[1] # "int" \/ n.name = "~" THEN Gives(v, M)
                  ELSE IF Fits(v[2].name, Signs(n, v[2].n))
                  THEN Gives(Made("int", [v[2] EXCEPT !.n = Signs(n, @)], <<>>), M) ELSE Trap(M)

CastMeaning(n, v, M) ==
    LET t == Expanded(<<>>, Ground(M, n.type)) IN
    CASE v[1] = "int" /\ IsInteger(t) ->
            IF Fits(Name(t), v[2].n) THEN Gives(Made("int", [v[2] EXCEPT !.name = Name(t)], <<>>), M) ELSE Trap(M)
      [] v[1] = "closure" -> Gives(v, M)
      [] v[1] = "ref" /\ Kind(t) = "Reference" ->
            Gives(Made("object", [trait |-> Name(TargetOf(TargetOf(t))), type |-> TargetOf(Ground(M, n.kids[1].type))], <<v>>), M)
      [] OTHER -> Unknown(M)

\* The fields of a construction in the order of the declaration.
Constructed(n, rs) ==
    LET fields == FieldsOf(n.name, n.info.variant) IN
    Data(n.name, n.info.variant,
         [f \in DOMAIN fields |-> rs[CHOOSE i \in DOMAIN rs : FieldFor(n, i) = <<fields[f]>>].value])

ClosureMeaning(n, M) ==
    LET captures == n.info.captures
        Captured(c) ==
            LET place == [at |-> M.locals[c.source], path |-> <<>>, writable |-> M.writable[M.locals[c.source]]]
                value == Read(M, place)
            IN  IF c.kind \in {"value", "*", "*var"} THEN Gives(value, M)
                ELSE IF c.kind = "&var" /\ value[1] = "ref" THEN Borrowed([value |-> value, place |-> <<>>], TRUE, M)
                ELSE Borrowed([value |-> UnitValue, place |-> <<place>>], c.kind = "&var", M)
    IN  IF \E i \in DOMAIN captures : Captured(captures[i]).out = "stuck" THEN Stuck("capture", M)
        ELSE Gives(Made("closure",
                        [name |-> n.name, body |-> n.kids[1], types |-> M.types, self |-> M.self,
                         bindings |-> M.bindings, result |-> Result(Deep(M.bindings, n.type)),
                         captured |-> [i \in DOMAIN captures |-> Captured(captures[i]).value],
                         names |-> [i \in DOMAIN captures |-> captures[i].name]
                                   \o [i \in DOMAIN n.info.parameters |-> n.info.parameters[i].name]], <<>>), M)

FieldPosition(v, name) ==
    LET fields == FieldsOf(v[2].name, v[2].variant) IN CHOOSE i \in DOMAIN fields : fields[i].name = name
Pointee(M, r) == IF r.value[1] = "ref" THEN Read(M, r.value[2]) ELSE r.value
MemberMeaning(n, r, M) ==
    CASE n.kind = "TupleField" -> Member(r, n.info.index + 1, M)
      [] OTHER -> IF Pointee(M, r)[1] # "data" THEN Stuck("no field", M)
                  ELSE Member(r, FieldPosition(Pointee(M, r), n.name), M)
IndexMeaning(r, i, M) ==
    IF Pointee(M, r)[1] # "array" THEN Unknown(M)
    ELSE IF i[1] # "int" THEN Stuck("index", M)
    ELSE IF i[2].n \in 0..(Len(Parts(Pointee(M, r))) - 1) THEN Member(r, i[2].n + 1, M) ELSE Trap(M)
LiteralMeaning(n, M) ==
    LET t == Expanded(<<>>, Ground(M, n.type)) IN
    CASE n.name = "bool" -> Truth(n.info.value)
      [] n.name = "int" /\ IsInteger(t) ->
            Made("int", [name |-> Name(t), n |-> Signs([name |-> IF n.info.negative THEN "-" ELSE "+"], n.info.magnitude)], <<>>)
      [] OTHER -> Made("opaque", Name(t), <<>>)

ExpressionMeaning(n, rs, M) ==
    CASE n.kind = "Literal" -> Gives(LiteralMeaning(n, M), M)
      [] n.kind = "Local" ->
            AtPlace(M, [at |-> M.locals[n.name], path |-> <<>>, writable |-> M.writable[M.locals[n.name]]])
      [] n.kind \in {"Function", "TypeMember"} -> Gives(Made("fn", GroundInstance(M, n.call.target), <<>>), M)
      [] n.kind = "Unary" -> UnaryMeaning(n, rs, M)
      [] n.kind = "Binary" -> IF n.name \in {"&&", "||"} THEN Gives(IF rs[2].ran THEN rs[2].value ELSE rs[1].value, M)
                              ELSE Operated(n, rs[1].value, rs[2].value, M)
      [] n.kind = "Cast" -> CastMeaning(n, rs[1].value, M)
      [] n.kind = "Object" ->
            Gives(Made("object", [trait |-> n.name, type |-> TargetOf(Ground(M, n.info))], <<rs[1].value>>), M)
      [] n.kind = "Try" -> IF rs[1].value[2].variant = "Ok" THEN Gives(Parts(rs[1].value)[1], M)
                           ELSE Outcome("return", rs[1].value, <<>>, M)
      [] n.kind = "Tuple" -> Gives(Made("tuple", "", ValuesFrom(rs, 1)), M)
      [] n.kind = "Array" -> Gives(Made("array", "", ValuesFrom(rs, 1)), M)
      [] n.kind \in {"Record", "Positional"} -> Gives(Constructed(n, rs), M)
      [] n.kind \in {"TupleField", "Member"} -> MemberMeaning(n, rs[1], M)
      [] n.kind = "Index" -> IndexMeaning(rs[1], rs[2].value, M)
      [] n.kind = "Closure" -> ClosureMeaning(n, M)
      [] n.kind = "Formatted" -> Gives(Made("opaque", "str", <<>>), M)
      [] n.kind \in CallKinds -> IF Last(rs).ran THEN Gives(Last(rs).value, M) ELSE Unknown(M)
      [] OTHER -> Unknown(M)

\* The value must be of the type the checker recorded.
Judged(n, r) ==
    IF r.out = "value" /\ n.kind \notin Statements /\ ~Fitting(r.M, r.value, Ground(r.M, n.type))
    THEN Stuck("type", r.M) ELSE r
\* A call that is selected when it runs, and comes to nothing.
Uncalled(n, at) ==
    /\ n.kind \in CallKinds /\ n.call # <<>> /\ n.call.form \in {"GenericBound", "Dynamic", "TraitSelf"}
    /\ ~Last(at.rs).ran /\ Target(n, at) = <<>>
Meaning(n, at) ==
    IF at.out # "value" THEN [Outcome(at.out, at.value, <<>>, at.M) EXCEPT !.why = at.why]
    ELSE IF n.kind \in Statements THEN StatementMeaning(n, at.rs, at.M)
    ELSE IF Uncalled(n, at) THEN Stuck("no callee", at.M)
    ELSE Judged(n, ExpressionMeaning(n, at.rs, at.M))

RECURSIVE Run(_, _)
Run(n, M) ==
    Meaning(n, FoldLeft(LAMBDA at, k : IF Ready(n, k, at)
                                       THEN Stepped(n, k, at, Run(NodeAt(n, k, at), MachineAt(n, k, at)))
                                       ELSE [at EXCEPT !.rs = Append(@, Skipped)],
                        [out |-> "value", value |-> UnitValue, why |-> "", rs |-> <<>>, M |-> M],
                        [k \in DOMAIN Schedule(n) |-> k]))

\* A run of a function without parameters.
Started(f) ==
    Run(checked[f].node,
        [store |-> <<>>, writable |-> <<>>, locals |-> <<>>, types |-> <<>>, self |-> Nil, depth |-> 0,
         bindings |-> checked[f].bindings, result |-> Function(f).result])

=============================================================================
