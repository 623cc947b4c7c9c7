------------------------------ MODULE MCTyping ------------------------------
(***************************************************************************)
(* Families of small programs around one base program: each family varies  *)
(* what one group of rules decides.  Integers have four bits.              *)
(***************************************************************************)
EXTENDS Typing

I32 == Primitive("i32")
F64 == Primitive("f64")
U8 == Primitive("u8")
T(name) == Parameter(name)
Ref(t) == Reference("shared", t)
RefVar(t) == Reference("mutable", t)
Fn(from, to) == FunctionType("safe", "Elamite", <<>>, <<[type |-> from, variadic |-> FALSE]>>, to)

-----------------------------------------------------------------------------
(* Declarations *)

Field(name, variant, type) == [name |-> name, variant |-> variant, type |-> type, public |-> TRUE]
Type(kind, module, parameters, fields, variants) ==
    [kind |-> kind, module |-> module, parameters |-> parameters, fields |-> fields, variants |-> variants,
     derives |-> <<>>, methods |-> <<>>, target |-> Nil]
Struct(module, parameters, types) ==
    Type("Struct", module, parameters,
         [i \in DOMAIN types |-> Field(<<"x", "y", "z">>[i], "", types[i])], <<>>)
Trait(module, methods) == [Type("Trait", module, <<>>, <<>>, <<>>) EXCEPT !.methods = methods]
Method(name, default, function) == [name |-> name, default |-> default, function |-> function]

Callable(parameters, receiver, arguments, result) ==
    [parameters |-> parameters, owned |-> parameters, receiver |-> receiver,
     arguments |-> [i \in DOMAIN arguments |-> [type |-> arguments[i], variadic |-> FALSE]],
     result |-> result, safety |-> "safe", public |-> TRUE, module |-> "m", foreign |-> FALSE, body |-> <<>>]
WithBody(f, names, block) == [f EXCEPT !.body = <<[parameters |-> names, block |-> block, test |-> FALSE]>>]
Impl(trait, target, parameters, methods) ==
    [trait |-> trait, target |-> target, module |-> "m", parameters |-> parameters, methods |-> methods,
     unsafe |-> FALSE]

-----------------------------------------------------------------------------
(* Bodies *)

Leaf(kind, name, info) == Node(kind, name, info, <<>>)
L(name) == Leaf("Local", name, <<>>)
Number(n, suffix) ==
    Leaf("Literal", "int", [magnitude |-> IF n < 0 THEN -n ELSE n, suffix |-> suffix, negative |-> n < 0])
N(n) == Number(n, <<>>)
B(b) == Leaf("Literal", "bool", [value |-> b])
Un(operator, e) == Node("Unary", operator, <<>>, <<e>>)
Bin(operator, l, r) == Node("Binary", operator, <<>>, <<l, r>>)
Dot(e, name) == Node("Member", name, <<>>, <<e>>)
Item(e, i) == Node("TupleField", "", [index |-> i], <<e>>)
At1(e, i) == Node("Index", "", <<>>, <<e, i>>)
Pack(kids) == Node("Tuple", "", <<>>, kids)
Arr(kids) == Node("Array", "", <<>>, kids)
As(e, target) == Node("Cast", "", [target |-> target], <<e>>)
New(name, labels, kids) ==
    Node("Record", name, [variant |-> "", record |-> TRUE, labels |-> labels, arguments |-> <<>>], kids)
NewVariant(name, variant, labels, kids) ==
    Node("Record", name, [variant |-> variant, record |-> TRUE, labels |-> labels, arguments |-> <<>>], kids)
Put(name, variant, kids) ==
    Node("Positional", name, [variant |-> variant, record |-> FALSE, labels |-> <<>>, arguments |-> <<>>], kids)
Call(f, kids) == Node("Call", f, [arguments |-> <<>>, receiver |-> FALSE, self |-> Nil], kids)
Send(e, method, kids) == Node("MethodCall", method, <<>>, <<e>> \o kids)
Apply(e, kids) == Node("ValueCall", "", <<>>, <<e>> \o kids)
Named1(f) == Leaf("Function", f, [arguments |-> <<>>])
Lambda1(captures, parameters, result, block) ==
    Node("Closure", "closure", [captures |-> captures, parameters |-> parameters, result |-> result], <<block>>)

Binding(name) == Node("Bind", name, <<>>, <<>>)
Bound1(var, name, annotation, e) ==
    Node("Let", "", [var |-> var, annotation |-> annotation, pattern |-> Node("Bind", name, <<>>, <<>>)], <<e>>)
Let(name, e) == Bound1(FALSE, name, <<>>, e)
Var(name, e) == Bound1(TRUE, name, <<>>, e)
Set(place, operator, e) == Node("Assignment", operator, <<>>, <<place, e>>)
Ret(e) == Node("Return", "", <<>>, <<e>>)
Do(e) == Node("Expression", "", <<>>, <<e>>)
Body(statements) == Node("Block", "", <<>>, statements)
If(c, statements) == Node("If", "", <<>>, <<c, Body(statements)>>)
IfElse(c, one, two) == Node("If", "", <<>>, <<c, Body(one), Body(two)>>)
Loop(c, statements) == Node("While", "", <<>>, <<c, Body(statements)>>)
Arm(pattern, statements) == Node("Arm", "", pattern, <<Body(statements)>>)
Guard(pattern, c, statements) == Node("Arm", "", pattern, <<c, Body(statements)>>)
Match(e, arms) == Node("Match", "", <<>>, <<e>> \o arms)
Break == Leaf("Jump", "break", <<>>)

-----------------------------------------------------------------------------
(* The base program *)

ShowTrait == Nominal("Show", <<>>)
PointType == Nominal("Point", <<>>)
ShapeType == Nominal("Shape", <<>>)
Base ==
    [declarations |->
        ("Show" :> Trait("m", <<Method("show", FALSE, "Show.show"), Method("twice", TRUE, "Show.twice")>>))
        @@ ("Point" :> Struct("m", <<>>, <<I32, I32>>))
        @@ ("Pair" :> Struct("m", <<"P", "Q">>, <<T("P"), T("Q")>>))
        @@ ("Far" :> Struct("far", <<"F">>, <<T("F")>>))
        @@ ("Shape" :> Type("Enum", "m", <<>>, <<Field("0", "Circle", I32), Field("w", "Rect", I32),
                                                 Field("on", "Rect", Bool)>>, <<"Empty", "Circle", "Rect">>))
        @@ ("Option" :> Type("Enum", "far", <<"O">>, <<Field("0", "Some", T("O"))>>, <<"None", "Some">>))
        @@ ("Result" :> Type("Enum", "far", <<"R", "S">>, <<Field("0", "Ok", T("R")), Field("0", "Err", T("S"))>>,
                             <<"Ok", "Err">>))
        @@ ("D" :> Struct("m", <<"A">>, <<T("A")>>)) @@ ("E" :> Struct("m", <<>>, <<I32>>))
        @@ ("Turn" :> [Type("Alias", "m", <<"V">>, <<>>, <<>>) EXCEPT !.target =
                          Written("named", "Pair", {}, <<Written("builtin", "i32", {}, <<>>),
                                                         Written("parameter", "V", {}, <<>>)>>)])
        @@ ("Loop" :> [Type("Alias", "m", <<>>, <<>>, <<>>) EXCEPT !.target =
                          Written("&", "", {}, <<Written("named", "Loop", {}, <<>>)>>)]),
     impls |-> <<>>,
     bounds |-> [p \in {"A", "F", "O", "P", "Q", "R", "S", "T", "U", "V"} |-> IF p = "U" THEN <<ShowTrait>> ELSE <<>>],
     functions |->
        ("Show.show" :> Callable(<<>>, <<Ref(SelfOf("Show"))>>, <<I32>>, I32))
        @@ ("Show.twice" :> WithBody(Callable(<<>>, <<Ref(SelfOf("Show"))>>, <<>>, I32), <<"s">>,
                Body(<<Let("one", Send(L("s"), "show", <<N(1)>>)), Ret(Bin("-", L("one"), N(1)))>>))),
     packages |-> [m \in {"m", "far"} |-> m],
     visible |-> [m \in {"m", "far"} |-> {"Show"}],
     annotations |-> <<>>,
     order |-> <<>>]

-----------------------------------------------------------------------------
(* Implementations: two of one trait over every pair of patterns, two inherent *)
(* blocks, and one whose method differs from the trait's                       *)

Patterns == <<T("T"), I32, Nominal("Pair", <<T("T"), T("T")>>), Nominal("Pair", <<I32, T("U")>>),
              Nominal("Pair", <<T("U"), I32>>), Nominal("Far", <<T("T")>>), PointType,
              Tuple(<<T("T"), I32>>), Ref(Fn(T("T"), I32)), Ref(Fn(I32, T("U")))>>
Mentioned(pattern) == SelectSeq(<<"T", "U">>, LAMBDA p : MentionsParameter(NoBindings, pattern, p))
Shown(pattern, method) == Impl(ShowTrait, pattern, Mentioned(pattern), "show" :> method)
ShowOf(target) == Callable(<<>>, <<Ref(target)>>, <<I32>>, I32)
Coherence ==
    {[Base EXCEPT !.impls = <<Shown(Patterns[i], "one"), Shown(Patterns[j], "two")>>,
                  !.functions = ("one" :> ShowOf(Patterns[i])) @@ ("two" :> ShowOf(Patterns[j])) @@ @] :
        i \in DOMAIN Patterns, j \in DOMAIN Patterns}
InherentFamily ==
    {[Base EXCEPT !.impls = <<Impl(Nil, Patterns[i], Mentioned(Patterns[i]), "one" :> "one"),
                              Impl(Nil, Patterns[j], <<"T">>, name :> "two")>>,
                  !.functions = ("one" :> ShowOf(Patterns[i])) @@ ("two" :> ShowOf(Patterns[j])) @@ @] :
        i \in {3, 4, 5, 6, 7}, j \in DOMAIN Patterns, name \in {"one", "x", "two"}}
Conformance ==
    {[Base EXCEPT !.impls = <<[Impl(ShowTrait, PointType, <<>>, methods) EXCEPT !.unsafe = unsafe, !.module = module]>>,
                  !.functions = ("one" :> Callable(<<>>, receiver, arguments, result)) @@ @] :
        methods \in {<<>>, "show" :> "one", "twice" :> "one", ("show" :> "one") @@ ("more" :> "one")},
        receiver \in {<<>>, <<Ref(PointType)>>, <<RefVar(PointType)>>, <<PointType>>, <<I32>>},
        arguments \in {<<>>, <<I32>>, <<U8>>}, result \in {I32, Bool}, unsafe \in BOOLEAN, module \in {"m", "far"}}
CapabilityFamily ==
    {[Base EXCEPT !.impls = <<[Impl(Builtin("Send", <<>>), PointType, <<>>, methods) EXCEPT !.unsafe = unsafe]>>,
                  !.functions = ("one" :> ShowOf(PointType)) @@ @] :
        methods \in {<<>>, "one" :> "one"}, unsafe \in BOOLEAN}

-----------------------------------------------------------------------------
(* Declarations: what D derives, and what D and E contain *)

FieldChoices == {I32, F64, T("A"), Ref(T("A")), Ref(TraitObject(ShowTrait)), Builtin("Vec", <<T("A")>>),
                 Builtin("Shared", <<T("A")>>), Nominal("Pair", <<T("A"), F64>>), RawPointer("shared", T("A")),
                 Ref(Fn(I32, I32)), Tuple(<<T("A"), Bool>>), ArrayOf(T("A"), 1)}
DerivationFamily ==
    {[Base EXCEPT !.declarations["D"] = [Type(kind, "m", <<"A">>, <<Field("x", "", type)>>, <<>>) EXCEPT !.derives = derives],
                  !.declarations["Pair"].derives = <<"PartialEq", "Hash">>,
                  !.impls = IF manual THEN <<Impl(Builtin("PartialEq", <<>>), Nominal("Far", <<T("U")>>), <<"U">>, <<>>)>>
                            ELSE <<>>] :
        kind \in {"Struct", "Enum"}, type \in FieldChoices, manual \in BOOLEAN,
        derives \in {<<"PartialEq">>, <<"PartialEq", "Eq", "Hash">>, <<"Eq">>, <<"Default">>, <<"PartialEq", "PartialEq">>,
                     <<"PartialEq", "PartialOrd", "Eq", "Ord">>, <<"Show">>}}
D(t) == Nominal("D", <<t>>)
Containers == {I32, D(I32), D(T("A")), D(D(T("A"))), Ref(D(D(T("A")))), Builtin("Vec", <<D(D(T("A")))>>), Nominal("E", <<>>),
               Tuple(<<Nominal("E", <<>>), T("A")>>), RawPointer("shared", Nominal("E", <<>>)),
               Nominal("Pair", <<T("A"), Nominal("E", <<>>)>>), AliasOf("Turn", <<D(I32)>>, D(I32))}
ContainmentFamily ==
    {[Base EXCEPT !.declarations["D"] = Struct("m", <<"A">>, <<one>>), !.declarations["E"] = Struct("m", <<>>, <<two, I32>>)] :
        one \in Containers, two \in {c \in Containers : ~MentionsParameter(NoBindings, c, "A")}}

-----------------------------------------------------------------------------
(* Foreign declarations, and written types *)

Opaque1 == Foreign("Ticket", FALSE)
Complete == Foreign("Pixel", TRUE)
Outside == {I32, Bool, Primitive("i128"), Primitive("String"), RawPointer("shared", Opaque1), Opaque1, Complete, Ref(I32),
            RawPointer("shared", Fn(I32, Unit)), RawPointer("shared", Fn(Bool, Unit)), RawPointer("mutable", PointType)}
ForeignFamily ==
    {[Base EXCEPT !.declarations = ("Ticket" :> Type("ForeignType", "m", <<>>, <<>>, <<>>))
                                   @@ ("Pixel" :> [Struct("m", <<>>, <<field>>) EXCEPT !.kind = "ForeignStruct"]) @@ @,
                  !.functions = ("ff" :> [Callable(<<>>, <<>>, <<argument>>, result) EXCEPT !.foreign = TRUE]) @@ @] :
        field \in Outside, argument \in Outside, result \in {Unit, I32, Bool, Complete}}

W(form, name) == Written(form, name, {}, <<>>)
WrittenLeaves == {W("self", ""), W("parameter", "A"), W("builtin", "i32"), W("builtin", "Vec"), W("builtin", "print"),
                  W("builtin", "Display"), W("named", "Point"), W("named", "Show"), W("named", "Pair"), W("named", "Loop"),
                  W("!", ""), W("tuple", "")}
Around(w) == {Written("&", "", {}, <<w>>), Written("&", "", {"var"}, <<w>>), Written("&", "", {"unsafe"}, <<w>>),
              Written("*", "", {}, <<w>>), Written("*", "", {"var"}, <<w>>), Written("fn", "", {}, <<w>>),
              Written("fn", "", {"unsafe"}, <<w, W("builtin", "i32")>>), Written("array", "1", {}, <<w>>),
              Written("slice", "", {}, <<w>>), Written("tuple", "", {}, <<w>>), Written("tuple", "", {"comma"}, <<w>>),
              Written("builtin", "Vec", {}, <<w>>), Written("builtin", "Vec", {}, <<w, w>>), Written("named", "Turn", {}, <<w>>),
              Written("named", "Pair", {}, <<w, W("builtin", "i32")>>), Written("parameter", "A", {}, <<w>>)}
Around1 == UNION {Around(w) : w \in WrittenLeaves}
AnnotationFamilies ==
    [n \in 1..3 |->
        {[Base EXCEPT !.annotations = <<[written |-> w, self |-> self, position |-> position]>>] :
            w \in CASE n = 1 -> WrittenLeaves [] n = 2 -> Around1 [] n = 3 -> UNION {Around(v) : v \in Around1},
            self \in IF n = 3 THEN {PointType} ELSE {PointType, Nil},
            position \in IF n = 3 THEN {"Value"} ELSE {"Value", "Return"}}]

-----------------------------------------------------------------------------
(* Bodies of main *)

Function1(name, f, names, block) == name :> WithBody(f, names, block)
Library ==
    Function1("Point.show", Callable(<<>>, <<Ref(PointType)>>, <<I32>>, I32), <<"ps", "pk">>,
              Body(<<Ret(Bin("-", Dot(L("ps"), "x"), L("pk")))>>))
    @@ Function1("Point.bump", Callable(<<>>, <<RefVar(PointType)>>, <<>>, Unit), <<"pb">>,
                 Body(<<Set(Dot(L("pb"), "x"), "=", N(2))>>))
    @@ Function1("Point.sum", Callable(<<>>, <<PointType>>, <<>>, I32), <<"pp">>,
                 Body(<<Ret(Bin("+", Dot(L("pp"), "x"), Dot(L("pp"), "y")))>>))
    @@ Function1("id", Callable(<<"T">>, <<>>, <<T("T")>>, T("T")), <<"iv">>, Body(<<Ret(L("iv"))>>))
    @@ Function1("pick", Callable(<<"U">>, <<>>, <<Ref(T("U"))>>, I32), <<"up">>,
                 Body(<<Ret(Send(L("up"), "show", <<N(1)>>))>>))
    @@ Function1("reset", Callable(<<>>, <<>>, <<RefVar(I32)>>, Unit), <<"rn">>,
                 Body(<<Set(Un("*", L("rn")), "=", N(0))>>))
    @@ Function1("half", Callable(<<>>, <<>>, <<I32>>, Nominal("Result", <<I32, Bool>>)), <<"hn">>,
                 Body(<<If(Bin("==", L("hn"), N(0)), <<Ret(Put("Result", "Err", <<B(TRUE)>>))>>),
                        Ret(Put("Result", "Ok", <<Bin("/", L("hn"), N(2))>>))>>))
    @@ Function1("none", Callable(<<>>, <<>>, <<>>, Unit), <<>>, Body(<<>>))
    @@ ("danger" :> [WithBody(Callable(<<>>, <<>>, <<>>, Unit), <<>>, Body(<<>>)) EXCEPT !.safety = "unsafe"])
Order == <<"Show.twice", "Point.show", "Point.bump", "Point.sum", "id", "pick", "reset", "half">>
Blocks1 == <<Impl(ShowTrait, PointType, <<>>, "show" :> "Point.show"),
             Impl(Nil, PointType, <<>>, ("bump" :> "Point.bump") @@ ("sum" :> "Point.sum"))>>
Prefix ==
    <<Let("p", New("Point", <<"x", "y">>, <<N(1), N(2)>>)), Var("q", New("Point", <<"y", "x">>, <<N(3), N(1)>>)),
      Var("n", N(1)), Var("b", B(TRUE)), Let("r", Un("&", L("p"))), Let("m", Un("&var", L("q"))),
      Let("s", NewVariant("Shape", "Rect", <<"on", "w">>, <<B(FALSE), N(2)>>)),
      Let("o", Put("Option", "Some", <<B(TRUE)>>)), Let("t", Pack(<<N(1), B(TRUE)>>)), Var("a", Arr(<<N(1), N(2)>>)),
      Bound1(FALSE, "d", <<Ref(TraitObject(ShowTrait))>>, Un("&", L("p")))>>
MainAfter(order, result, statements) ==
    [Base EXCEPT !.impls = Blocks1, !.order = Append(order, "main"),
                 !.functions = Library @@ ("main" :> WithBody(Callable(<<>>, <<>>, <<>>, result), <<>>,
                                                              Body(Prefix \o statements))) @@ @]
Main(result, statements) == MainAfter(<<>>, result, statements)

Expressions ==
    {L("p"), L("n"), L("b"), L("r"), L("m"), L("s"), L("o"), L("t"), L("a"), L("d"), N(1), N(7), Number(9, <<"u8">>),
     B(TRUE), Un("&", L("p")), Un("&var", L("p")), Un("&var", L("q")), Un("&", L("n")), Un("&var", L("n")),
     Un("&", L("r")), Un("&var", L("r")), Un("&", Dot(L("q"), "x")), Un("&var", Dot(L("q"), "x")),
     Un("&var", Dot(L("r"), "x")), Un("&var", Dot(L("m"), "x")), Un("&", N(1)), Un("*", L("r")), Un("*", L("n")),
     Un("&", New("Point", <<"x", "y">>, <<N(1), N(2)>>)), Un("-", L("n")), Un("-", L("b")), Un("!", L("b")),
     Un("!", L("n")), Dot(L("p"), "x"), Dot(L("r"), "y"), Item(L("t"), 1), Item(L("t"), 2),
     At1(L("a"), N(1)), At1(L("a"), N(2)), At1(L("p"), N(0)), Bin("+", L("n"), N(1)), Bin("+", L("n"), L("b")),
     Bin("+", L("b"), L("b")), Bin("==", L("n"), L("n")), Bin("==", L("p"), L("p")), Bin("<", L("n"), L("n")),
     Bin("&&", L("b"), L("b")), Bin("<<", L("n"), Number(1, <<"u8">>)), Bin("<<", L("n"), L("n")),
     New("Point", <<"x">>, <<N(1)>>), New("Point", <<"x", "y">>, <<L("b"), N(1)>>),
     New("Pair", <<"x", "y">>, <<N(1), L("b")>>), Put("Option", "Some", <<L("n")>>), Put("Option", "None", <<>>),
     Put("Result", "Ok", <<N(1)>>), Put("Shape", "Circle", <<N(1)>>), Put("Shape", "Circle", <<L("b")>>),
     Put("Shape", "Circle", <<>>), As(L("n"), U8), As(L("b"), I32), As(L("r"), Ref(TraitObject(ShowTrait))),
     As(L("m"), Ref(TraitObject(ShowTrait))), As(L("r"), RefVar(TraitObject(ShowTrait))), Arr(<<L("n"), L("b")>>), Arr(<<>>), Pack(<<>>)}
Invocations == UNION {
    {Call("id", <<L("n")>>), Call("id", <<L("p")>>), Call("id", <<Call("id", <<L("b")>>)>>), Call("id", <<>>),
     Call("pick", <<L("r")>>), Call("pick", <<Un("&", L("n"))>>), Call("pick", <<L("d")>>),
     Call("reset", <<Un("&var", L("n"))>>), Call("reset", <<Un("&", L("n"))>>), Call("half", <<L("n")>>),
     Call("half", <<L("b")>>), Send(L("p"), "bump", <<>>), Send(L("q"), "bump", <<>>), Send(L("r"), "bump", <<>>),
     Send(L("m"), "bump", <<>>), Send(New("Point", <<"x", "y">>, <<N(1), N(2)>>), "bump", <<>>),
     Send(L("p"), "sum", <<>>), Send(L("r"), "sum", <<>>), Send(L("p"), "show", <<N(1)>>),
     Send(L("m"), "show", <<N(1)>>), Send(L("p"), "show", <<L("b")>>), Send(L("p"), "twice", <<>>),
     Send(L("d"), "show", <<N(1)>>), Send(L("d"), "twice", <<>>), Send(L("d"), "sum", <<>>), Send(L("n"), "show", <<N(1)>>),
     Apply(Named1("half"), <<N(4)>>), Apply(L("n"), <<>>), Named1("id"), Named1("reset")},
    {Apply(Lambda1(<<[source |-> x, name |-> "c", kind |-> k]>>, <<>>, r, Body(<<s>>)), <<>>) :
            x \in {"n", "p", "m"}, k \in {"value", "&", "&var"}, r \in {<<>>, <<I32>>},
            s \in {Ret(L("c")), Ret(N(1)), Do(N(1)), Set(L("c"), "=", N(2)), Set(Un("*", L("c")), "=", N(2))}}}

\* An expression bound, with an annotation or without, and used.
Annotations1 == {<<>>, <<I32>>, <<U8>>, <<Bool>>, <<PointType>>, <<Ref(PointType)>>, <<RefVar(PointType)>>,
                 <<Ref(TraitObject(ShowTrait))>>, <<RefVar(TraitObject(ShowTrait))>>, <<Nominal("Option", <<I32>>)>>,
                 <<ArrayOf(U8, 0)>>, <<Ref(Fn(I32, I32))>>, <<Ref(Fn(RefVar(I32), Unit))>>}
BindingFamily ==
    {Main(Unit, <<Bound1(FALSE, "v", annotation, e)>>) : annotation \in Annotations1, e \in Expressions}
CallFamily ==
    {MainAfter(Order, Unit, <<Bound1(FALSE, "v", annotation, e), Set(L("n"), "=", N(0))>>) :
        annotation \in {<<>>, <<I32>>, <<Bool>>, <<Ref(Fn(I32, I32))>>, <<Ref(Fn(RefVar(I32), Unit))>>}, e \in Invocations}
ReturnFamily ==
    {Main(result, <<Ret(e)>>) : result \in {Unit, I32, Bool, PointType, Ref(TraitObject(ShowTrait)),
                                            Nominal("Result", <<I32, Bool>>), Never}, e \in Expressions}

\* What may be assigned.
Assignables == {L("p"), L("q"), L("n"), L("a"), Dot(L("p"), "x"), Dot(L("q"), "x"), Dot(L("r"), "x"), Dot(L("m"), "x"),
                Un("*", L("r")), Un("*", L("m")), Item(L("t"), 0), At1(L("a"), N(0)), N(1), Dot(Un("*", L("m")), "y")}
AssignmentFamily ==
    {Main(Unit, <<Set(place, operator, e)>>) :
        place \in Assignables, operator \in {"=", "+=", "<<="},
        e \in {L("n"), L("b"), L("p"), N(1), Number(1, <<"u8">>), L("a")}}

\* Ways to the end of a body.
Paths ==
    {Ret(N(1)), Set(L("n"), "=", N(2)), Break, If(L("b"), <<Ret(N(1))>>), IfElse(L("b"), <<Ret(N(1))>>, <<Ret(N(2))>>),
     IfElse(L("b"), <<Ret(N(1))>>, <<>>), Loop(L("b"), <<Ret(N(1))>>), Loop(L("b"), <<Break, Ret(N(1))>>),
     Loop(L("b"), <<Set(L("b"), "=", B(FALSE))>>), Loop(L("n"), <<>>), If(L("n"), <<>>),
     Match(L("b"), <<Arm(Leaf("Literal", "bool", [value |-> TRUE]), <<Ret(N(1))>>),
                     Arm(Leaf("Literal", "bool", [value |-> FALSE]), <<Ret(N(2))>>)>>),
     Match(L("n"), <<Guard(Binding("_"), L("b"), <<Ret(N(1))>>), Arm(Binding("_"), <<>>)>>),
     Do(Node("Try", "", <<>>, <<Call("half", <<L("n")>>)>>))}
EndFamily ==
    {MainAfter(<<"half">>, result, <<Set(L("b"), "=", B(v)), one, two>>) :
        result \in {I32, Unit, Nominal("Result", <<I32, Bool>>)}, v \in BOOLEAN, one \in Paths, two \in Paths}

-----------------------------------------------------------------------------
(* Matches: every sequence of at most three arms *)

AnyBool == {Leaf("Literal", "bool", [value |-> TRUE]), Leaf("Literal", "bool", [value |-> FALSE]), Binding("_")}
Variant(enum, name) == Leaf("Unit", name, [enum |-> enum])
FieldsPattern(declaration, variant, record, labels, rest, kids) ==
    Node("Fields", "", [declaration |-> declaration, variant |-> variant, record |-> record, labels |-> labels,
                        rest |-> rest], kids)
Either(l, r) == Node("Alternatives", "", <<>>, <<l, r>>)
Rect(on) == FieldsPattern("Shape", "Rect", TRUE, <<"w", "on">>, FALSE, <<Binding("w"), on>>)
ShapePatterns ==
    {Binding("z"), Variant("Shape", "Empty"), FieldsPattern("Shape", "Circle", FALSE, <<>>, FALSE, <<Binding("_")>>),
     FieldsPattern("Shape", "Circle", FALSE, <<>>, FALSE, <<Leaf("Literal", "int", [magnitude |-> 1, suffix |-> <<>>, negative |-> FALSE])>>),
     Rect(Binding("_")), Rect(Leaf("Literal", "bool", [value |-> TRUE])),
     FieldsPattern("Shape", "Rect", TRUE, <<"w">>, FALSE, <<Binding("w")>>),
     Either(Variant("Shape", "Empty"), FieldsPattern("Shape", "Circle", FALSE, <<>>, FALSE, <<Binding("_")>>)),
     Either(Variant("Shape", "Empty"), FieldsPattern("Shape", "Circle", FALSE, <<>>, FALSE, <<Binding("k")>>))}
TuplePatterns ==
    {Binding("_"), Node("Tuple", "", <<>>, <<Binding("k"), Binding("_")>>),
     Node("Tuple", "", <<>>, <<Binding("k"), Leaf("Literal", "bool", [value |-> TRUE])>>),
     Node("Tuple", "", <<>>, <<Binding("k")>>), Node("Dereference", "", <<>>, <<Binding("_")>>)}
Referred == UNION {{Node("Dereference", "", <<>>, <<p>>) : p \in AnyBool}, {Binding("k")}}
Arms(patterns) == [i \in DOMAIN patterns |-> Arm(patterns[i], <<Ret(N(i))>>)]
MatchOf(e, length, patterns) == {Main(I32, <<Match(e, Arms(arms))>>) : arms \in [1..length -> patterns]}
GuardFamily ==
    {Main(I32, <<Match(L("b"), <<Guard(p, c, <<Ret(N(1))>>), Arm(q, <<Ret(N(2))>>)>>)>>) :
        p \in AnyBool, q \in AnyBool, c \in {B(FALSE), L("b"), L("n")}}
MatchFamilies ==
    [n \in 1..3 |-> MatchOf(L("s"), n, ShapePatterns)]
    \o [n \in 1..2 |-> MatchOf(Put("Shape", "Circle", <<N(2)>>), n, ShapePatterns)] \o [n \in 1..3 |-> MatchOf(L("b"), n, AnyBool)]
    \o [n \in 1..3 |-> MatchOf(Un("&", L("b")), n, Referred)] \o [n \in 1..2 |-> MatchOf(L("t"), n, TuplePatterns)]
    \o <<GuardFamily>>

\* Arms of which one leaves fields of a record out and tests another.
RestPatterns ==
    {Variant("Shape", "Empty"), FieldsPattern("Shape", "Circle", FALSE, <<>>, FALSE, <<Binding("_")>>),
     FieldsPattern("Shape", "Rect", TRUE, <<"on">>, TRUE, <<Leaf("Literal", "bool", [value |-> TRUE])>>)}
MCRestPrograms == [n \in 1..3 |-> MatchOf(L("s"), n, RestPatterns)]

-----------------------------------------------------------------------------
(* Operations on constants *)

ConstantFamily ==
    {Main(Unit, <<Let("v", Bin(operator, Number(l, <<type>>), Number(r, <<IF operator \in {"<<", ">>"} THEN "u8" ELSE type>>)))>>) :
        operator \in {"+", "-", "*", "/", "%", "<<", ">>"}, type \in {"i8", "u8"},
        l \in {-8, -1, 0, 1, 5, 7, 15}, r \in {-1, 0, 1, 3, 4}}

-----------------------------------------------------------------------------
(* Standard types, pointers and the statements that open a context *)

Collect(kind, kids) == Node("Collection", kind, <<>>, kids)
NewOf(type, kids) == Node("NewCall", "new", type, kids)
OnType(owner, name, kids) == Node("TypeCall", name, [owner |-> owner, arguments |-> <<>>], kids)
Unsafe(statements) == Node("Unsafe", "", <<>>, <<Body(statements)>>)
Defer(e) == Node("Defer", "", <<>>, <<e>>)
For(name, e, statements) == Node("For", name, <<>>, <<e, Body(statements)>>)
Null == Leaf("Literal", "null", <<>>)
Text == Leaf("Literal", "string", <<>>)
Raw(e) == As(e, RawPointer("shared", I32))
StandardPrefix ==
    <<Var("vec", Collect("vec", <<N(1), N(2)>>)), Var("map", Collect("map", <<N(1), B(TRUE)>>)),
      Var("set", Collect("set", <<N(1)>>)), Var("box", NewOf(Builtin("Box", <<I32>>), <<N(1)>>)),
      Var("sh", NewOf(Builtin("Shared", <<I32>>), <<N(1)>>)), Let("weak", Send(L("sh"), "downgrade", <<>>)),
      Var("store", NewOf(Builtin("Store", <<I32>>), <<>>)), Let("mu", NewOf(Builtin("Mutex", <<I32>>), <<N(1)>>)),
      Let("at", NewOf(Builtin("AtomicI32", <<>>), <<N(1)>>)), Let("raw", Raw(Un("&", L("n")))),
      Let("ends", Node("Channel", "", [element |-> I32, bounded |-> TRUE], <<N(1)>>)),
      Let("un", NewOf(Builtin("MaybeUninit", <<I32>>), <<>>))>>
Receivers == {L("vec"), L("map"), L("set"), L("box"), L("sh"), L("weak"), L("store"), L("mu"), L("at"), L("un"), L("n"), L("a"),
              Item(L("ends"), 0), Item(L("ends"), 1), Send(L("mu"), "lock", <<>>), Un("&", L("vec"))}
Methods == {"len", "get", "get_var", "insert", "remove", "pop", "append", "clear", "downgrade", "upgrade", "pointer_var",
            "assume_init", "lock", "load", "fetch_add", "compare_exchange", "send", "try_receive", "close",
            "checked_add", "wrapping_neg", "show"}
StandardFamily ==
    {Main(Unit, StandardPrefix \o <<Let("v", Send(r, method, arguments))>>) :
        r \in Receivers, method \in Methods, arguments \in {<<>>, <<N(1)>>, <<N(0), N(1)>>}}

\* Each of these outside and inside an unsafe block.
Operations ==
    {Let("v", Un("*", L("raw"))), Let("v", Un("*", Null)), Let("v", Bin("+", L("raw"), N(1))), Let("v", Bin("-", L("raw"), L("raw"))),
     Let("v", Bin("<", L("raw"), L("raw"))), Let("v", At1(L("raw"), N(1))), Let("v", As(L("raw"), RawPointer("mutable", I32))),
     Let("v", As(L("raw"), Ref(I32))), Let("v", Raw(Null)), Let("v", Bin("==", L("raw"), Null)), Let("v", Call("danger", <<>>)),
     Defer(Call("danger", <<>>)), Let("v", Send(L("un"), "assume_init", <<>>))}
UnsafeFamily ==
    {MainAfter(<<"danger">>, Unit, StandardPrefix \o one) :
        one \in UNION {{<<o>>, <<Unsafe(<<o>>)>>, <<Defer(Body(<<o>>))>>} : o \in Operations}}

Others ==
    {Defer(Body(<<Set(L("n"), "=", N(0))>>)), Defer(Body(<<Ret(N(1))>>)), Defer(Body(<<Defer(Body(<<>>))>>)),
     Defer(Call("half", <<N(1)>>)), Unsafe(<<Defer(Body(<<>>))>>), For("i", L("a"), <<Set(L("n"), "+=", L("i")), Break>>),
     For("i", L("vec"), <<Set(L("n"), "=", L("i"))>>), For("i", L("map"), <<Let("v", Item(L("i"), 1))>>), For("i", L("b"), <<>>),
     For("i", Un("&", L("a")), <<Set(L("n"), "=", Un("*", L("i")))>>), Node("Expect", "", <<>>, <<Body(<<>>)>>),
     Do(Node("Print", "", <<>>, <<L("n")>>)), Do(Node("Print", "", <<>>, <<L("p")>>)),
     Let("v", Node("Formatted", "", <<>>, <<L("n"), L("b")>>)), Let("v", Node("Formatted", "", <<>>, <<L("p")>>)),
     Let("v", Node("Spawn", "", <<>>, <<Named1("none")>>)), Let("v", Node("Spawn", "", <<>>, <<Named1("id")>>)),
     Let("v", Node("Spawn", "", <<>>, <<Lambda1(<<[source |-> "n", name |-> "c", kind |-> "value"]>>, <<>>, <<I32>>, Body(<<Ret(L("c"))>>))>>)),
     Let("v", Node("Spawn", "", <<>>, <<Lambda1(<<[source |-> "n", name |-> "c", kind |-> "&"]>>, <<>>, <<>>, Body(<<>>))>>)),
     Let("v", Node("Convert", "try_from", "u8", <<L("n")>>)), Let("v", Node("Convert", "wrapping_from", "u8", <<L("b")>>)),
     Let("v", Node("Channel", "", [element |-> RawPointer("shared", I32), bounded |-> FALSE], <<>>)),
     Let("v", NewOf(Builtin("Map", <<F64, I32>>), <<>>)), Bound1(FALSE, "v", <<Builtin("Vec", <<I32>>)>>, NewOf(Builtin("Vec", <<ErrorType>>), <<>>)),
     Let("v", Node("NewCall", "from", Primitive("String"), <<Text>>)), Let("v", Node("NewCall", "default", F64, <<>>)),
     Let("v", Node("NewCall", "from", Builtin("Identity", <<Ref(I32)>>), <<Un("&", L("n"))>>)),
     Let("v", Node("NewCall", "from", Builtin("Identity", <<I32>>), <<L("n")>>)),
     Unsafe(<<Let("v", Node("NewCall", "from_raw", Builtin("Box", <<I32>>), <<Send(L("box"), "into_raw", <<>>)>>))>>),
     Let("v", Node("NewCall", "from_raw", Builtin("Box", <<I32>>), <<Send(L("box"), "into_raw", <<>>)>>)),
     Let("v", Node("NewCall", "default", Builtin("Set", <<I32>>), <<>>)), Let("v", Node("NewCall", "default", Builtin("Box", <<I32>>), <<>>)),
     Let("v", Collect("vec", <<>>)), Let("v", Collect("set", <<N(1), L("b")>>)), Let("v", Text),
     Let("v", Bin("++", Text, Text)), Let("v", Bin("++", N(1), N(1))), Let("v", OnType("Point", "sum", <<L("p")>>)),
     Let("v", OnType("Point", "sum", <<L("n")>>)), Let("v", OnType("Point", "nothing", <<>>)),
     Bound1(FALSE, "v", <<D(I32)>>, OnType("D", "default", <<>>)), Let("v", OnType("D", "default", <<>>)),
     Let("v", OnType("Point", "show", <<L("r"), N(1)>>)),
     Let("v", Leaf("TypeMember", "sum", [owner |-> "Point", self |-> Nil])), Let("v", Dot(L("p"), "bump")), Let("v", At1(L("vec"), N(0))),
     Bound1(FALSE, "v", <<Ref(Fn(I32, I32))>>, Lambda1(<<>>, <<[name |-> "k", type |-> I32]>>, <<I32>>, Body(<<Ret(L("k"))>>))),
     Let("v", As(Lambda1(<<>>, <<[name |-> "k", type |-> I32]>>, <<I32>>, Body(<<Ret(L("k"))>>)), Ref(Fn(I32, I32)))),
     Bound1(FALSE, "v", <<I32>>, Un("*", L("box"))), Set(At1(L("vec"), N(0)), "=", N(2)), Set(At1(L("map"), N(0)), "=", B(TRUE)),
     Node("Let", "", [var |-> FALSE, annotation |-> <<>>, pattern |-> Node("TuplePattern", "", <<>>, <<Binding("v1"), Binding("_")>>)], <<L("t")>>),
     Node("Let", "", [var |-> FALSE, annotation |-> <<>>, pattern |-> Node("TuplePattern", "", <<>>, <<Binding("v1")>>)], <<L("t")>>)}
OtherFamily ==
    {[MainAfter(<<"half", "none", "id", "Point.sum", "Point.show">>, Unit, StandardPrefix \o <<s>>) EXCEPT !.declarations["D"].derives = <<"Default">>] : s \in Others}

MCPrograms ==
    <<Coherence, InherentFamily, Conformance, CapabilityFamily, DerivationFamily, ContainmentFamily, ForeignFamily,
      BindingFamily, CallFamily, ReturnFamily, AssignmentFamily, EndFamily, ConstantFamily,
      StandardFamily, UnsafeFamily, OtherFamily>>
    \o AnnotationFamilies \o MatchFamilies
MCSamples == {I32, F64, PointType, Nominal("Pair", <<I32, I32>>), Nominal("Far", <<I32>>),
              Nominal("Pair", <<F64, I32>>), Tuple(<<F64, I32>>), Tuple(<<I32, I32>>), Ref(Fn(I32, I32)),
              Nominal("Pair", <<I32, Nominal("Pair", <<I32, F64>>)>>), D(I32), D(F64), D(D(I32)),
              Nominal("E", <<>>)}
MCEntries == {"main"}
MCBits == [n \in IntegerNames |-> 4]
=============================================================================
