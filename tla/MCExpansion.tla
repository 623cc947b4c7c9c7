---------------------------- MODULE MCExpansion ----------------------------
(***************************************************************************)
(* Expansion on small package graphs, and the scheduler alone as in its    *)
(* own tests: three keys at two locations, four kinds of output.           *)
(***************************************************************************)
EXTENDS Expansion

\* The scheduler as a client of its own.
R(k, l) == [key |-> k, location |-> l]
Out(n, invocations, definitions) ==
    [generated_nodes |-> n, invocations |-> invocations, definitions |-> definitions]

MCOutputs ==
    {Out(3, <<>>, <<>>),
     Out(3, <<R("a", 1)>>, <<>>),
     Out(0, <<R("b", 2), R("c", 1)>>, <<>>),
     Out(5, <<>>, <<<<R("b", 1), R("c", 2)>>>>)}

-----------------------------------------------------------------------------
(* Syntax of the programs *)

N(kind, name, kids) == Interpreter!Node(kind, name, kids)
Noted(node, annotation) == [node EXCEPT !.annotation = annotation]
Invoke(path, arguments) == Noted(N("Macro", "", arguments), path)
Name(x) == N("Name", x, <<>>)
Text(x) == Noted(N("Literal", "", <<>>), <<"String", x>>)
Number(n) == Noted(N("Literal", "", <<>>), <<"Integer", n>>)
Truth(b) == Noted(N("Literal", "", <<>>), <<"Bool", b>>)
File(items) == N("File", "", items)
Struct(name) == N("Struct", name, <<N("Field", "f", <<N("Type", "i32", <<>>)>>)>>)
Function(name, statements) == N("Function", name, <<N("Block", "", statements)>>)
Statement(e) == N("ExpressionStatement", "", <<e>>)
Impl(trait, target) == Noted(N("Impl", trait, <<>>), <<"target", target>>)
With(node, attachments) == [node EXCEPT !.attached = attachments]
Attr(path) == [form |-> "Attribute", path |-> path, arguments |-> <<>>]
Derive(path) == [form |-> "Derive", path |-> path, arguments |-> <<>>]

\* Bodies of declarations
Block(statements) == N("Block", "", statements)
Return(e) == N("Return", "", <<e>>)
Quote(nodes) == N("Quote", "", nodes)
Hole(x) == N("Hole", x, <<>>)
Let(x, type, e) == Noted(N("Let", x, <<e>>), type)
Set(x, e) == N("Assignment", x, <<e>>)
Binary(op, a, b) == N("Binary", op, <<a, b>>)
Call(e, method, arguments) == N("Call", "", <<N("Member", method, <<e>>)>> \o arguments)
Intrinsic(path, arguments) == N("Call", "", <<N("Path", path, <<>>)>> \o arguments)
Parameter(x, type) == [name |-> x, type |-> type, variadic |-> FALSE]
Rest(x, type) == [name |-> x, type |-> <<"Sequence", type>>, variadic |-> TRUE]

Declare(kind, namespace, name, public, parameters, return, body) ==
    Noted(N(kind, name, <<>>),
          <<"declaration", [namespace |-> namespace, public |-> public, parameters |-> parameters,
                            return |-> return, body |-> Block(body), trait |-> name]>>)
Macro(name, parameters, return, body) ==
    Declare("MacroDeclaration", "Macro", name, TRUE, parameters, return, body)
Attribute(name, parameters, return, body) ==
    Declare("AttributeDeclaration", "Attribute", name, TRUE, parameters, return, body)
Deriving(name, parameters, body) ==
    Declare("DeriveDeclaration", "Derive", name, TRUE, parameters, Ast("Implementation"), body)
Private(node) == Noted(node, <<"declaration", [node.annotation[2] EXCEPT !.public = FALSE]>>)
Use(name, namespace, public, path) ==
    Noted(N("Use", name, <<>>), <<"use", [namespace |-> namespace, public |-> public, path |-> path]>>)

E == Ast("Expression")
Items == Ast("ItemList")
Structure == Ast("StructDefinition")

\* two(e): a call of the expression with itself, built with every control form.
Two == Macro("two", <<Parameter("e", E)>>, E,
    <<Let("n", <<>>, Number(0)),
      N("While", "", <<Truth(TRUE),
          Block(<<Set("n", Binary("+", Name("n"), Number(1))),
                  N("If", "", <<Binary("<", Name("n"), Number(2)), Block(<<N("Continue", "", <<>>)>>),
                                Block(<<N("Break", "", <<>>)>>)>>)>>)>>),
      N("Match", "", <<Name("e"),
          N("MatchArm", "", <<N("VariantPattern", "Call", <<N("BindingPattern", "c", <<>>)>>),
                              Truth(FALSE), Block(<<N("Pass", "", <<>>)>>)>>),
          N("MatchArm", "", <<N("AlternativePattern", "", <<N("VariantPattern", "Literal", <<>>),
                                                            N("BindingPattern", "x", <<>>)>>),
                              Block(<<Return(Quote(<<N("Call", "", <<Name("f"), Name("f")>>)>>))>>)>>)>>)>>)

\* pass(e): the expression itself.
PassOn == Macro("pass", <<Parameter("e", E)>>, E, <<Return(Name("e"))>>)
\* flip(e): flip of the identifier when given the string, and the reverse.
Self == Macro("self_call", <<Parameter("e", E)>>, E,
    <<Return(Quote(<<Invoke(<<"pass">>, <<Invoke(<<"self_call">>, <<Name("x")>>)>>)>>))>>)
\* structs(e...): one struct for each argument and one invocation of itself
\* with one argument less, down to none.
Structs == Macro("structs", <<Rest("es", E)>>, Items,
    <<Let("all", Items, Quote(<<>>)),
      N("For", "e", <<Name("es"),
          Block(<<Let("one", Items, Quote(<<Struct("G")>>)), Set("all", Binary("++", Name("all"), Name("one")))>>)>>),
      N("If", "", <<Binary("<", Number(1), Call(Name("es"), "length", <<>>)),
          Block(<<Let("more", Items, Quote(<<Invoke(<<"structs">>, <<Name("x")>>)>>)),
                  Set("all", Binary("++", Name("all"), Name("more")))>>)>>),
      Return(Name("all"))>>)
\* says(s): a statement, for a string.
Says == Macro("says", <<Parameter("s", <<"String">>)>>, Ast("StatementList"),
    <<Let("l", E, Intrinsic("literal", <<Name("s")>>)),
      Return(Quote(<<Statement(Name("g"))>>))>>)
\* Wrong in some way.
Spins == Macro("spins", <<>>, E, <<N("While", "", <<Truth(TRUE), Block(<<>>)>>), Return(Quote(<<Name("x")>>))>>)
Declares == Macro("declares", <<>>, Items, <<Return(Quote(<<Private(Macro("new", <<>>, E, <<>>))>>))>>)
BadSignature == Macro("bad", <<>>, <<"Integer">>, <<Return(Number(1))>>)
\* keep: the struct twice; twin: the struct and a function; grow: a struct with
\* a method that has the same attribute.
Renamed(target) == Call(Name(target), "with_name", <<Intrinsic("identifier", <<Text("B")>>)>>)
Keep == Attribute("keep", <<Parameter("t", Structure)>>, Structure, <<Return(Renamed("t"))>>)
Twin == Attribute("twin", <<Parameter("t", Structure)>>, Items,
    <<Return(Quote(<<Hole("t"), Hole("t"), With(Function("h", <<>>), <<Attr(<<"grow">>)>>)>>))>>)
Replace == Attribute("replace", <<Parameter("t", Structure)>>, Items,
    <<Return(Quote(<<Invoke(<<"structs">>, <<>>)>>))>>)
Grow == Attribute("grow", <<Parameter("t", Ast("FunctionDefinition"))>>, Items,
    <<Return(Quote(<<Hole("t"), N("Impl", "", <<With(Function("m", <<>>), <<Attr(<<"grow">>)>>)>>)>>))>>)
Shown == Deriving("Shown", <<Parameter("t", Structure)>>,
    <<Let("fields", <<>>, Call(Name("t"), "fields", <<>>)),
      N("If", "", <<Binary("==", Call(Name("fields"), "length", <<>>), Number(1)),
          Block(<<Return(Quote(<<Impl("Shown", "B")>>))>>),
          Block(<<Return(Quote(<<Impl("Shown", "A")>>))>>)>>)>>)

\* wraps: an expression that is a list of items once it is expanded.
Wraps == Macro("wraps", <<>>, E,
    <<Return(Quote(<<Invoke(<<"structs">>, <<Name("x"), Name("y")>>)>>))>>)
\* views(e): the parts of an expression, through each of the views.
Views == Macro("views", <<Parameter("e", E)>>, E,
    <<N("Match", "", <<Name("e"),
        N("MatchArm", "", <<N("VariantPattern", "Call", <<N("BindingPattern", "c", <<>>)>>),
            Block(<<N("If", "", <<Binary("!=", Call(Call(Name("c"), "arguments", <<>>), "length", <<>>), Number(0)),
                                  Block(<<Return(Call(Name("c"), "callee", <<>>))>>)>>)>>)>>),
        N("MatchArm", "", <<N("VariantPattern", "Member", <<N("BindingPattern", "m", <<>>)>>),
            Block(<<Let("l", E, Intrinsic("literal", <<Call(Name("m"), "name", <<>>)>>)),
                    Return(Call(Name("m"), "receiver", <<>>))>>)>>),
        N("MatchArm", "", <<N("VariantPattern", "Tuple", <<N("BindingPattern", "t", <<>>)>>),
            Block(<<N("For", "x", <<Binary("++", Name("t"), Name("t")),
                Block(<<N("If", "", <<N("Unary", "!", <<Binary("==", N("Unary", "-", <<Number(1)>>), Number(1))>>),
                                      Block(<<Return(Name("x"))>>)>>)>>)>>)>>)>>),
        N("MatchArm", "", <<N("BindingPattern", "_", <<>>),
            Block(<<Let("text", <<"String">>, N("Formatted", "text", <<Name("e")>>)),
                    Return(Intrinsic("literal", <<Name("text")>>))>>)>>)>>)>>)
\* rebuilt: the struct with a member list that is put together by push.
Rebuilt == Attribute("rebuilt", <<Parameter("t", Structure)>>, Structure,
    <<Let("items", Items, Call(Intrinsic("ItemList", <<>>), "push", <<Name("t")>>)),
      Let("list", Ast("MemberList"), Call(Name("t"), "members", <<>>)),
      Return(Call(Name("t"), "with_members", <<Name("list")>>))>>)
\* Refused: an attribute without a target and a derive that returns a struct.
BadAttribute == Attribute("bad", <<>>, Structure, <<Return(Name("t"))>>)
BadDerive == Declare("DeriveDeclaration", "Derive", "Bad", TRUE, <<Parameter("t", Structure)>>, Structure,
                     <<N("DeferStatement", "", <<>>)>>)

Everything == <<Two, PassOn, Self, Structs, Says, Spins, Declares, Keep, Twin, Replace, Grow, Shown>>

App(items) == [package |-> "app", path |-> <<>>, tree |-> File(items)]
Lib(items) == [package |-> "lib", path |-> <<>>, tree |-> File(items)]
Graph(units) == [units |-> units, dependencies |-> {<<"app", "dep", "lib">>}]
Body(e) == Function("main", <<Statement(e)>>)

Sources ==
    <<<<Body(Invoke(<<"pass">>, <<Invoke(<<"two">>, <<Name("y")>>)>>))>>,
     <<Body(Invoke(<<"self_call">>, <<Name("x")>>)), Body(Invoke(<<"pass">>, <<Name("x")>>))>>,
     <<Invoke(<<"structs">>, <<Name("a"), Name("b")>>), Invoke(<<"structs">>, <<>>)>>,
     <<Function("f", <<Statement(Invoke(<<"says">>, <<Text("t")>>)), Statement(Invoke(<<"vec">>, <<>>))>>)>>,
     <<Invoke(<<"declares">>, <<>>), Invoke(<<"declares">>, <<>>), Invoke(<<"pass">>, <<Name("x")>>)>>,
     <<Wraps, Body(Invoke(<<"wraps">>, <<>>))>>,
     <<Views, Body(Invoke(<<"views">>, <<N("Call", "", <<Name("f"), Name("x")>>)>>)),
       Body(Invoke(<<"views">>, <<N("Member", "m", <<Name("x")>>)>>)),
       Body(Invoke(<<"views">>, <<N("Tuple", "", <<Name("x"), Name("y")>>)>>)), Body(Invoke(<<"views">>, <<Name("x")>>))>>,
     <<BadAttribute, BadDerive, Rebuilt,
       With(Struct("A"), <<Attr(<<"bad">>), Derive(<<"Bad">>), Attr(<<"rebuilt">>)>>)>>,
     [i \in 1..6 |-> Body(Invoke(<<"pass">>, <<Name("x")>>))],
     <<BadSignature, Body(Invoke(<<"bad">>, <<>>)), Body(Invoke(<<"spins">>, <<>>)), Body(Invoke(<<"nothing">>, <<>>))>>,
     <<Body(Invoke(<<"says">>, <<Name("x")>>)), Body(Invoke(<<"pass">>, <<Text("x"), Text("x")>>)),
       Body(Invoke(<<"pass">>, <<Invoke(<<"pass">>, <<Text("x")>>)>>))>>,
     <<With(Struct("A"), <<Attr(<<"keep">>), Attr(<<"nothing">>), Derive(<<"Shown">>), Derive(<<"Clone">>)>>)>>,
     <<With(Struct("A"), <<Attr(<<"twin">>), Attr(<<"keep">>), Derive(<<"Shown">>)>>)>>,
     <<With(Struct("A"), <<Attr(<<"replace">>), Derive(<<"Shown">>)>>)>>,
     <<With(Function("a", <<>>), <<Attr(<<"grow">>), Attr(<<"keep">>), Derive(<<"Shown">>)>>)>>,
     <<N("Module", "inner", <<With(N("Enum", "E", <<>>), <<Derive(<<"super", "Shown">>), Attr(<<"self", "keep">>)>>)>>)>>>>

\* Two packages whose imports pass declarations on, in cycles and in private.
Imports ==
    <<<<Use("a", "Macro", FALSE, <<"dep", "via">>), Use("b", "Macro", TRUE, <<"a">>)>>,
      <<Use("a", "Macro", FALSE, <<"dep", "quiet">>), Use("b", "Macro", FALSE, <<"dep", "two">>)>>,
      <<Use("a", "Macro", FALSE, <<"b">>), Use("b", "Macro", FALSE, <<"c">>), Use("c", "Macro", FALSE, <<"a">>)>>,
      <<Use("c", "Macro", FALSE, <<"b">>), Use("b", "Macro", FALSE, <<"a">>), Use("a", "Macro", FALSE, <<"dep", "leak">>)>>,
      <<Use("a", "Macro", TRUE, <<"dep", "via">>), Use("a", "Macro", TRUE, <<"dep", "quiet">>),
        Use("d", "Macro", FALSE, <<"super", "a">>), Use("e", "Macro", FALSE, <<"dep">>)>>>>

Importing(items, hidden) ==
    Graph(<<Lib(<<Private(Two), PassOn, Use("via", "Macro", TRUE, <<"root", "pass">>),
                  Use("leak", "Macro", TRUE, <<"self", "two">>), Use("quiet", "Macro", hidden, <<"pass">>)>>),
            App(items \o <<Body(Invoke(<<"a">>, <<Name("x")>>)), Body(Invoke(<<"dep", "two">>, <<Name("x")>>))>>)>>)

MCGraphs ==
    [i \in DOMAIN Sources |-> Graph(<<App(Everything \o Sources[i])>>)]
    \o [i \in DOMAIN Imports |-> Importing(Imports[i], FALSE)]
    \o [i \in DOMAIN Imports |-> Importing(Imports[i], TRUE)]
=============================================================================
