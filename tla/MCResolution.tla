---------------------------- MODULE MCResolution ----------------------------
(***************************************************************************)
(* Families of small package graphs, each varying what one part of name    *)
(* resolution decides: imports that meet and circle, re-exports through    *)
(* three packages, scopes in bodies, names in declarations, members of     *)
(* blocks and tests.                                                       *)
(***************************************************************************)
EXTENDS NameMeaning

Node(kind, name, binds, path, kids) ==
    [kind |-> kind, name |-> name, binds |-> binds, path |-> path, home |-> <<>>, kids |-> kids]
Pass == Node("Pass", "", <<>>, <<>>, <<>>)
N(name) == Node("Name", name, <<>>, <<>>, <<>>)
Dot(e, name) == Node("Member", name, <<>>, <<>>, <<e>>)
Ty(path) == Node("Type", "", <<>>, path, <<>>)
TyOf(path, kids) == Node("Type", "", <<>>, path, kids)
Group(kind, kids) == Node(kind, "", <<>>, <<>>, kids)
Block(kids) == Group("Block", kids)
Do(e) == Group("Do", <<e>>)
Let(names, e) == Node("Let", "", names, <<>>, <<e>>)
For(name, e, block) == Node("For", "", <<name>>, <<>>, <<e, block>>)
Bind(name) == Node("Bind", name, <<>>, <<>>, <<>>)
Variant(path, kids) == Node("Variant", "", <<>>, path, kids)
PathPattern(path) == Node("PathPattern", "", <<>>, path, <<>>)
Arm(pattern, kids) == Group("Arm", <<pattern>> \o kids)
Parameter(name, type) == Node("Parameter", name, <<>>, <<>>, <<type>>)
CaptureAs(name, alias) == Node("Capture", name, <<alias>>, <<>>, <<>>)
Closure(kids) == Group("Closure", kids)
At2(node, home) == [node EXCEPT !.home = home]

Item(kind, name) ==
    [kind |-> kind, name |-> name, path |-> <<>>, public |-> FALSE, items |-> <<>>, generics |-> <<>>,
     exported |-> "", syntax |-> Pass, members |-> <<>>, trait |-> FALSE]
Pub(item) == [item EXCEPT !.public = TRUE]
Shown(public, item) == [item EXCEPT !.public = public]
Use(path, name) == [Item("Use", name) EXCEPT !.path = path]
Module(name, items) == [Item("Module", name) EXCEPT !.items = items]
Struct(name) == Item("Struct", name)
Field(name, type) == [name |-> name, public |-> TRUE, kind |-> "Field", syntax |-> Group("Field", <<type>>)]
Hidden1(member) == [member EXCEPT !.public = FALSE]
VariantOf(name, kids) == [name |-> name, public |-> FALSE, kind |-> "Variant", syntax |-> Group("EnumVariant", kids)]
Having(item, generics, members) == [item EXCEPT !.generics = generics, !.members = members]
Fn(name, kids) == [Item("Function", name) EXCEPT !.syntax = Group("Function", kids)]
Nothing == Item("Pass", "")

File(package, path, items) == [package |-> package, path |-> path, items |-> items]
Program(packages, dependencies, units) ==
    [packages |-> packages, dependencies |-> dependencies, units |-> units,
     builtins |-> <<[name |-> "i32", module |-> ""], [name |-> "open", module |-> "fs"]>>,
     standard |-> <<"fs">>, tested |-> "none"]
App(units) == Program(<<"app">>, {}, units)

-----------------------------------------------------------------------------
(* Imports of one package through each other *)

RootUses == {Nothing} \cup {Shown(public, Use(path, "c")) : public \in BOOLEAN,
    path \in {<<"self", "a">>, <<"a", "x">>, <<"root", "b", "c">>, <<"a", "c">>, <<"S">>, <<"c">>, <<"std", "fs", "open">>}}
FileUses == {Nothing} \cup {Use(path, "c") :
    path \in {<<"super", "c">>, <<"super", "S">>, <<"root", "b", "c">>, <<"x", "c">>, <<"i32">>, <<"c", "x">>}}
InlineUses == {Use(path, "c") : path \in {<<"super", "c">>, <<"root", "c">>, <<"root", "S">>, <<"self", "c", "x">>}}
OtherUses == {Nothing} \cup {Use(path, name) :
    path \in {<<"super", "c">>, <<"root", "a", "c">>, <<"super", "a", "x", "c">>}, name \in {"c", "d"}}

ImportPrograms ==
    {App(<<File("app", <<>>, <<u, Pub(Struct("S"))>>),
           File("app", <<"a">>, <<v, Pub(Module("x", <<w>>))>>),
           File("app", <<"b">>, <<o>>)>>) : u \in RootUses, v \in FileUses, w \in InlineUses, o \in OtherUses}

\* A public use of a file-backed module, or of something else under its name.
ShowingPrograms ==
    {App(<<File("app", <<>>, <<u, v, Pub(Struct("S"))>>), File("app", <<"a", "y">>, <<Struct("Y")>>),
           File("app", <<"b">>, <<Use(<<"super", "a">>, "q")>>)>>) :
        u \in {Shown(public, Use(path, name)) : public \in BOOLEAN, name \in {"a", "b", "c"},
                   path \in {<<"self", "a">>, <<"self", "b">>, <<"S">>, <<"a", "y">>}},
        v \in {Nothing, Use(<<"self", "b", "q">>, "d"), Pub(Use(<<"a", "y", "Y">>, "d"))}}

\* Left out of MCPrograms, for the order of the imports decides: a public use of a file
\* module under its own name that reaches it through another import is accepted before
\* that import and a cycle after it (imports.rs:266; spec.md:181 says that import order
\* has no effect).  ImportsDenote is violated.
DisplacedOrderPrograms ==
    LET show == Pub(Use(<<"self", "y">>, "a"))
        name == Use(<<"self", "a">>, "y")
    IN  {App(<<File("app", <<>>, uses), File("app", <<"a">>, <<Struct("Y")>>)>>) :
            uses \in {<<show, name>>, <<name, show>>}}

-----------------------------------------------------------------------------
(* Three packages, each using the one below *)

Three(base, lib, app) ==
    Program(<<"base", "lib", "app">>, {<<"app", "l", "lib">>, <<"lib", "b", "base">>},
            <<File("base", <<>>, base), File("lib", <<>>, lib), File("lib", <<"h">>, <<Pub(Struct("H"))>>),
              File("app", <<>>, app)>>)

\* What the application names, and what of it the lower packages show.
PackagePrograms ==
    {Three(<<Shown(p, Struct("P")), Shown(m, Module("m", <<Shown(q, Struct("Q"))>>))>>,
           <<Pub(Use(<<"b", "P">>, "P")), Shown(v, Use(<<"b", "m">>, "m")), u>>,
           <<Use(<<"l", "P">>, "P"), w, Pub(Fn("run", <<Parameter("x", Ty(<<"w">>))>>))>>) :
        p \in BOOLEAN, m \in BOOLEAN, q \in BOOLEAN, v \in BOOLEAN,
        u \in {Nothing, Pub(Use(<<"self", "h">>, "h")), Pub(Use(<<"self", "h", "H">>, "H")), Pub(Use(<<"m", "Q">>, "Q"))},
        w \in {Shown(public, Use(path, "w")) : public \in BOOLEAN,
                  path \in {<<"l", "m", "Q">>, <<"l", "h", "H">>, <<"l", "H">>, <<"l", "Q">>, <<"l", "b", "P">>}}}

\* What public signatures mention, behind aliases, private modules and fields.  The
\* module is shown by a use only when it is public: see HiddenModulePrograms.
SignaturePrograms ==
    {Three(<<>>, <<>>,
           <<Shown(s, Struct("S")), Shown(m, Module("m", <<Shown(t, Struct("T")), Pub(e)>>)),
             IF i.path = <<"m">> THEN Shown(m, i) ELSE i, d,
             Pub(Fn("id", <<Parameter("x", TyOf(<<"S">>, <<Ty(<<"m", "T">>)>>)), Block(<<Do(N("m"))>>)>>))>>) :
        s \in BOOLEAN, m \in BOOLEAN, t \in BOOLEAN,
        e \in {Struct("E"), Having(Item("Enum", "E"), <<>>, <<VariantOf("V", <<Ty(<<"T">>)>>)>>)},
        i \in {Nothing, Pub(Use(<<"m", "T">>, "T")), Use(<<"m", "T">>, "T"), Use(<<"m">>, "n")},
        d \in {Nothing,
               Pub(Having(Struct("D"), <<"T">>, <<Field("x", Ty(<<"T">>)), Hidden1(Field("y", Ty(<<"S">>)))>>)),
               Pub(Having(Item("Trait", "D"), <<"S">>,
                          <<Fn("get", <<Parameter("x", Ty(<<"Self">>)), Ty(<<"S">>), Block(<<>>)>>)>>))}}

\* Left out of MCPrograms: a public use of an inline module that is package-private gets
\* no report (imports.rs:285), although only public declarations and file-backed modules
\* may be re-exported (spec.md:184-194).  ImportsDenote is violated.
HiddenModulePrograms ==
    {App(<<File("app", <<>>, <<Shown(m, Module("m", <<Pub(Struct("T"))>>)), Pub(Use(<<"m">>, "n"))>>)>>) :
        m \in BOOLEAN}

-----------------------------------------------------------------------------
(* Scopes of bodies *)

Statements == <<Let(<<"y">>, N("x")), Let(<<"x">>, N("y")), Let(<<"y", "z">>, N("y")),
            For("y", N("y"), Block(<<Do(N("y")), Let(<<"z">>, N("y"))>>)),
            Group("While", <<N("y"), Block(<<Let(<<"y">>, N("y"))>>)>>),
            Group("If", <<N("z"), Block(<<Let(<<"z">>, N("x")), Do(N("z"))>>), Block(<<Do(N("z"))>>)>>),
            Group("Match", <<N("y"), Arm(Variant(<<"E", "V">>, <<Bind("y"), Bind("y")>>), <<N("y"), Block(<<Do(N("z"))>>)>>),
                                     Arm(Bind("z"), <<Block(<<Let(<<"z">>, N("z"))>>)>>),
                                     Arm(PathPattern(<<"m", "E", "V">>), <<Block(<<Do(N("y"))>>)>>)>>),
            Do(Closure(<<CaptureAs("y", "x"), Parameter("z", Ty(<<"T">>)), Block(<<Do(N("x")), Do(N("y")), Let(<<"x">>, N("z"))>>)>>)),
            Do(Closure(<<CaptureAs("x", "x"), Ty(<<"x">>),
                         Block(<<Do(Closure(<<CaptureAs("x", "y"), Parameter("x", Ty(<<"S">>)), Block(<<Do(N("y")), Do(N("x"))>>)>>))>>)>>)),
            Group("Defer", <<Block(<<Do(N("y")), Let(<<"y">>, N("x"))>>)>>),
            Do(Group("Parenthesized", <<Dot(N("m"), "E")>>)),
            Do(Dot(Dot(Dot(N("root"), "m"), "g"), "y")),
            Do(Node("Shorthand", "z", <<>>, <<>>, <<>>))>>

\* Three statements of a function with a parameter x and a type parameter T.
BodyPrograms ==
    {App(<<File("app", <<>>,
                <<Having(Item("Enum", "E"), <<>>, <<VariantOf("V", <<Ty(<<"i32">>)>>)>>), Struct("S"),
                  Module("m", <<Item("Enum", "E"), Fn("g", <<Block(<<>>)>>)>>),
                  [Fn("f", <<Parameter("x", Ty(<<"T">>)), Block(<<Statements[i], Statements[j], Statements[k]>>)>>) EXCEPT !.generics = <<"T">>]>>)>>) :
        i \in DOMAIN Statements, j \in DOMAIN Statements, k \in DOMAIN Statements}

-----------------------------------------------------------------------------
(* Blocks of implementations, traits, tests and the standard library *)

Implementing(trait, generics, types, members) ==
    [Item("Impl", "") EXCEPT !.trait = trait, !.generics = generics, !.members = members,
                             !.syntax = Group("Impl", types)]
Takes(types, body) == Fn("get", [i \in DOMAIN types |-> Parameter("x" \o ToString(i), types[i])] \o <<Block(body)>>)
Mentioned == {<<"U">>, <<"V">>, <<"Self">>, <<"S">>, <<"Option">>, <<"std", "Option">>, <<"std", "fs", "File">>, <<"File">>, <<"m", "U">>}

MemberPrograms ==
    {[App(<<File("", <<>>, <<Pub(Having(Item("Enum", "Option"), <<"T">>, <<VariantOf("Some", <<Ty(<<"T">>)>>)>>)), Struct("Inner")>>),
            File("", <<"fs">>, <<Pub(Struct("File")), Use(<<"std", "Option">>, "O"), Having(Struct("H"), <<>>, <<Field("x", Ty(<<"super", "Inner">>))>>)>>),
            File("app", <<>>,
                <<Struct("S"), Module("m", <<Pub(Struct("U"))>>), Item("Test", "check"), i,
                  [Item("Test", "runs") EXCEPT !.syntax = Group("Test", <<Block(<<Do(N("S")), Do(Ty(t))>>)>>)]>>)>>)
       EXCEPT !.tested = q] :
        q \in {"none", "app"}, t \in {<<"S">>, <<"std", "fs", "File">>, <<"Self">>},
        i \in {Implementing(trait, g, <<Ty(<<"S">>), Ty(t)>>, <<Takes(<<Ty(t), Ty(u)>>, <<Do(N("x1")), Do(N("self"))>>)>>) :
                   trait \in BOOLEAN, g \in {<<>>, <<"U">>}, u \in {<<"V">>, <<"Self">>, <<"std", "Inner">>}, t \in Mentioned} \cup
              {Having(Item("Trait", "G"), g, <<[Takes(<<Ty(t), Ty(<<"Self">>)>>, <<Do(N("U"))>>) EXCEPT !.generics = h]>>) :
                   g \in {<<>>, <<"U">>, <<"U", "V">>}, h \in {<<>>, <<"U">>}, t \in Mentioned} \cup
              {Having(Item(kind, "G"), <<"U">>, <<Field("x", Ty(t)), Hidden1(Field("y", TyOf(t, <<Ty(<<"Self">>)>>)))>>) :
                   kind \in {"Struct", "ForeignStruct"}, t \in Mentioned} \cup
              {[Item("TypeAlias", "G") EXCEPT !.syntax = Group("TypeAlias", <<TyOf(t, <<N("S"), Ty(<<"U">>)>>), Node("Derive", "", <<>>, <<"S">>, <<>>)>>)] :
                   t \in Mentioned}}

\* Names given twice, members in the wrong place, symbols exported twice, and a package
\* with nothing in it.
Exporting(name, symbol) == [Fn(name, <<Block(<<>>)>>) EXCEPT !.exported = symbol]
ClashingPrograms ==
    {App(<<File("app", <<>>, <<u, v>>), File("app", <<"a">>, <<w>>)>>) :
        u \in {Nothing, Struct("a"), Implementing(FALSE, <<>>, <<Ty(<<"b">>)>>, <<>>), Use(<<"self", "b">>, "b"), Exporting("f", "c_f")},
        v \in {Nothing, Module("a", <<Struct("b")>>), Module("b", <<Struct("b")>>), Struct("b"), Exporting("g", "c_f"),
               Having(Struct("b"), <<"T", "T">>, <<Field("x", Ty(<<"T">>)), Field("x", Ty(<<"T">>)), Takes(<<>>, <<>>)>>),
               Having(Item("Trait", "b"), <<>>, <<Pub(Takes(<<>>, <<>>))>>),
               Implementing(TRUE, <<"T", "T">>, <<Ty(<<"a">>)>>, <<Pub(Takes(<<>>, <<>>)), Takes(<<>>, <<>>)>>)},
        w \in {Nothing, Use(<<"super", "b">>, "b")}}

\* Expanded syntax of the application that a quotation of the library wrote.
Library == Root("lib")
ExpandedPrograms ==
    {Program(<<"lib", "app">>, {<<"app", "l", "lib">>},
             <<File("lib", <<>>, <<Shown(p, Struct("P")), Shown(q, Module("m", <<Shown(p, Fn("g", <<Block(<<>>)>>))>>))>>),
               File("app", <<>>, <<Struct("P"),
                   Fn("f", <<Parameter("x", t), Block(<<Let(<<"P">>, N("x")), Do(e)>>)>>)>>)>>) :
        p \in BOOLEAN, q \in BOOLEAN,
        t \in {Ty(<<"P">>), At2(Ty(<<"P">>), Library), At2(Ty(<<"m", "P">>), Library), Ty(<<"l", "P">>)},
        e \in {N("P"), At2(N("P"), Library), At2(N("m"), Library), At2(Dot(At2(N("m"), Library), "g"), Library),
               Dot(At2(N("m"), Library), "g"), Dot(Dot(N("l"), "m"), "g"), At2(Ty(<<"P">>), Library)}}

MCPrograms == <<ImportPrograms, ShowingPrograms, PackagePrograms, SignaturePrograms, BodyPrograms,
                MemberPrograms, ClashingPrograms, ExpandedPrograms>>
=============================================================================
