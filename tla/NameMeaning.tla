---------------------------- MODULE NameMeaning ----------------------------
(***************************************************************************)
(* What a name stands for according to the manual (docs/spec.md 2.3): read *)
(* off the text of a program, imports as the least solution of what their  *)
(* paths say, locals by the regions their bindings cover.  Resolution is   *)
(* compared with it.  An item is a <<"module", m>>, a <<"builtin", name>>  *)
(* or a <<"declaration", module, name>>.                                   *)
(***************************************************************************)
EXTENDS Resolution

RECURSIVE InlineContainers(_, _)
InlineContainers(module, items) ==
    {[module |-> module, items |-> items]} \cup
    UNION {InlineContainers(Child(module, items[i].name), items[i].items) :
               i \in {j \in DOMAIN items : items[j].kind = "Module"}}
Containers == UNION {InlineContainers(UnitModule(u), u.items) : u \in ToSet(program.units)}

FileModuleNames == UNION {{<<u.package, SubSeq(u.path, 1, n)>> : n \in 1..Len(u.path)} : u \in ToSet(program.units)}

\* Every name of every module: [module, name, public, path, item], with a path when it
\* is imported.  A public use of a file-backed module under its own name shows it.
Entry(module, name, public, path, item) ==
    [module |-> module, name |-> name, public |-> public, path |-> path, item |-> item]
WrittenIn(c) ==
    {CASE item.kind = "Module" -> Entry(c.module, item.name, item.public, <<>>, <<"module", Child(c.module, item.name)>>)
       [] item.kind = "Use" -> Entry(c.module, item.name, item.public, item.path, NoItem)
       [] OTHER -> Entry(c.module, item.name, item.public, <<>>, <<"declaration", c.module, item.name>>)
     : item \in {i \in ToSet(c.items) : i.kind \notin {"Impl", "Pass"}}}
Written == UNION {WrittenIn(c) : c \in Containers}
Shows(e) == e.path # <<>> /\ e.public /\ Child(e.module, e.name) \in FileModuleNames
Given ==
    {Entry(Standard, name, TRUE, <<>>, <<"module", Child(Standard, name)>>) : name \in ToSet(program.standard)} \cup
    {Entry(Child(Standard, b.module), b.name, TRUE, <<>>, <<"builtin", b.name>>) :
        b \in {x \in ToSet(program.builtins) : x.module # ""}}
Entries ==
    LET written == Written
        shown == {Child(e.module, e.name) : e \in {f \in written : Shows(f)}}
    IN  {e \in written : ~Shows(e)} \cup Given \cup
        {Entry(<<m[1], Front(m[2])>>, Last(m[2]), m \in shown, <<>>, <<"module", m>>) :
            m \in {n \in FileModuleNames : n[1] # ""}}

NamedTwice == LET entries == Entries IN \E e, f \in entries : e # f /\ e.module = f.module /\ e.name = f.name

-----------------------------------------------------------------------------
(* Paths, when the meanings of all entries are known *)

PreludeItem(name, known) ==
    IF \E b \in ToSet(program.builtins) : b.name = name /\ b.module = "" THEN <<"builtin", name>>
    ELSE IF \E e \in DOMAIN known : e.module = Standard /\ e.name = name /\ e.item[1] = "declaration"
    THEN <<"declaration", Standard, name>>
    ELSE IF name = "std" THEN <<"module", Standard>> ELSE NoItem

Outside(from, module) == Package(module) # Package(from) \/ Package(module) = ""

NamedIn(module, name, known) == {e \in DOMAIN known : e.module = module /\ e.name = name}
LookedUp(module, name, outside, known) ==
    LET visible == {e \in NamedIn(module, name, known) : outside => e.public} IN
    IF visible = {} THEN NoItem ELSE known[CHOOSE e \in visible : TRUE]

Begun(module, name, known) ==
    CASE name = "root" -> <<"module", Root(Package(module))>>
      [] name = "self" -> <<"module", module>>
      [] name = "super" -> IF module[2] = <<>> THEN NoItem ELSE <<"module", <<module[1], Front(module[2])>>>>
      [] \E d \in program.dependencies : d[1] = Package(module) /\ d[2] = name ->
            <<"module", Root((CHOOSE d \in program.dependencies : d[1] = Package(module) /\ d[2] = name)[3])>>
      [] NamedIn(module, name, known) # {} -> LookedUp(module, name, FALSE, known)
      [] OTHER -> PreludeItem(name, known)

Followed(from, path, known) ==
    FoldLeft(LAMBDA item, name : IF item[1] # "module" THEN NoItem
                                 ELSE LookedUp(item[2], name, Outside(from, item[2]), known),
             Begun(from, path[1], known), Tail(path))

RECURSIVE LeastSolution(_)
LeastSolution(known) ==
    LET better == [e \in DOMAIN known |-> IF e.path = <<>> THEN e.item ELSE Followed(e.module, e.path, known)]
    IN  IF better = known THEN known ELSE LeastSolution(better)

\* What every entry stands for; NoItem for an import whose path leads nowhere or in a circle.
Meaning == LeastSolution([e \in Entries |-> e.item])

\* A public use of a file-backed module's name for something else.
Displaces(e, known) == Shows(e) /\ Followed(e.module, e.path, known) # <<"module", Child(e.module, e.name)>>

-----------------------------------------------------------------------------
(* Names in declarations and bodies *)

RECURSIVE NodeAt(_, _)
NodeAt(node, path) == IF path = <<>> THEN node ELSE NodeAt(node.kids[path[1]], Tail(path))
RECURSIVE Addresses(_, _)
Addresses(node, at) == {at} \cup UNION {Addresses(node.kids[i], Append(at, i)) : i \in DOMAIN node.kids}

\* The part of a declaration an address lies in, and its node.
PartOf(d, j) == IF j = 0 THEN resolver.declarations[d].node.syntax
                ELSE resolver.declarations[d].node.members[j].syntax
At(a) == NodeAt(PartOf(a[1], a[2]), SubSeq(a, 3, Len(a)))
Around(a) == {SubSeq(a, 1, n) : n \in 2..(Len(a)-1)}
Longest(addresses) == CHOOSE a \in addresses : \A b \in addresses : Len(b) <= Len(a)

\* The node a binding belongs to, and whether it covers an address: a let the statements
\* after it, a for its body, a parameter or capture the body of its function, a pattern the
\* rest of its arm.
Owner(b) == CASE At(b).kind = "For" -> b
              [] At(b).kind = "Bind" -> Longest({a \in Around(b) : At(a).kind = "Arm"})
              [] OTHER -> Front(b)
Covers(b, a) ==
    LET owner == Owner(b)
        branch == a[Len(owner) + 1]
    IN  /\ IsStrictPrefix(owner, a)
        /\ CASE At(b).kind = "Let" -> branch > Last(b)
             [] At(b).kind = "For" -> branch = 2
             [] At(b).kind = "Bind" -> branch > 1
             [] OTHER -> At(owner).kids[branch].kind = "Block"

\* A closure hides the locals around it from everything but its captures; a type
\* hides all of them.
Hidden(b, a) ==
    \E c \in Around(a) :
        \/ At(c).kind = "Closure" /\ ~IsPrefix(c, b) /\ ~(At(a).kind = "Capture" /\ Front(a) = c)
        \/ At(c).kind = "Type"

NamesBound(node) == CASE node.kind \in {"Let", "For", "Capture"} -> ToSet(node.binds)
                      [] node.kind \in {"Parameter", "Bind"} -> {node.name}
                      [] OTHER -> {}
BindingsFor(a, name) ==
    {b \in Addresses(PartOf(a[1], a[2]), <<a[1], a[2]>>) :
        name \in NamesBound(At(b)) /\ Covers(b, a) /\ ~Hidden(b, a)}

GenericsOf(d) ==
    LET own == resolver.declarations[d]
        Of(owner, names) == [name \in ToSet(names) |-> <<"generic", owner>>]
    IN  Of(<<1, d>>, own.generics) @@
        (IF own.parent = 0 THEN <<>> ELSE Of(<<1, own.parent>>, resolver.declarations[own.parent].generics)) @@
        (IF own.impl = 0 THEN <<>> ELSE Of(<<2, own.impl>>, resolver.impls[own.impl].generics))

\* Self is a type in a struct, a trait and a block.
SelfMeans(a) ==
    LET own == resolver.declarations[a[1]] IN
    own.parent # 0 \/ own.impl # 0 \/ own.kind \in {"Struct", "Trait"} \/ (own.kind = "ForeignStruct" /\ a[2] # 0)

HomeOf(a) == IF At(a).home = <<>> THEN resolver.declarations[a[1]].module ELSE At(a).home

Unqualified(a, name, known) ==
    LET bindings == BindingsFor(a, name) IN
    CASE bindings # {} -> <<"local", Longest({Owner(b) : b \in bindings}), name>>
      [] name = "self" -> <<"module", resolver.declarations[a[1]].module>>
      [] name = "Self" -> IF SelfMeans(a) THEN <<"Self", 0>> ELSE NoItem
      [] name \in DOMAIN GenericsOf(a[1]) -> GenericsOf(a[1])[name]
      [] OTHER -> Begun(HomeOf(a), name, known)

TypePath(a, path, known) ==
    CASE Len(path) = 1 /\ path[1] \in DOMAIN GenericsOf(a[1]) -> GenericsOf(a[1])[path[1]]
      [] path = <<"Self">> -> IF SelfMeans(a) THEN <<"Self", 0>> ELSE NoItem
      [] OTHER -> Followed(HomeOf(a), path, known)

\* The longest prefix of a pattern's path that begins in modules.
PatternPath(a, path, known) ==
    LET Leads(n) == Followed(HomeOf(a), SubSeq(path, 1, n), known)
        ends == {n \in DOMAIN path : n = Len(path) \/ Leads(n)[1] # "module"}
    IN  Leads(CHOOSE n \in ends : \A m \in ends : n <= m)

RECURSIVE Expected(_, _)
Expected(a, known) ==
    LET node == At(a)
        base == Expected(Append(a, 1), known)
    IN  CASE node.kind \in {"Name", "Shorthand", "Capture"} -> Unqualified(a, node.name, known)
          [] node.kind = "Parenthesized" -> base
          [] node.kind = "Member" -> IF base[1] # "module" THEN NoItem
                                     ELSE LookedUp(base[2], node.name, Outside(HomeOf(a), base[2]), known)
          [] node.kind \in {"Type", "Derive"} /\ node.path # <<>> -> TypePath(a, node.path, known)
          [] node.kind \in {"Variant", "PathPattern"} -> IF Len(node.path) = 1 THEN TypePath(a, node.path, known)
                                                         ELSE PatternPath(a, node.path, known)
          [] OTHER -> NoItem

\* The addresses of the names in what is resolved of a declaration.
HasBody(d) == \/ resolver.declarations[d].kind = "Function"
              \/ resolver.declarations[d].kind = "Test" /\ program.tested = Package(resolver.declarations[d].module)
NamesIn(d) ==
    {a \in UNION {Addresses(PartOf(d, j), <<d, j>>) : j \in {0} \cup ToSet(OwnMembers(resolver.declarations[d]))} :
        /\ At(a).kind # "Parenthesized"
        /\ HasBody(d) \/ \A b \in Around(a) : At(b).kind # "Block"}

-----------------------------------------------------------------------------
(* Properties *)

\* The item of the resolver as an item of the manual.
Read(item) ==
    CASE item[1] = "declaration" -> <<"declaration", resolver.declarations[item[2]].module,
                                      resolver.declarations[item[2]].name>>
      [] item[1] = "local" -> <<"local", Owner(resolver.bindings[item[2]].at), resolver.bindings[item[2]].name>>
      [] OTHER -> item

\* The import written by an entry.
WrittenBy(e, import) == e.module = import.module /\ e.path = import.path /\ e.public = import.public

\* A public import of a declaration or an inline module that is package-private.  That
\* of a file-backed module shows its public contents and no more, so it hides nothing.
Hides(e, known) ==
    /\ e.public
    /\ known[e][1] = "module" => known[e][2] \notin FileModuleNames
    /\ \E f \in DOMAIN known : f.path = <<>> /\ f.item = known[e] /\ ~f.public

Failed(where) == \E report \in resolver.reports : report[2] = where
ImportFailed == \E id \in DOMAIN resolver.imports : Failed(<<0, 1, id>>)

\* Resolving the imports one after the other, each through those its path meets and
\* with a mark on those in progress, finds for every import what its path stands for,
\* whatever the order, and reports something exactly when one of them stands for nothing,
\* shows what is package-private or takes the place of a file module it does not denote
\* (imports.rs, resolve_all_imports).  The families of MCPrograms leave out two cases in
\* which the code differs: HiddenModulePrograms and DisplacedOrderPrograms.
ImportsDenote ==
    stage = "impls" /\ next = 1 /\ ~NamedTwice =>
        LET known == Meaning
            displaced == \E e \in Written : Displaces(e, known)
        IN  /\ \A id \in DOMAIN resolver.imports : \A e \in DOMAIN known :
                  WrittenBy(e, resolver.imports[id]) /\ known[e] # NoItem /\ ~displaced =>
                      Read(resolver.imports[id].target) = known[e]
            /\ ImportFailed <=> displaced \/ \E e \in DOMAIN known : e.path # <<>> /\ (known[e] = NoItem \/ Hides(e, known))

\* Walking declarations and bodies with a stack of scopes gives every name the
\* declaration, parameter or local that the manual gives it, whatever blocks, arms,
\* loops and closures lie between (bodies.rs), and reports exactly the names that stand
\* for nothing: as long as no binding is refused, which leaves the names after it open.
\* A name that a module does not have is left for the type checker when a value is
\* written before its dot.
Refused == {"bound twice", "captures no local", "captured twice"}
Judged == {"unresolved", "package-private", "not a module", "super at root", "Self"}
ReferencesExact ==
    /\ stage = "done" /\ ~NamedTwice /\ ~ImportFailed
    /\ \A report \in resolver.reports : report[1] \notin Refused
    => LET known == Meaning
           names == UNION {NamesIn(d) : d \in 1..Collected}
       IN  /\ \A a \in DOMAIN resolver.references : a[1] = 0 \/ a \in names
           /\ \A a \in names :
                 LET expected == Expected(a, known) IN
                 /\ IF a \in DOMAIN resolver.references THEN Read(resolver.references[a]) = expected
                    ELSE expected = NoItem
                 /\ (At(a).kind \in {"Name", "Shorthand", "Capture", "Type", "Derive", "Variant", "PathPattern"} /\
                     (At(a).kind \in {"Type", "Derive"} => At(a).path # <<>>)) =>
                       ((expected = NoItem) <=> \E report \in resolver.reports : report[2] = a /\ report[1] \in Judged)

\* What other packages can name: through public names from the roots on.
RECURSIVE Nameable(_, _)
Nameable(modules, known) ==
    LET shown == {known[e] : e \in {f \in DOMAIN known : f.public /\ f.module \in modules}}
        further == {i[2] : i \in {j \in shown : j[1] = "module"}}
    IN  IF further \subseteq modules THEN shown ELSE Nameable(modules \cup further, known)
NameableItems == Nameable({Standard} \cup {Root(q) : q \in ToSet(program.packages)}, Meaning)

\* The packages a name and what stands before its dots were written in.
WrittenFrom(a) == IF a[1] = 0 THEN {Package(resolver.impls[a[3]].module)}
                  ELSE {Package(HomeOf(b)) : b \in {c \in DOMAIN resolver.references : IsPrefix(a, c)}}

\* In a program without reports a package names only what another one shows, the flag
\* set on a declaration says just that, and no public signature mentions what is hidden
\* (imports.rs checks each step of a path, visibility.rs searches from the roots: the two
\* have to agree through re-exports of modules and imports of imports).
Encapsulated ==
    stage = "done" /\ resolver.reports = {} =>
        LET nameable == NameableItems IN
        /\ \A a \in DOMAIN resolver.references :
              LET target == resolver.references[a] IN
              target[1] = "declaration" /\ Package(resolver.declarations[target[2]].module) \notin WrittenFrom(a)
                  => Read(target) \in nameable
        /\ \A d \in 1..Collected : resolver.declarations[d].parent = 0 /\ resolver.declarations[d].impl = 0 =>
              (resolver.declarations[d].reachable <=> Read(<<"declaration", d>>) \in nameable)
        /\ \A d \in 1..Collected : Read(<<"declaration", d>>) \in nameable =>
              \A a \in SignatureOf(resolver, d) :
                 a \in DOMAIN resolver.references /\ resolver.references[a][1] = "declaration" =>
                     Read(resolver.references[a]) \in nameable
=============================================================================
