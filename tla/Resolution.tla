----------------------------- MODULE Resolution -----------------------------
(***************************************************************************)
(* Name resolution of an expanded package graph (src/resolution): modules  *)
(* and declarations are collected, imports resolved through each other,    *)
(* then the types and bodies of every declaration, and last what is        *)
(* reachable from outside and what public signatures mention.              *)
(*                                                                         *)
(* A module is <<package, path>>; the package of the standard library is   *)
(* "".  An item is <<"module", m>>, <<"declaration", index>> or            *)
(* <<"builtin", name>>; a name can also stand for a local or a generic     *)
(* parameter.  Paths are sequences of names, "root", "self" or "super"     *)
(* first.  Every written name has an address: the index of its             *)
(* declaration (0 for a block), what part of it, and the way down the tree.*)
(*                                                                         *)
(* Syntax is made of nodes [kind, name, binds, path, home, kids]; home is  *)
(* the module a token was written in, <<>> when it is the one it stands in *)
(* (expanded syntax keeps the places of the quotation it comes from).      *)
(***************************************************************************)
EXTENDS Naturals, Sequences, FiniteSets, SequencesExt, TLC

CONSTANT Programs        \* the package graphs to resolve: a sequence of sets

VARIABLES program,       \* [packages, dependencies, units, builtins, standard, selected]
          stage, next,   \* what is done next, and the position in it
          resolver       \* what has been found so far

vars == <<program, stage, next, resolver>>

Standard == <<"", <<>>>>
Root(package) == <<package, <<>>>>
Package(module) == module[1]
Child(module, name) == <<module[1], Append(module[2], name)>>
NoItem == <<"none", 0>>

Report(r, what, where) == [r EXCEPT !.reports = @ \cup {<<what, where>>}]

-----------------------------------------------------------------------------
(* Modules, declarations and imports (collect.rs) *)

\* insert_namespace: the first item of a name stays.
InsertNamespace(r, module, name, target, public) ==
    IF <<module, name>> \in DOMAIN r.names THEN Report(r, "defined twice", <<module, name>>)
    ELSE [r EXCEPT !.names = (<<module, name>> :> [target |-> target, public |-> public]) @@ @]

PushModule(r, module, origin) == [r EXCEPT !.modules = (module :> [origin |-> origin, reachable |-> FALSE]) @@ @]

\* install_standard_library_names: the standard modules and the prelude; a builtin
\* is [name, module], in the prelude when it has no module of its own.
InstallStandard(p) ==
    LET empty == [modules |-> <<>>, names |-> <<>>, declarations |-> <<>>, imports |-> <<>>,
                  impls |-> <<>>, bindings |-> <<>>, references |-> <<>>, prelude |-> <<>>, reports |-> {}]
        root == [PushModule(empty, Standard, "Standard") EXCEPT !.modules[Standard].reachable = TRUE]
        modules == FoldLeft(LAMBDA r, name :
                        InsertNamespace(PushModule(r, Child(Standard, name), "Standard"),
                                        Standard, name, <<"module", Child(Standard, name)>>, TRUE),
                        root, p.standard)
    IN  FoldLeft(LAMBDA r, b :
                     IF b.module = "" THEN [r EXCEPT !.prelude = (b.name :> <<"builtin", b.name>>) @@ @]
                     ELSE InsertNamespace(r, Child(Standard, b.module), b.name, <<"builtin", b.name>>, TRUE),
                 modules, p.builtins)

\* create_file_module_graph: the modules of the files and of the directories above
\* them, named in their parents, package-private.
FileModules(r, p) ==
    LET paths(package) == SelectSeq(p.units, LAMBDA u : u.package = package /\ u.path # <<>>)
        known(s, m) == m \in DOMAIN s.modules
        Ensure(s, module, file) ==
            IF known(s, module) THEN s
            ELSE InsertNamespace(PushModule(s, module, IF file THEN "FileBacked" ELSE "DirectoryNamespace"),
                                 <<module[1], Front(module[2])>>, Last(module[2]), <<"module", module>>, FALSE)
        OfFile(s, u) == FoldLeft(LAMBDA t, n : Ensure(t, <<u.package, SubSeq(u.path, 1, n)>>, n = Len(u.path)),
                                 s, [n \in DOMAIN u.path |-> n])
    IN  FoldLeft(LAMBDA s, package : FoldLeft(OfFile, PushModule(s, Root(package), "RootFile"), paths(package)),
                 r, p.packages)

\* discover_inline_children, in the order of the text; each step gives the
\* resolver and the units found.  A module that exists already is not entered.
RECURSIVE InlineModules(_, _, _)
InlineModules(found, parent, items) ==
    FoldLeft(LAMBDA f, item :
                 LET module == Child(parent, item.name) IN
                 IF item.kind # "Module" THEN f
                 ELSE IF module \in DOMAIN f.r.modules
                 THEN [f EXCEPT !.r = Report(@, "module twice", module)]
                 ELSE InlineModules(
                          [r |-> InsertNamespace(PushModule(f.r, module, "Inline"), parent, item.name,
                                                 <<"module", module>>, item.public),
                           units |-> Append(f.units, [module |-> module, items |-> item.items])],
                          module, item.items),
             found, items)

UnitModule(unit) == <<unit.package, unit.path>>
DiscoverInlineModules(r, p) ==
    FoldLeft(LAMBDA f, unit : InlineModules(f, UnitModule(unit), unit.items), [r |-> r, units |-> <<>>], p.units)

\* collect_import.  A public use may take the place of a file-backed module.
CollectImport(r, module, use) ==
    LET id == Len(r.imports) + 1
        key == <<module, use.name>>
        replaced == IF /\ key \in DOMAIN r.names /\ use.public /\ r.names[key].target[1] = "module"
                       /\ r.modules[r.names[key].target[2]].origin \in {"FileBacked", "DirectoryNamespace"}
                    THEN r.names[key].target ELSE NoItem
        pushed == [r EXCEPT !.imports = Append(@, [module |-> module, path |-> use.path, public |-> use.public,
                        target |-> NoItem, state |-> "Unresolved", replaced |-> replaced])]
    IN  IF replaced # NoItem
        THEN [pushed EXCEPT !.names[key] = [target |-> <<"import", id>>, public |-> use.public]]
        ELSE InsertNamespace(pushed, module, use.name, <<"import", id>>, use.public)

\* The names in a sequence that stand there before.
Repeated(names) == {names[i] : i \in {j \in DOMAIN names : \E k \in 1..(j-1) : names[k] = names[j]}}
ReportRepeated(r, what, where, names) ==
    [r EXCEPT !.reports = @ \cup {<<what, <<where, name>>>> : name \in Repeated(names)}]
NamesOf(parts) == [i \in DOMAIN parts |-> parts[i].name]

\* collect_named_declaration, with collect_generic_parameters, collect_struct_members,
\* collect_enum_variants and collect_trait_methods; parent and impl are 0 at top level.
RECURSIVE CollectDeclaration(_, _, _, _, _)
CollectDeclaration(r, module, item, parent, impl) ==
    LET id == Len(r.declarations) + 1
        pushed == [r EXCEPT !.declarations = Append(@, [module |-> module, parent |-> parent, impl |-> impl,
                        node |-> item, name |-> item.name, kind |-> item.kind, public |-> item.public,
                        generics |-> item.generics, reachable |-> FALSE])]
        named == IF parent = 0 /\ impl = 0
                 THEN InsertNamespace(pushed, module, item.name, <<"declaration", id>>, item.public) ELSE pushed
        checked == ReportRepeated(ReportRepeated(named, "generic twice", id, item.generics),
                                  "member twice", id, NamesOf(item.members))
        misplaced == {m \in ToSet(item.members) :
                          \/ m.kind = "Function" /\ item.kind \in {"Struct", "ForeignStruct"}
                          \/ m.kind = "Function" /\ item.kind = "Trait" /\ m.public}
        judged == [checked EXCEPT !.reports = @ \cup {<<"member", <<id, m.name>>>> : m \in misplaced}]
    IN  IF item.kind # "Trait" THEN judged
        ELSE FoldLeft(LAMBDA s, m : CollectDeclaration(s, module, m, id, 0), judged,
                      SelectSeq(item.members, LAMBDA m : m.kind = "Function"))

\* collect_impl
CollectImpl(r, module, item) ==
    LET id == Len(r.impls) + 1
        pushed == [r EXCEPT !.impls = Append(@, [module |-> module, node |-> item, generics |-> item.generics])]
        checked == ReportRepeated(ReportRepeated(pushed, "generic twice", <<module, id>>, item.generics),
                                  "method twice", <<module, id>>, NamesOf(item.members))
        shown == {m \in ToSet(item.members) : item.trait /\ m.public}
    IN  FoldLeft(LAMBDA s, m : CollectDeclaration(s, module, m, 0, id),
                 [checked EXCEPT !.reports = @ \cup {<<"member", <<module, m.name>>>> : m \in shown}],
                 item.members)

DeclarationKinds == {"TypeAlias", "Struct", "ForeignStruct", "Enum", "Trait", "Function",
                     "ForeignFunction", "ForeignType"}

\* collect_container
CollectContainer(r, module, items) ==
    FoldLeft(LAMBDA s, item :
                 CASE item.kind = "Use" -> CollectImport(s, module, item)
                   [] item.kind = "Impl" -> CollectImpl(s, module, item)
                   [] item.kind \in DeclarationKinds -> CollectDeclaration(s, module, item, 0, 0)
                   [] OTHER -> s,
             r, items)
CollectTests(r, module, items) ==
    FoldLeft(LAMBDA s, item : IF item.kind = "Test" THEN CollectDeclaration(s, module, item, 0, 0) ELSE s, r, items)

\* collect_all_declarations: the tests after everything else.
CollectAll(r, units) ==
    LET Over(s, Collect(_, _, _)) == FoldLeft(LAMBDA t, u : Collect(t, u.module, u.items), s, units)
    IN  Over(Over(r, CollectContainer), CollectTests)

\* check_exported_c_symbol_conflicts
ExportConflicts(r) ==
    LET exports == SelectSeq(r.declarations, LAMBDA d : d.node.exported # "")
    IN  ReportRepeated(r, "exported twice", 0, [i \in DOMAIN exports |-> exports[i].node.exported])

\* register_standard_declarations: those of the root join the prelude.
RegisterStandard(r) ==
    LET declared == {key \in DOMAIN r.names : key[1] = Standard /\ r.names[key].target[1] = "declaration"}
    IN  [r EXCEPT !.prelude = [name \in {key[2] : key \in declared} |-> r.names[<<Standard, name>>].target] @@ @]

-----------------------------------------------------------------------------
(* Imports and paths (imports.rs); a lookup gives the resolver and an item *)

Found(r, item) == [r |-> r, item |-> item]

Dependencies(p, package, alias) == {d[3] : d \in {e \in p.dependencies : e[1] = package /\ e[2] = alias}}

RECURSIVE ResolveImport(_, _, _)

\* Faulty variant: what is package-private is found from everywhere.
LookupModuleName_Unguarded(r, p, module, name, external, at) ==
    LET entry == r.names[<<module, name>>] IN
    IF <<module, name>> \notin DOMAIN r.names THEN Found(r, NoItem)
    ELSE IF entry.target[1] # "import" THEN Found(r, entry.target)
    ELSE IF r.imports[entry.target[2]].state = "Resolving" /\ r.imports[entry.target[2]].replaced # NoItem
    THEN Found(r, r.imports[entry.target[2]].replaced)
    ELSE ResolveImport(r, p, entry.target[2])

\* lookup_module_name: the item a module has under a name, through its imports.
LookupModuleName(r, p, module, name, external, at) ==
    LET entry == r.names[<<module, name>>] IN
    IF <<module, name>> \notin DOMAIN r.names THEN Found(r, NoItem)
    ELSE IF external /\ ~entry.public THEN Found(Report(r, "package-private", at), NoItem)
    ELSE IF entry.target[1] # "import" THEN Found(r, entry.target)
    ELSE IF r.imports[entry.target[2]].state = "Resolving" /\ r.imports[entry.target[2]].replaced # NoItem
    THEN Found(r, r.imports[entry.target[2]].replaced)
    ELSE ResolveImport(r, p, entry.target[2])

\* The prelude, then the package of the standard library.
Prelude(r, name) == IF name \in DOMAIN r.prelude THEN r.prelude[name]
                    ELSE IF name = "std" THEN <<"module", Standard>> ELSE NoItem

\* The first component of a path that is a name: a dependency of the package, else a
\* name of the module, else of the prelude, else std.
ElsePrelude(own, name) == IF own.item = NoItem THEN Found(own.r, Prelude(own.r, name)) ELSE own
OrUnresolved(found, at) == IF found.item = NoItem THEN Found(Report(found.r, "unresolved", at), NoItem) ELSE found
FirstName(r, p, module, name, at) ==
    LET dependency == Dependencies(p, Package(module), name) IN
    IF dependency # {} THEN Found(r, <<"module", Root(CHOOSE d \in dependency : TRUE)>>)
    ELSE OrUnresolved(ElsePrelude(LookupModuleName(r, p, module, name, FALSE, at), name), at)

PathStart(r, p, module, first, at) ==
    CASE first = "root" -> Found(r, IF Package(module) = "" THEN NoItem ELSE <<"module", Root(Package(module))>>)
      [] first = "self" -> Found(r, <<"module", module>>)
      [] first = "super" -> IF module[2] = <<>> THEN Found(Report(r, "super at root", at), NoItem)
                            ELSE Found(r, <<"module", <<module[1], Front(module[2])>>>>)
      [] OTHER -> FirstName(r, p, module, first, at)

\* resolve_module_path: from then on every component is looked up in the module of
\* the one before; once outside the package of the path, only public ones count.
\* (The flag the code sets for the first component is what the second finds anyway.)
Missing(found, known, at) == [found EXCEPT !.r = IF known THEN @ ELSE Report(@, "unresolved", at)]
RECURSIVE Walk(_, _, _, _, _, _)
Walk(found, external, p, from, path, at) ==
    LET module == found.item[2]
        outside == external \/ Package(module) # Package(from) \/ Package(module) = ""
    IN  CASE path = <<>> \/ found.item = NoItem -> found
          [] found.item[1] \in {"declaration", "builtin"} /\ path # <<>> ->
                 Found(Report(found.r, "not a module", at), NoItem)
          [] OTHER -> Walk(Missing(LookupModuleName(found.r, p, module, path[1], outside, at),
                                   <<module, path[1]>> \in DOMAIN found.r.names, at),
                           outside, p, from, Tail(path), at)
ResolveModulePath(r, p, from, path, at) ==
    Walk(PathStart(r, p, from, path[1], at), FALSE, p, from, Tail(path), at)

\* item_can_be_reexported
CanBeReexported(r, item) == item[1] # "declaration" \/ r.declarations[item[2]].public

\* resolve_import, with its state: an import met while it is being resolved is a cycle.
Settle(r, id, item) ==
    [r EXCEPT !.imports[id].target = item,
              !.imports[id].state = IF item = NoItem THEN "Failed" ELSE "Resolved"]
Concluded(walked, id, import, at) ==
    LET item == walked.item
        wrong == {w \in {"replaced", "re-export"} :
                      /\ item # NoItem
                      /\ \/ w = "replaced" /\ import.replaced \notin {NoItem, item}
                         \/ w = "re-export" /\ import.public /\ ~CanBeReexported(walked.r, item)}
    IN  Found(Settle([walked.r EXCEPT !.reports = @ \cup {<<w, at>> : w \in wrong}], id, item), item)
ResolveImport(r, p, id) ==
    LET import == r.imports[id]
        at == <<0, 1, id>>
    IN  CASE import.state \in {"Resolved", "Failed"} -> Found(r, import.target)
          [] import.state = "Resolving" -> Found(Settle(Report(r, "import cycle", at), id, NoItem), NoItem)
          [] OTHER -> Concluded(ResolveModulePath([r EXCEPT !.imports[id].state = "Resolving"],
                                                  p, import.module, import.path, at), id, import, at)

-----------------------------------------------------------------------------
(* Declarations and bodies (bodies.rs).  A context c holds the module, the *)
(* generic parameters in scope and whether Self means something; the       *)
(* scopes are functions from names to bindings, the innermost last.        *)

\* syntax_context_module
ContextModule(c, home) == IF home = <<>> THEN c.module ELSE home

RecordReference(r, at, target) ==
    IF target = NoItem THEN r ELSE [r EXCEPT !.references = (at :> target) @@ @]
Recorded(found, at) == [found EXCEPT !.r = RecordReference(@, at, found.item)]

\* resolve_token_path
ResolveTokenPath(r, p, c, path, home, at) ==
    CASE path = <<>> -> r
      [] Len(path) = 1 /\ path[1] \in DOMAIN c.generics -> RecordReference(r, at, c.generics[path[1]])
      [] path = <<"Self">> -> IF c.self THEN RecordReference(r, at, <<"Self", 0>>) ELSE Report(r, "Self", at)
      [] OTHER -> Recorded(ResolveModulePath(r, p, ContextModule(c, home), path, at), at).r

\* resolve_pattern_path: the declaration a pattern starts with is what the first
\* prefix of its path stands for that is no module.
RECURSIVE PatternPrefix(_, _, _, _, _, _)
PatternPrefix(found, n, p, from, path, at) ==
    IF n > Len(path) \/ (n > 1 /\ found.item[1] # "module") THEN found
    ELSE PatternPrefix(ResolveModulePath(found.r, p, from, SubSeq(path, 1, n), at), n + 1, p, from, path, at)
ResolvePatternPath(r, p, c, path, home, at) ==
    IF Len(path) = 1 THEN ResolveTokenPath(r, p, c, path, home, at)
    ELSE Recorded(PatternPrefix(Found(r, NoItem), 1, p, ContextModule(c, home), path, at), at).r

\* LexicalScopes::lookup
Holding(scopes, name) == {i \in DOMAIN scopes : name \in DOMAIN scopes[i]}
InnermostOf(indices) == CHOOSE i \in indices : \A j \in indices : j <= i

\* declare_local_symbol: in the innermost scope, which may hold the name already.
DeclareLocal(S, name, at) ==
    LET id == Len(S.r.bindings) + 1
        inner == Len(S.scopes)
        pushed == [S EXCEPT !.r.bindings = Append(@, [name |-> name, at |-> at])]
    IN  IF name \in DOMAIN S.scopes[inner] THEN [pushed EXCEPT !.r = Report(@, "bound twice", at)]
        ELSE [pushed EXCEPT !.scopes[inner] = (name :> id) @@ @]

\* resolve_unqualified_name: a local, a generic parameter, then as the start of a path.
ResolveUnqualified(r, p, c, scopes, name, home, at) ==
    LET holding == Holding(scopes, name)
        target == CASE holding # {} -> <<"local", scopes[InnermostOf(holding)][name]>>
                    [] name = "self" -> <<"module", c.module>>
                    [] name = "Self" /\ c.self -> <<"Self", 0>>
                    [] name \in DOMAIN c.generics -> c.generics[name]
                    [] OTHER -> NoItem
    IN  CASE target # NoItem -> Recorded(Found(r, target), at)
          [] name = "Self" /\ target = NoItem -> Found(Report(r, "Self", at), NoItem)
          [] OTHER -> Recorded(OrUnresolved(PathStart(r, p, ContextModule(c, home), name, at), at), at)

\* module_access_is_external
AccessIsExternal(from, target) == Package(from) # Package(target) \/ Package(target) = ""

\* F over the children of a node with their addresses.
OverKids(F(_, _, _), S, node, at) ==
    FoldLeft(LAMBDA s, i : F(s, node.kids[i], Append(at, i)), S, [i \in DOMAIN node.kids |-> i])

\* A walk carries the resolver, the scopes and the target of what was resolved last.
Unbound(r) == [r |-> r, scopes |-> << <<>> >>, item |-> NoItem]
Pushed(S) == [S EXCEPT !.scopes = Append(@, <<>>)]
Popped(S) == [S EXCEPT !.scopes = Front(@)]

\* Every recursion goes through the operator that tells the kinds of nodes apart.
RECURSIVE Resolve(_, _, _, _, _)

\* The children in order, with the last target among them.
ResolveParts(S, p, c, node, at) ==
    LET Keeping(t, item) == [t EXCEPT !.item = IF @ = NoItem THEN item ELSE @]
        Part(s, kid, where) == Keeping(Resolve([s EXCEPT !.item = NoItem], p, c, kid, where), s.item)
    IN  OverKids(Part, [S EXCEPT !.item = NoItem], node, at)

\* resolve_type: what it mentions besides types sees no local.
ResolveType(S, p, c, node, at) ==
    [S EXCEPT !.item = NoItem,
              !.r = ResolveParts(Unbound(ResolveTokenPath(@, p, c, node.path, node.home, at)), p, c, node, at).r]

\* resolve_block, with a scope of its own (ResolveParts is the one without).
ResolveBlock(S, p, c, block, at) == Popped(ResolveParts(Pushed(S), p, c, block, at))

\* One capture of a closure: an enclosing local, once, bound anew inside.
Captured(W, source, node, at) ==
    LET noted == [W EXCEPT !.S.r = source.r] IN
    IF source.item[1] # "local" THEN [noted EXCEPT !.S.r = Report(@, "captures no local", at)]
    ELSE IF source.item \in W.captured THEN [noted EXCEPT !.S.r = Report(@, "captured twice", at)]
    ELSE [S |-> DeclareLocal(noted.S, node.binds[1], at), captured |-> W.captured \cup {source.item}]

\* resolve_closure_expression: the body sees captures and parameters, and no other local.
ResolveClosure(S, p, c, node, at) ==
    LET declared == [S.r EXCEPT !.declarations = Append(@, [module |-> c.module, parent |-> 0, impl |-> 0,
                        node |-> node, name |-> "$closure", kind |-> "Closure", public |-> FALSE,
                        generics |-> <<>>, reachable |-> FALSE])]
        Part(W, kid, where) ==
            CASE kid.kind = "Capture" ->
                     Captured(W, ResolveUnqualified(W.S.r, p, c, S.scopes, kid.name, kid.home, where), kid, where)
              [] kid.kind = "Parameter" -> [W EXCEPT !.S = DeclareLocal(ResolveParts(@, p, c, kid, where), kid.name, where)]
              [] kid.kind = "Block" -> [W EXCEPT !.S = ResolveParts(@, p, c, kid, where)]
              [] OTHER -> [W EXCEPT !.S = ResolveType(@, p, c, kid, where)]
    IN  [S EXCEPT !.item = NoItem, !.r = OverKids(Part, [S |-> Unbound(declared), captured |-> {}], node, at).S.r]

\* The name of a module after a dot.
Reached(S, found) == [S EXCEPT !.r = found.r, !.item = found.item]
ResolveMember(S, p, c, node, at) ==
    IF S.item[1] # "module" THEN [S EXCEPT !.item = NoItem]
    ELSE Reached(S, Recorded(LookupModuleName(S.r, p, S.item[2], node.name,
                            AccessIsExternal(ContextModule(c, node.home), S.item[2]), at), at))

\* resolve_expression
ResolveExpression(S, p, c, node, at) ==
    CASE node.kind \in {"Name", "Shorthand"} ->
             Reached(S, ResolveUnqualified(S.r, p, c, S.scopes, node.name, node.home, at))
      [] node.kind = "Closure" -> ResolveClosure(S, p, c, node, at)
      [] node.kind = "Member" -> ResolveMember(ResolveParts(S, p, c, node, at), p, c, node, at)
      [] node.kind = "Parenthesized" -> ResolveParts(S, p, c, node, at)
      [] OTHER -> [ResolveParts(S, p, c, node, at) EXCEPT !.item = NoItem]

\* collect_pattern_bindings: a name counts once, where it stands first.
RECURSIVE PatternBindings(_, _, _, _, _)
PatternBindings(W, p, c, node, at) ==
    LET pathed == IF node.path = <<>> THEN W
                  ELSE [W EXCEPT !.r = ResolvePatternPath(@, p, c, node.path, node.home, at)]
    IN  IF node.kind = "Bind"
        THEN IF \E i \in DOMAIN W.names : W.names[i].name = node.name THEN W
             ELSE [W EXCEPT !.names = Append(@, [name |-> node.name, at |-> at])]
        ELSE OverKids(LAMBDA w, kid, where : PatternBindings(w, p, c, kid, where), pathed, node, at)

\* resolve_match_arm: the bindings of the pattern are one scope with the guard and the body.
ResolveArm(S, p, c, arm, at) ==
    LET pattern == Append(at, 1)
        Opened(bound) == FoldLeft(LAMBDA s, b : DeclareLocal(s, b.name, b.at), Pushed([S EXCEPT !.r = bound.r]), bound.names)
        Part(s, kid, where) == CASE where = pattern -> s
                                 [] kid.kind = "Block" -> ResolveParts(s, p, c, kid, where)
                                 [] OTHER -> Resolve(s, p, c, kid, where)
    IN  Popped(OverKids(Part, Opened(PatternBindings([r |-> S.r, names |-> <<>>], p, c, arm.kids[1], pattern)), arm, at))

DeclareAll(S, names, at) == FoldLeft(LAMBDA s, name : DeclareLocal(s, name, at), S, names)

\* The statement for: its name is bound in a scope around its body.
ResolveFor(S, p, c, node, at) ==
    LET iterated == DeclareAll(Pushed(Resolve(S, p, c, node.kids[1], Append(at, 1))), node.binds, at)
    IN  Popped(ResolveParts(iterated, p, c, node.kids[2], Append(at, 2)))

\* Faulty variant: the names of a let enter scope before its initializer is resolved.
ResolveStatement_BindsFirst(S, p, c, node, at) ==
    CASE node.kind = "Let" -> ResolveParts(DeclareAll(S, node.binds, at), p, c, node, at)
      [] node.kind = "For" -> ResolveFor(S, p, c, node, at)
      [] OTHER -> ResolveParts(S, p, c, node, at)

\* resolve_statement: a let binds after its initializer; blocks of other statements
\* are scopes of their own.
ResolveStatement(S, p, c, node, at) ==
    CASE node.kind = "Let" -> DeclareAll(ResolveParts(S, p, c, node, at), node.binds, at)
      [] node.kind = "For" -> ResolveFor(S, p, c, node, at)
      [] OTHER -> ResolveParts(S, p, c, node, at)

StatementKinds == {"Let", "For", "If", "Match", "While", "Unsafe", "Do", "Return", "Assign", "Defer", "Expect", "Pass"}
Resolve(S, p, c, node, at) ==
    CASE node.kind \in StatementKinds -> ResolveStatement(S, p, c, node, at)
      [] node.kind = "Block" -> ResolveBlock(S, p, c, node, at)
      [] node.kind = "Arm" -> ResolveArm(S, p, c, node, at)
      [] node.kind = "Type" -> ResolveType(S, p, c, node, at)
      [] OTHER -> ResolveExpression(S, p, c, node, at)

\* generic_scope_for_declaration: of the block, of the trait around, of its own.
GenericScope(r, d) ==
    LET declaration == r.declarations[d]
        Of(owner, names) == [name \in ToSet(names) |-> <<"generic", owner>>]
        above == declaration.parent
    IN  Of(<<1, d>>, declaration.generics) @@
        (IF above = 0 THEN <<>> ELSE Of(<<1, above>>, r.declarations[above].generics)) @@
        (IF declaration.impl = 0 THEN <<>> ELSE Of(<<2, declaration.impl>>, r.impls[declaration.impl].generics))

\* resolve_non_body_syntax, with resolve_derive_list: everything but blocks.
RECURSIVE ResolveNonBody(_, _, _, _, _)
ResolveNonBody(r, p, c, node, at) ==
    LET Part(s, kid, where) ==
            CASE kid.kind = "Block" -> s
              [] kid.kind = "Type" -> Resolve(Unbound(s), p, c, kid, where).r
              [] kid.kind = "Derive" -> ResolveTokenPath(s, p, c, kid.path, kid.home, where)
              [] OTHER -> ResolveNonBody(s, p, c, kid, where)
    IN  OverKids(Part, r, node, at)

\* Members that are resolved with their declaration: fields and variants.
OwnMembers(declaration) ==
    IF declaration.kind \notin {"Struct", "ForeignStruct", "Enum"} THEN <<>>
    ELSE SelectSeq([j \in DOMAIN declaration.node.members |-> j],
                   LAMBDA j : declaration.node.members[j].kind \in {"Field", "Variant"})

\* resolve_function_body: the parameters, then the block in their scope.
ResolveFunctionBody(r, p, c, node, at) ==
    LET Part(S, kid, where) == CASE kid.kind = "Parameter" -> DeclareLocal(S, kid.name, where)
                                 [] kid.kind = "Block" -> ResolveParts(S, p, c, kid, where)
                                 [] OTHER -> S
    IN  OverKids(Part, Unbound(r), node, at).r

\* resolve_declaration
ResolveDeclaration(r, p, d) ==
    LET declaration == r.declarations[d]
        allowed == declaration.parent # 0 \/ declaration.impl # 0 \/ declaration.kind \in {"Struct", "Trait"}
        c == [module |-> declaration.module, generics |-> GenericScope(r, d), self |-> allowed]
        inFields == [c EXCEPT !.self = declaration.kind # "Enum"]
        Member(s, j) == ResolveNonBody(s, p, inFields, declaration.node.members[j].syntax, <<d, j>>)
        signed == FoldLeft(Member, ResolveNonBody(r, p, c, declaration.node.syntax, <<d, 0>>), OwnMembers(declaration))
        hasBody == \/ declaration.kind = "Function"
                   \/ declaration.kind = "Test" /\ p.tested = Package(declaration.module)
        WithBody(s) == IF hasBody THEN ResolveFunctionBody(s, p, c, declaration.node.syntax, <<d, 0>>) ELSE s
    IN  WithBody(signed)

\* The types of an implementation block, before all declarations.
ResolveImpl(r, p, i) ==
    LET impl == r.impls[i]
        c == [module |-> impl.module, generics |-> [name \in ToSet(impl.generics) |-> <<"generic", <<2, i>>>>],
              self |-> FALSE]
    IN  ResolveNonBody(r, p, c, impl.node.syntax, <<0, 2, i>>)

-----------------------------------------------------------------------------
(* What is reachable from outside (visibility.rs) *)

\* What the public names of a module stand for.
PublicItems(r, module) ==
    LET entries == {r.names[key] : key \in {k \in DOMAIN r.names : k[1] = module /\ r.names[k].public}}
    IN  {IF e.target[1] = "import" THEN r.imports[e.target[2]].target ELSE e.target : e \in entries}

RECURSIVE ReachedModules(_, _)
ReachedModules(r, modules) ==
    LET further == UNION {{i[2] : i \in {j \in PublicItems(r, m) : j[1] = "module"}} : m \in modules}
    IN  IF further \subseteq modules THEN modules ELSE ReachedModules(r, modules \cup further)

\* A member of a trait, or a public member, of what is reachable.
WithMembers(r, reached) ==
    [d \in DOMAIN r.declarations |->
        LET declaration == r.declarations[d]
            above == declaration.parent
        IN  \/ d \in reached
            \/ /\ above # 0 /\ above \in reached
               /\ r.declarations[above].kind = "Trait" \/ declaration.public]

Reaching(r, modules) ==
    LET reached == {i[2] : i \in UNION {{j \in PublicItems(r, m) : j[1] = "declaration"} : m \in modules}}
        flags == WithMembers(r, reached)
    IN  [r EXCEPT !.modules = [m \in DOMAIN @ |-> [@[m] EXCEPT !.reachable = @ \/ m \in modules]],
                  !.declarations = [d \in DOMAIN @ |-> [@[d] EXCEPT !.reachable = flags[d]]]]

\* Faulty variant: only the root modules are searched.
ComputeExternalReachability_Roots(r, p) == Reaching(r, {Standard} \cup {Root(q) : q \in ToSet(p.packages)})

\* compute_external_reachability
ComputeExternalReachability(r, p) ==
    Reaching(r, ReachedModules(r, {Standard} \cup {Root(q) : q \in ToSet(p.packages)}))

\* signature_type_nodes, as addresses: the types below a node, outside blocks.
RECURSIVE SignatureTypes(_, _)
SignatureTypes(node, at) ==
    UNION {IF node.kids[i].kind = "Block" THEN {}
           ELSE (IF node.kids[i].kind = "Type" THEN {Append(at, i)} ELSE {}) \cup
                SignatureTypes(node.kids[i], Append(at, i)) : i \in DOMAIN node.kids}

\* The members whose types belong to a public signature.
ShownMembers(declaration) ==
    {j \in ToSet(OwnMembers(declaration)) : declaration.kind = "Enum" \/ declaration.node.members[j].public}

SignatureOf(r, d) ==
    LET declaration == r.declarations[d] IN
    IF declaration.kind \in {"Closure", "Test"} THEN {}
    ELSE SignatureTypes(declaration.node.syntax, <<d, 0>>) \cup
         UNION {SignatureTypes(declaration.node.members[j].syntax, <<d, j>>) : j \in ShownMembers(declaration)}

\* check_public_signatures
CheckPublicSignatures(r) ==
    LET shown == UNION {SignatureOf(r, d) : d \in {e \in DOMAIN r.declarations : r.declarations[e].reachable}}
        exposed == {a \in DOMAIN r.references :
                        /\ \E t \in shown : IsPrefix(t, a)
                        /\ r.references[a][1] = "declaration"
                        /\ ~r.declarations[r.references[a][2]].reachable}
    IN  [r EXCEPT !.reports = @ \cup {<<"exposed", a>> : a \in exposed}]

-----------------------------------------------------------------------------
(* Resolver::run, one import, block or declaration at a time *)

Init == /\ \E k \in DOMAIN Programs : program \in Programs[k]
        /\ stage = "collect" /\ next = 1
        /\ resolver = InstallStandard(program)

Collect ==
    /\ stage = "collect"
    /\ LET discovered == DiscoverInlineModules(FileModules(resolver, program), program)
           units == [i \in DOMAIN program.units |->
                        [module |-> UnitModule(program.units[i]), items |-> program.units[i].items]] \o discovered.units
       IN  resolver' = RegisterStandard(ExportConflicts(CollectAll(discovered.r, units)))
    /\ stage' = "imports" /\ next' = 1
    /\ UNCHANGED program

\* The next position of a stage, or the first of the stage after it.
Advance(length, after) == IF next < length THEN stage' = stage /\ next' = next + 1 ELSE stage' = after /\ next' = 1
Skip(length, after) == next > length /\ stage' = after /\ next' = 1 /\ UNCHANGED resolver

Imports == Len(resolver.imports)
ResolveNextImport ==
    /\ stage = "imports"
    /\ \/ Skip(Imports, "impls")
       \/ next <= Imports /\ resolver' = ResolveImport(resolver, program, next).r /\ Advance(Imports, "impls")
    /\ UNCHANGED program

Impls == Len(resolver.impls)
ResolveNextImpl ==
    /\ stage = "impls"
    /\ \/ Skip(Impls, "declarations")
       \/ next <= Impls /\ resolver' = ResolveImpl(resolver, program, next) /\ Advance(Impls, "declarations")
    /\ UNCHANGED program

\* Closures are declarations too, added behind those that were collected.
Collected == Cardinality({d \in DOMAIN resolver.declarations : resolver.declarations[d].kind # "Closure"})
ResolveNextDeclaration ==
    /\ stage = "declarations"
    /\ \/ Skip(Collected, "visibility")
       \/ /\ next <= Collected
          /\ resolver' = ResolveDeclaration(resolver, program, next)
          /\ Advance(Collected, "visibility")
    /\ UNCHANGED program

CheckVisibility ==
    /\ stage = "visibility"
    /\ resolver' = CheckPublicSignatures(ComputeExternalReachability(resolver, program))
    /\ stage' = "done" /\ next' = 1
    /\ UNCHANGED program

Next == Collect \/ ResolveNextImport \/ ResolveNextImpl \/ ResolveNextDeclaration \/ CheckVisibility

Spec == Init /\ [][Next]_vars
=============================================================================
