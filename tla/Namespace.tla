----------------------------- MODULE Namespace -----------------------------
(***************************************************************************)
(* Collection of the physical compile-time declarations and imports of a   *)
(* package graph, and resolution of the imports                            *)
(* (src/expansion/namespace.rs).                                           *)
(*                                                                         *)
(* A graph has units [package, path, tree] and dependencies, a set of      *)
(* <<package, name, package>>.  A module is <<package, path>>.  A tree is  *)
(* made of the nodes of Interpreter; the annotation of a declaration or of *)
(* a compile-time use holds a record:                                      *)
(*   <<"declaration", [namespace, public, parameters, return, body, trait]>>*)
(*   <<"use", [namespace, public, path]>>                                  *)
(* and a path is a sequence of names, "root", "self" or "super" first.     *)
(* The environment has modules, declarations, imports, and bindings, a     *)
(* function from <<module, namespace, name>> to <<"declaration", index>>   *)
(* or <<"import", index>>.                                                 *)
(***************************************************************************)
EXTENDS Naturals, Sequences, FiniteSets, SequencesExt, TLC

DeclarationKinds == {"MacroDeclaration", "AttributeDeclaration", "DeriveDeclaration"}
IsCompileTimeUse(node) == node.kind = "Use" /\ node.annotation # <<>>

\* contains_generated_compile_time_declaration
RECURSIVE DeclaresCompileTime(_)
DeclaresCompileTime(node) ==
    \/ node.kind \in DeclarationKinds \/ IsCompileTimeUse(node)
    \/ \E i \in DOMAIN node.kids : DeclaresCompileTime(node.kids[i])

\* ensure_module: a module and all above it.
WithParents(package, path) == {<<package, SubSeq(path, 1, n)>> : n \in 0..Len(path)}

\* discover_inline_modules: the modules written below a unit.
RECURSIVE InlineModules(_, _, _)
InlineModules(package, path, tree) ==
    WithParents(package, path) \cup
    UNION {InlineModules(package, Append(path, tree.kids[i].name), tree.kids[i]) :
               i \in {j \in DOMAIN tree.kids : tree.kids[j].kind = "Module"}}

\* insert_binding: the first binding of a name in a namespace stays.
Bind(env, key, binding) ==
    IF key \in DOMAIN env.bindings THEN [env EXCEPT !.diagnostics = Append(@, "bound twice")]
    ELSE [env EXCEPT !.bindings = (key :> binding) @@ @]

\* collect_declaration
CollectDeclaration(env, module, node) ==
    LET d == node.annotation[2]
        added == [env EXCEPT !.declarations = Append(@, [name |-> node.name, module |-> module] @@ d)]
    IN  Bind(added, <<module, d.namespace, node.name>>, <<"declaration", Len(added.declarations)>>)

\* collect_import
CollectImport(env, module, node) ==
    LET use == node.annotation[2]
        added == [env EXCEPT !.imports = Append(@,
                    [name |-> node.name, module |-> module, target |-> 0, state |-> "Unresolved"] @@ use)]
    IN  Bind(added, <<module, use.namespace, node.name>>, <<"import", Len(added.imports)>>)

\* collect_container
RECURSIVE CollectContainer(_, _, _)
CollectContainer(env, module, tree) ==
    FoldLeft(LAMBDA before, node :
                CASE node.kind = "Module" ->
                        CollectContainer(before, <<module[1], Append(module[2], node.name)>>, node)
                  [] node.kind \in DeclarationKinds -> CollectDeclaration(before, module, node)
                  [] IsCompileTimeUse(node) -> CollectImport(before, module, node)
                  [] OTHER -> before,
             env, tree.kids)

\* collect, before the imports are resolved.
Collected(graph) ==
    FoldLeft(LAMBDA env, unit : CollectContainer(env, <<unit.package, unit.path>>, unit.tree),
             [modules |-> UNION {InlineModules(u.package, u.path, u.tree) : u \in ToSet(graph.units)},
              declarations |-> <<>>, imports |-> <<>>, bindings |-> <<>>, diagnostics |-> <<>>],
             graph.units)

\* The package a first component names as a dependency.
Dependency(graph, package, name) == {d[3] : d \in {e \in graph.dependencies : e[1] = package /\ e[2] = name}}

Nowhere == <<"", <<>>>>

\* The module of a written path: its first component, then one nested module
\* per component up to the last; Nowhere when there is none.
PathModule(env, graph, source, path) ==
    LET first == path[1]
        dependency == Dependency(graph, source[1], first)
        rest(n) == SubSeq(path, n, Len(path) - 1)
        at == CASE first = "root" -> <<source[1], rest(2)>>
                [] first = "self" -> <<source[1], source[2] \o rest(2)>>
                [] first = "super" ->
                      IF source[2] = <<>> THEN Nowhere ELSE <<source[1], Front(source[2]) \o rest(2)>>
                [] OTHER ->
                      IF Len(path) > 1 /\ dependency # {} THEN <<CHOOSE p \in dependency : TRUE, rest(2)>>
                      ELSE <<source[1], source[2] \o rest(1)>>
    IN  IF at \in env.modules THEN at ELSE Nowhere

\* The binding a path names in a namespace, <<"none", 0>> when there is none.
Lookup(env, module, namespace, name) ==
    IF <<module, namespace, name>> \in DOMAIN env.bindings THEN env.bindings[<<module, namespace, name>>]
    ELSE <<"none", 0>>

Settle(env, id, target) ==
    [env EXCEPT !.imports[id].target = target,
                !.imports[id].state = IF target = 0 THEN "Failed" ELSE "Resolved"]
Report(env, what) == [env EXCEPT !.diagnostics = Append(@, what)]

RECURSIVE ResolveImport(_, _, _)

\* Faulty variant: any binding of another package may be named.
ResolveImport_AnyBinding(env, graph, id) ==
    LET import == env.imports[id]
        module == PathModule(env, graph, import.module, import.path)
        binding == Lookup(env, module, import.namespace, Last(import.path))
        unsaid == \/ import.path[1] = "super" /\ import.module[2] = <<>>
                  \/ Len(import.path) = 1 /\ Dependency(graph, import.module[1], import.path[1]) # {}
        started == [env EXCEPT !.imports[id].state = "Resolving"]
        followed == IF binding[1] = "import" THEN ResolveImport(started, graph, binding[2]) ELSE started
        target == IF binding[1] = "import" THEN followed.imports[binding[2]].target ELSE binding[2]
        declaration == followed.declarations[target]
    IN  IF import.state \in {"Resolved", "Failed"} THEN env
        ELSE IF import.state = "Resolving" THEN Settle(Report(env, "import cycle"), id, 0)
        ELSE IF unsaid THEN Settle(started, id, 0)
        ELSE IF binding[1] = "none" THEN Settle(Report(started, "unresolved import"), id, 0)
        ELSE IF target = 0 THEN Settle(followed, id, 0)
        ELSE IF declaration.module[1] # import.module[1] /\ ~declaration.public
             THEN Settle(Report(followed, "package-private"), id, 0)
        ELSE IF import.public /\ ~declaration.public
             THEN Settle(Report(followed, "private re-export"), id, 0)
        ELSE Settle(followed, id, target)

\* resolve_import and resolve_path: follow the path to its binding, through
\* other imports, which are resolved first; visibility is asked of the binding
\* and of what it leads to.  A super above the root and a lone dependency
\* fail without a word.
ResolveImport(env, graph, id) ==
    LET import == env.imports[id]
        module == PathModule(env, graph, import.module, import.path)
        binding == Lookup(env, module, import.namespace, Last(import.path))
        external == module[1] # import.module[1]
        bindingPublic == IF binding[1] = "import" THEN env.imports[binding[2]].public
                         ELSE env.declarations[binding[2]].public
        unsaid == \/ import.path[1] = "super" /\ import.module[2] = <<>>
                  \/ Len(import.path) = 1 /\ Dependency(graph, import.module[1], import.path[1]) # {}
        started == [env EXCEPT !.imports[id].state = "Resolving"]
        followed == IF binding[1] = "import" THEN ResolveImport(started, graph, binding[2]) ELSE started
        target == IF binding[1] = "import" THEN followed.imports[binding[2]].target ELSE binding[2]
        declaration == followed.declarations[target]
    IN  IF import.state \in {"Resolved", "Failed"} THEN env
        ELSE IF import.state = "Resolving" THEN Settle(Report(env, "import cycle"), id, 0)
        ELSE IF unsaid THEN Settle(started, id, 0)
        ELSE IF binding[1] = "none" THEN Settle(Report(started, "unresolved import"), id, 0)
        ELSE IF external /\ ~bindingPublic THEN Settle(Report(started, "package-private"), id, 0)
        ELSE IF target = 0 THEN Settle(followed, id, 0)
        ELSE IF declaration.module[1] # import.module[1] /\ ~declaration.public
             THEN Settle(Report(followed, "package-private"), id, 0)
        ELSE IF import.public /\ ~declaration.public
             THEN Settle(Report(followed, "private re-export"), id, 0)
        ELSE Settle(followed, id, target)

\* The engine's resolve: the declaration a path in a module leads to, or 0.
\* Unlike an import, it does not ask for the visibility of the binding.
Resolve(env, graph, module, namespace, path) ==
    LET at == IF Len(path) = 1 THEN module ELSE PathModule(env, graph, module, path)
        binding == Lookup(env, at, namespace, Last(path))
    IN  CASE binding[1] = "declaration" -> binding[2]
          [] binding[1] = "import" -> env.imports[binding[2]].target
          [] OTHER -> 0

\* declaration_visible
DeclarationVisible(env, module, declaration) ==
    \/ env.declarations[declaration].module[1] = module[1]
    \/ env.declarations[declaration].public
=============================================================================
