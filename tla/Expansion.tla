----------------------------- MODULE Expansion -----------------------------
(***************************************************************************)
(* The expansion engine (src/expansion/engine.rs) as a client of the       *)
(* scheduler: it walks the trees of a package graph, executes attributes,  *)
(* derives and macro invocations, and expands what they return.            *)
(*                                                                         *)
(* The engine's recursion is an explicit stack: todo holds what is still   *)
(* to be done, results what has been built, and each frame, once done,     *)
(* leaves one sequence of nodes in results.  Frames:                       *)
(*   <<"Child", node, module>>         transform_container, one child      *)
(*   <<"Node", node, module>>          transform_node_in_module            *)
(*   <<"Macro", node, module, role>>   expand_macro in a position          *)
(*   <<"Attributes", item, rest, current, module>>   transform_definition  *)
(*   <<"Derives", rest, target, generated, builtins, current, module>>     *)
(*   <<"Scalar">>, <<"Join", n>>, <<"Build", node, n>>   what follows      *)
(*   <<"Close", key>>                  the end of an expansion             *)
(* A frame at the top of todo while held is not empty waits for the        *)
(* execution it asked for.                                                 *)
(*                                                                         *)
(* The block of a definition is folded into it: the kids of a struct, an   *)
(* enum, an impl or a module are its members.  An attachment is a record   *)
(* [form, path, arguments] and the arguments of an invocation are the kids *)
(* of its node.                                                            *)
(***************************************************************************)
EXTENDS Scheduler, Namespace

CONSTANTS Graphs,              \* the package graphs to expand, in a sequence
          InterpreterSteps, LiveValueBytes

Interpreter == INSTANCE Interpreter

VARIABLES phase,        \* direct (the scheduler alone), collect, expand, done
          graph,        \* the package graph
          env,          \* the compile-time environment
          todo, results,
          active,       \* the keys of the macro expansions being expanded
          held,         \* the execution asked for
          diagnostics

engineVars == <<phase, graph, env, todo, results, active, held, diagnostics>>
allVars == <<vars, engineVars>>

Ast(role) == Interpreter!Ast(role)
ErrorNode == Interpreter!Node("Error", "", <<>>)
NothingHeld == [state |-> "none"]

-----------------------------------------------------------------------------
(* Positions, roles and arguments *)

\* is_user_macro: vec, map and set belong to the checker.
IsUserMacro(node) == node.kind = "Macro" /\ node.annotation[1] \notin {"vec", "map", "set"}
IsDefinition(node) == node.kind \in {"Struct", "Enum", "Function"}

DefinitionRole(kind) ==
    CASE kind = "Struct" -> "StructDefinition" [] kind = "Enum" -> "EnumDefinition"
      [] kind = "Function" -> "FunctionDefinition"

\* expansion_role; validate_signature admits no other return type.
ExpansionRole(type) ==
    CASE type[2] = "Expression" -> "Expression" [] type[2] = "Pattern" -> "Pattern"
      [] type[2] = "TypeSyntax" -> "Type" [] type[2] = "StatementList" -> "Statements"
      [] type[2] \in {"Item", "ItemList"} -> "Items"

\* child_position
ChildPosition(parent) ==
    CASE parent = "Pattern" -> "Pattern"
      [] parent \in {"Type", "Field", "Parameter", "Function"} -> "Type"
      [] OTHER -> "Expression"

\* macro_return_role: the role of what an invocation names, or "none".
MacroReturnRole(node, module) ==
    LET d == Resolve(env, graph, module, "Macro", node.annotation) IN
    IF d = 0 THEN "none"
    ELSE IF Interpreter!Lowered(env.declarations[d]) THEN ExpansionRole(env.declarations[d].return)
    ELSE "none"

\* parse_argument: the value of one written argument, <<"Invalid">> if it is
\* not what the parameter takes.
ParseArgument(node, type) ==
    CASE type[1] = "Ast" ->
            IF /\ type[2] \notin {"MemberList", "FieldDefinition"}
               /\ node.kind \in Interpreter!FragmentKinds(type[2])
            THEN <<"Syntax", type[2], <<node>>>> ELSE <<"Invalid">>
      [] type[1] \in {"String", "Bool", "Integer"} /\ node.kind = "Literal" ->
            IF node.annotation[1] = type[1] THEN node.annotation ELSE <<"Invalid">>
      [] OTHER -> <<"Invalid">>

\* parse_arguments
ParseArguments(nodes, parameters) ==
    LET variadic == parameters # <<>> /\ Last(parameters).variadic
        fixed == IF variadic THEN Len(parameters) - 1 ELSE Len(parameters)
        type(i) == CASE i <= fixed -> parameters[i].type
                     [] i > fixed /\ variadic -> Last(parameters).type[2]
                     [] OTHER -> <<"none">>
        values == [i \in DOMAIN nodes |-> ParseArgument(nodes[i], type(i))]
    IN  [ok |-> /\ Len(nodes) >= fixed /\ (variadic \/ Len(nodes) = fixed)
                /\ \A i \in DOMAIN nodes : values[i] # <<"Invalid">>,
         values |-> values]

\* structural_text: what the texts of the tokens are when they are joined.  A
\* string literal and an identifier of the same text are the same here.
RECURSIVE StructuralText(_)
StructuralText(nodes) ==
    FlattenSeq([i \in DOMAIN nodes |->
        LET node == nodes[i] IN
        CASE node.kind = "Literal" -> <<ToString(node.annotation[2])>>
          [] node.kind = "Name" -> <<ToString(node.name)>>
          [] OTHER -> <<node.kind, node.name>> \o StructuralText(node.kids)])

-----------------------------------------------------------------------------
(* Definitions *)

Attachments(item, form) == SelectSeq(item.attached, LAMBDA a : a.form = form)

\* strip_custom_attachments
Stripped(node) == [node EXCEPT !.attached = SelectSeq(@, LAMBDA a : a.form = "Other")]

\* attach_builtin_derives, to the first definition there is.
WithBuiltins(nodes, builtins) ==
    LET definitions == {i \in DOMAIN nodes : IsDefinition(nodes[i])}
        first == CHOOSE i \in definitions : \A j \in definitions : i <= j
    IN  IF builtins = <<>> \/ definitions = {} \/ nodes[first].kind = "Function" THEN nodes
        ELSE [nodes EXCEPT ![first].attached =
                Append(@, [form |-> "Other", path |-> builtins, arguments |-> <<>>])]

\* The indices of the nodes an attribute of item may still be applied to.
Targets(item, current) == {i \in DOMAIN current : current[i].kind = item.kind}

Splice(current, index, nodes) ==
    SubSeq(current, 1, index - 1) \o nodes \o SubSeq(current, index + 1, Len(current))

\* derive_output_matches: the declared trait, for the target itself.
DeriveOutputMatches(node, d, target) ==
    node.kind = "Impl" /\ node.name = d.trait /\ node.annotation = <<"target", target.name>>

\* The last step of transform_definition: expand what has become of it.
Expanded(nodes, module) ==
    [i \in DOMAIN nodes |-> IF nodes[i].kind = "Macro" THEN <<"Macro", nodes[i], module, "Items">>
                            ELSE <<"Node", nodes[i], module>>] \o <<<<"Join", Len(nodes)>>>>

-----------------------------------------------------------------------------
(* Steps of the engine *)

Idle == phase = "expand" /\ ~running /\ held = NothingHeld /\ todo # <<>>
Top == Head(todo)

\* Replace the frame at the top by others.
Goto(frames) == todo' = frames \o Tail(todo)

\* The frame at the top is done, with these nodes.
Done(nodes) == todo' = Tail(todo) /\ results' = Append(results, nodes)

Diagnose(why) == diagnostics' = Append(diagnostics, why)

\* collect: the environment, one import after another.
CollectStep ==
    /\ phase = "collect"
    /\ LET open == {i \in DOMAIN env.imports : env.imports[i].state = "Unresolved"}
           next == CHOOSE i \in open : \A j \in open : i <= j
           refused == SelectSeq(env.declarations, LAMBDA d : ~Interpreter!Lowered(d))
       IN  IF open # {}
           THEN /\ env' = ResolveImport(env, graph, next)
                /\ UNCHANGED <<phase, todo, diagnostics>>
           ELSE \* execute_package: programs are lowered, then every unit is walked.
                /\ phase' = "expand"
                /\ diagnostics' = env.diagnostics \o [i \in DOMAIN refused |-> "declaration"]
                /\ todo' = [i \in DOMAIN graph.units |->
                      <<"Node", graph.units[i].tree, <<graph.units[i].package, graph.units[i].path>>>>]
                /\ UNCHANGED env
    /\ UNCHANGED <<vars, graph, results, active, held>>

\* transform_container, for one child.
TransformChild ==
    /\ Idle /\ Top[1] = "Child"
    /\ LET node == Top[2]
           module == Top[3]
           nested == <<module[1], Append(module[2], node.name)>>
           inside == {i \in DOMAIN node.kids : IsUserMacro(node.kids[i])}
           invocation == node.kids[CHOOSE i \in inside : \A j \in inside : i <= j]
       IN  CASE IsUserMacro(node) ->
                    Goto(<<<<"Macro", node, module, "Items">>>>) /\ UNCHANGED results
             [] /\ node.kind = "ExpressionStatement" /\ inside # {}
                /\ MacroReturnRole(invocation, module) = "Statements" ->
                    Goto(<<<<"Macro", invocation, module, "Statements">>>>) /\ UNCHANGED results
             [] IsDefinition(node) ->
                    /\ Goto(<<<<"Attributes", node, Attachments(node, "Attribute"), <<node>>, module>>>>)
                    /\ UNCHANGED results
             [] node.kind = "Module" ->
                    IF nested \in env.modules
                    THEN Goto(<<<<"Node", node, nested>>>>) /\ UNCHANGED results
                    ELSE Done(<<node>>)
             [] OTHER -> Goto(<<<<"Node", node, module>>>>) /\ UNCHANGED results
    /\ UNCHANGED <<vars, phase, graph, env, active, held, diagnostics>>

\* transform_node_in_module
TransformNode ==
    /\ Idle /\ Top[1] = "Node"
    /\ LET node == Top[2]
           module == Top[3]
           n == Len(node.kids)
           role == MacroReturnRole(node, module)
           kid(i) == IF IsUserMacro(node.kids[i])
                     THEN <<<<"Macro", node.kids[i], module, ChildPosition(node.kind)>>, <<"Scalar">>>>
                     ELSE <<<<"Node", node.kids[i], module>>>>
       IN  CASE IsUserMacro(node) ->
                    Goto(<<<<"Macro", node, module, IF role = "none" THEN "Expression" ELSE role>>, <<"Scalar">>>>)
             [] node.kind \in {"File", "Block", "Module", "Struct", "Enum", "Impl"} ->
                    Goto([i \in 1..n |-> <<"Child", node.kids[i], module>>] \o <<<<"Build", node, n>>>>)
             [] OTHER -> Goto(FlattenSeq([i \in 1..n |-> kid(i)]) \o <<<<"Build", node, n>>>>)
    /\ UNCHANGED <<vars, phase, graph, env, results, active, held, diagnostics>>

\* What the frames below a list, a node and a scalar position do with the
\* results before them.
Popped(n) == SubSeq(results, 1, Len(results) - n)
Gathered(n) == FlattenSeq(SubSeq(results, Len(results) - n + 1, Len(results)))

Assemble ==
    /\ Idle
    /\ \/ /\ Top[1] = "Join"
          /\ results' = Append(Popped(Top[2]), Gathered(Top[2]))
          /\ UNCHANGED diagnostics
       \/ /\ Top[1] = "Build"
          /\ results' = Append(Popped(Top[3]), <<[Top[2] EXCEPT !.kids = Gathered(Top[3])]>>)
          /\ UNCHANGED diagnostics
       \/ /\ Top[1] = "Scalar"
          /\ IF Len(Gathered(1)) = 1 THEN UNCHANGED <<results, diagnostics>>
             ELSE results' = Append(Popped(1), <<ErrorNode>>) /\ Diagnose("list in a scalar position")
    /\ todo' = Tail(todo)
    /\ UNCHANGED <<vars, phase, graph, env, active, held>>

\* The end of expand_macro.
CloseMacro ==
    /\ Idle /\ Top[1] = "Close"
    /\ active' = active \ {Top[2]}
    /\ todo' = Tail(todo)
    /\ UNCHANGED <<vars, phase, graph, env, results, held, diagnostics>>

\* The first half of run: the request is a root of its own, and the scheduler
\* runs until nothing is ready.
StartRun(d, role, arguments, input) ==
    /\ work' = EnqueueInternal(work, [key |-> <<d, role, input>>, location |-> 0], 0)
    /\ running' = TRUE
    /\ held' = [state |-> "waiting", work |-> Len(work) + 1, declaration |-> d, arguments |-> arguments]
    /\ UNCHANGED <<usage, enqueued>>

\* Faulty variant: an invocation of a refused declaration is put back.
ExpandMacro_PutsBack ==
    /\ Idle /\ Top[1] = "Macro"
    /\ LET node == Top[2]
           module == Top[3]
           id == Resolve(env, graph, module, "Macro", node.annotation)
           d == env.declarations[id]
           role == ExpansionRole(d.return)
           given == ParseArguments(node.kids, d.parameters)
           key == <<id, role, StructuralText(node.kids)>>
           refused(why) == Done(<<ErrorNode>>) /\ Diagnose(why) /\ UNCHANGED <<vars, active, held>>
       IN  CASE id = 0 -> refused("unresolved")
             [] id # 0 /\ ~DeclarationVisible(env, module, id) -> refused("private")
             [] OTHER ->
                IF ~Interpreter!Lowered(d)
                THEN Goto(<<<<"Child", node, module>>>>) /\ UNCHANGED <<vars, results, active, held, diagnostics>>
                ELSE IF role # Top[4] THEN refused("position")
                ELSE IF ~given.ok THEN refused("arguments")
                ELSE IF key \in active THEN refused("cycle")
                ELSE /\ active' = active \cup {key}
                     /\ StartRun(id, role, given.values, node.kids)
                     /\ Goto(<<<<"RanMacro", node, module, role, key>>>>)
                     /\ UNCHANGED <<results, diagnostics>>
    /\ UNCHANGED <<phase, graph, env>>

\* The first half of expand_macro: everything that can be wrong with an
\* invocation, in the order of the code, then its execution.
ExpandMacro ==
    /\ Idle /\ Top[1] = "Macro"
    /\ LET node == Top[2]
           module == Top[3]
           id == Resolve(env, graph, module, "Macro", node.annotation)
           d == env.declarations[id]
           role == ExpansionRole(d.return)
           given == ParseArguments(node.kids, d.parameters)
           key == <<id, role, StructuralText(node.kids)>>
           refused(why) == Done(<<ErrorNode>>) /\ Diagnose(why) /\ UNCHANGED <<vars, active, held>>
       IN  CASE id = 0 -> refused("unresolved")
             [] id # 0 /\ ~DeclarationVisible(env, module, id) -> refused("private")
             [] OTHER ->
                IF ~Interpreter!Lowered(d)
                THEN Done(<<ErrorNode>>) /\ UNCHANGED <<vars, active, held, diagnostics>>
                ELSE IF role # Top[4] THEN refused("position")
                ELSE IF ~given.ok THEN refused("arguments")
                ELSE IF key \in active THEN refused("cycle")
                ELSE /\ active' = active \cup {key}
                     /\ StartRun(id, role, given.values, node.kids)
                     /\ Goto(<<<<"RanMacro", node, module, role, key>>>>)
                     /\ UNCHANGED <<results, diagnostics>>
    /\ UNCHANGED <<phase, graph, env>>

\* One turn of transform_definition's loop over the attributes, with the checks
\* of execute_attribute; a failing attribute leaves its target as it is.
AttributeTurn ==
    /\ Idle /\ Top[1] = "Attributes" /\ Top[3] # <<>>
    /\ LET item == Top[2]
           attachment == Head(Top[3])
           current == Top[4]
           module == Top[5]
           index == CHOOSE i \in Targets(item, current) : TRUE
           id == Resolve(env, graph, module, "Attribute", attachment.path)
           d == env.declarations[id]
           given == ParseArguments(attachment.arguments, Tail(d.parameters))
           target == <<"Syntax", DefinitionRole(item.kind), <<current[index]>>>>
           skip(why) == /\ Goto(<<<<"Attributes", item, Tail(Top[3]), current, module>>>>)
                        /\ Diagnose(why) /\ UNCHANGED <<vars, held>>
       IN  CASE Cardinality(Targets(item, current)) # 1 ->
                    /\ Goto(<<<<"Attributes", item, <<>>, current, module>>>>)
                    /\ Diagnose("no single target") /\ UNCHANGED <<vars, held>>
             [] OTHER ->
                IF id = 0 THEN skip("unresolved")
                ELSE IF ~DeclarationVisible(env, module, id) THEN skip("private")
                ELSE IF ~Interpreter!Lowered(d)
                THEN /\ Goto(<<<<"Attributes", item, Tail(Top[3]), current, module>>>>)
                     /\ UNCHANGED <<vars, held, diagnostics>>
                ELSE IF d.parameters[1].type # Ast(DefinitionRole(item.kind)) THEN skip("target type")
                ELSE IF ~given.ok THEN skip("arguments")
                ELSE /\ StartRun(id, "Attribute", <<target>> \o given.values, attachment.arguments)
                     /\ Goto(<<<<"RanAttribute", item, Tail(Top[3]), current, module, index>>>>)
                     /\ UNCHANGED diagnostics
    /\ UNCHANGED <<phase, graph, env, results, active>>

\* After the attributes: the derives of the original item, if a target is left.
StartDerives ==
    /\ Idle /\ Top[1] = "Attributes" /\ Top[3] = <<>>
    /\ LET item == Top[2]
           current == Top[4]
           first == CHOOSE i \in Targets(item, current) : \A j \in Targets(item, current) : i <= j
       IN  IF Targets(item, current) = {} THEN Goto(Expanded(current, Top[5]))
           ELSE Goto(<<<<"Derives", Attachments(item, "Derive"), current[first], <<>>, <<>>, current, Top[5]>>>>)
    /\ UNCHANGED <<vars, phase, graph, env, results, active, held, diagnostics>>

\* One turn of execute_derives; a name that resolves to nothing is a builtin.
DeriveTurn ==
    /\ Idle /\ Top[1] = "Derives" /\ Top[2] # <<>>
    /\ LET attachment == Head(Top[2])
           target == Top[3]
           module == Top[7]
           id == Resolve(env, graph, module, "Derive", attachment.path)
           d == env.declarations[id]
           next(generated, builtins) == <<"Derives", Tail(Top[2]), target, generated, builtins, Top[6], module>>
           skip(why) == Goto(<<next(Top[4], Top[5])>>) /\ Diagnose(why) /\ UNCHANGED <<vars, held>>
       IN  CASE id = 0 ->
                    /\ Goto(<<next(Top[4], Append(Top[5], Last(attachment.path)))>>)
                    /\ UNCHANGED <<vars, held, diagnostics>>
             [] OTHER ->
                IF ~DeclarationVisible(env, module, id) THEN skip("private")
                ELSE IF target.kind = "Function" THEN skip("target")
                ELSE IF ~Interpreter!Lowered(d)
                THEN Goto(<<next(Top[4], Top[5])>>) /\ UNCHANGED <<vars, held, diagnostics>>
                ELSE /\ StartRun(id, "Derive", <<<<"Syntax", DefinitionRole(target.kind), <<target>>>>>>, <<>>)
                     /\ Goto(<<<<"RanDerive", next(Top[4], Top[5]), d>>>>)
                     /\ UNCHANGED diagnostics
    /\ UNCHANGED <<phase, graph, env, results, active>>

\* Faulty variant: only the target loses its attachments.
FinishDerives_StripsTarget ==
    /\ Idle /\ Top[1] = "Derives" /\ Top[2] = <<>>
    /\ LET stripped == [i \in DOMAIN Top[6] |-> IF Top[6][i] = Top[3] THEN Stripped(Top[6][i]) ELSE Top[6][i]]
       IN  Goto(Expanded(WithBuiltins(stripped, Top[5]) \o Top[4], Top[7]))
    /\ UNCHANGED <<vars, phase, graph, env, results, active, held, diagnostics>>

\* The end of execute_derives and the rest of transform_definition: custom
\* attachments go, also those of other generated definitions; what the derives
\* returned is appended; and everything is expanded further.
FinishDerives ==
    /\ Idle /\ Top[1] = "Derives" /\ Top[2] = <<>>
    /\ LET stripped == [i \in DOMAIN Top[6] |-> Stripped(Top[6][i])]
       IN  Goto(Expanded(WithBuiltins(stripped, Top[5]) \o Top[4], Top[7]))
    /\ UNCHANGED <<vars, phase, graph, env, results, active, held, diagnostics>>

-----------------------------------------------------------------------------
(* An execution and what becomes of its value *)

GeneratedBy(value) ==
    IF value[1] # "Syntax" THEN 0
    ELSE FoldLeft(LAMBDA n, node : n + Interpreter!CountNodes(node), 0, value[3])

\* The closure of run: one execution; its value is kept before the scheduler
\* has charged its nodes.
ExecuteScheduled ==
    /\ running /\ phase = "expand"
    /\ \E id \in In("Active"),
          machine \in {Interpreter!Execute(env.declarations[held.declaration], held.arguments, TRUE)} :
          IF machine.failure = "none"
          THEN /\ Complete(id, [generated_nodes |-> GeneratedBy(machine.value),
                                invocations |-> <<>>, definitions |-> <<>>])
               /\ held' = [state |-> "value", machine |-> machine] @@ held
          ELSE /\ Fail(id)
               /\ held' = [state |-> "failed", machine |-> machine] @@ held
    /\ UNCHANGED <<phase, graph, env, todo, results, active, diagnostics>>

Ran(frame) == phase = "expand" /\ ~running /\ held # NothingHeld /\ Top[1] = frame

\* The value run returns, <<"none">> without one; an execution that failed or
\* was never started is reported.
RunValue == IF held.state = "value" THEN held.machine.value ELSE <<"none">>

\* Faulty variant: nothing is said of an execution that was never started.
RunDiagnostics_OnlyFailed == IF held.state = "failed" THEN Append(diagnostics, held.state) ELSE diagnostics
RunDiagnostics == IF held.state = "value" THEN diagnostics ELSE Append(diagnostics, held.state)

\* Faulty variant: rejected output leaves its key active.
FinishMacro_KeepsKey ==
    /\ Ran("RanMacro")
    /\ LET module == Top[3]
           role == Top[4]
           key == Top[5]
           nodes == IF RunValue[1] = "Syntax" THEN RunValue[3] ELSE <<ErrorNode>>
           frame == IF role \in {"Items", "Statements"} THEN "Child" ELSE "Node"
           declares == \E i \in DOMAIN nodes : DeclaresCompileTime(nodes[i])
       IN  IF declares
           THEN /\ Done(<<ErrorNode>>)
                /\ diagnostics' = Append(RunDiagnostics, "generated declaration")
                /\ UNCHANGED active
           ELSE /\ Goto([i \in DOMAIN nodes |-> <<frame, nodes[i], module>>]
                        \o <<<<"Join", Len(nodes)>>, <<"Close", key>>>>)
                /\ diagnostics' = RunDiagnostics
                /\ UNCHANGED <<results, active>>
    /\ held' = NothingHeld
    /\ UNCHANGED <<vars, phase, graph, env>>

\* The second half of expand_macro: the nodes are expanded in turn, with the
\* key still active.
FinishMacro ==
    /\ Ran("RanMacro")
    /\ LET module == Top[3]
           role == Top[4]
           key == Top[5]
           nodes == IF RunValue[1] = "Syntax" THEN RunValue[3] ELSE <<ErrorNode>>
           frame == IF role \in {"Items", "Statements"} THEN "Child" ELSE "Node"
           declares == \E i \in DOMAIN nodes : DeclaresCompileTime(nodes[i])
       IN  IF declares
           THEN /\ Done(<<ErrorNode>>)
                /\ diagnostics' = Append(RunDiagnostics, "generated declaration")
                /\ active' = active \ {key}
           ELSE /\ Goto([i \in DOMAIN nodes |-> <<frame, nodes[i], module>>]
                        \o <<<<"Join", Len(nodes)>>, <<"Close", key>>>>)
                /\ diagnostics' = RunDiagnostics
                /\ UNCHANGED <<results, active>>
    /\ held' = NothingHeld
    /\ UNCHANGED <<vars, phase, graph, env>>

\* The end of execute_attribute: the target is replaced by what the attribute
\* returned, if that has the right role and declares nothing.
FinishAttribute ==
    /\ Ran("RanAttribute")
    /\ LET current == Top[4]
           fits == RunValue[1] = "Syntax" /\ RunValue[2] \in {DefinitionRole(Top[2].kind), "ItemList"}
           declares == \E i \in DOMAIN RunValue[3] : DeclaresCompileTime(RunValue[3][i])
           with(nodes, why) ==
                /\ Goto(<<<<"Attributes", Top[2], Top[3], nodes, Top[5]>>>>)
                /\ diagnostics' = RunDiagnostics \o why
       IN  CASE RunValue[1] = "none" -> with(current, <<>>)
             [] RunValue[1] # "none" /\ ~fits -> with(current, <<"role">>)
             [] OTHER -> IF declares THEN with(current, <<"generated declaration">>)
                         ELSE with(Splice(current, Top[6], RunValue[3]), <<>>)
    /\ held' = NothingHeld
    /\ UNCHANGED <<vars, phase, graph, env, results, active>>

\* The end of a turn of execute_derives: implementations of the declared trait
\* for the target are taken, other nodes are reported.
FinishDerive ==
    /\ Ran("RanDerive")
    /\ LET next == Top[2]
           nodes == IF RunValue[1] = "Syntax" /\ RunValue[2] = "Implementation" THEN RunValue[3] ELSE <<>>
           taken == SelectSeq(nodes, LAMBDA n : DeriveOutputMatches(n, Top[3], next[3]))
           refused == [i \in 1..(Len(nodes) - Len(taken)) |-> "derive output"]
       IN  /\ Goto(<<[next EXCEPT ![4] = @ \o taken]>>)
           /\ diagnostics' = RunDiagnostics \o refused
    /\ held' = NothingHeld
    /\ UNCHANGED <<vars, phase, graph, env, results, active>>

Finish ==
    /\ phase = "expand" /\ todo = <<>>
    /\ phase' = "done"
    /\ UNCHANGED <<vars, graph, env, todo, results, active, held, diagnostics>>

-----------------------------------------------------------------------------
\* Either the scheduler serves the enqueues of Scheduler alone, or the engine
\* is its client.
EngineInit ==
    /\ Init
    /\ phase \in {"direct", "collect"}
    /\ IF phase = "direct" THEN graph = <<>> /\ env = <<>>
       ELSE (\E i \in DOMAIN Graphs : graph = Graphs[i]) /\ env = Collected(graph)
    /\ todo = <<>> /\ results = <<>> /\ active = {} /\ held = NothingHeld /\ diagnostics = <<>>

EngineStep ==
    \/ CollectStep \/ TransformChild \/ TransformNode \/ Assemble \/ CloseMacro
    \/ ExpandMacro \/ FinishMacro
    \/ AttributeTurn \/ FinishAttribute \/ StartDerives \/ DeriveTurn \/ FinishDerive \/ FinishDerives
    \/ ExecuteScheduled \/ Finish
    \/ phase = "expand" /\ (NextReady \/ RunReturns) /\ UNCHANGED engineVars

DirectNext == phase = "direct" /\ Next /\ UNCHANGED engineVars
DirectStep == phase = "direct" /\ Step /\ UNCHANGED engineVars

\* The engine is done, or the scheduler's client has nothing more to ask: the
\* only states in which the system may stop.
Terminated ==
    /\ phase = "done" \/ (phase = "direct" /\ enqueued = MaxEnqueued /\ ~running)
    /\ UNCHANGED allVars

EngineNext == EngineStep \/ DirectNext \/ Terminated

\* The engine is one thread that never waits: while it collects or expands it
\* takes a step.  (It always can, as the absence of deadlock shows.)
EngineFairness ==
    []<>(phase \notin {"collect", "expand"}) \/ []<><<EngineStep>>_allVars

EngineSpec == EngineInit /\ [][EngineNext]_allVars /\ EngineFairness /\ WF_allVars(DirectStep)

-----------------------------------------------------------------------------
(* Properties *)

RECURSIVE Nodes(_)
Nodes(tree) == {tree} \cup UNION {Nodes(tree.kids[i]) : i \in DOMAIN tree.kids}

\* A cycle is reported exactly for what is being expanded: the active keys are
\* those of the expansions that enclose the present point, one each, whatever
\* way an inner or an earlier expansion ended.
ActiveIsEnclosing ==
    phase = "expand" =>
        LET enclosing == {i \in DOMAIN todo : todo[i][1] \in {"Close", "RanMacro"}}
            key(i) == Last(todo[i])
        IN  /\ active = {key(i) : i \in enclosing}
            /\ Cardinality(active) = Cardinality(enclosing)

\* No error node without a word to the user: a tree in which something could
\* not be expanded is never handed on as if it were complete.
ErrorsReported ==
    (\E i \in DOMAIN results : \E j \in DOMAIN results[i] : ErrorNode \in Nodes(results[i][j]))
        => diagnostics # <<>>

\* When the engine is done every invocation that it can reach (not in a module
\* that was itself generated) has been expanded or replaced by an error, no
\* attachment is left where it was written, and nothing is still active.  The
\* graphs leave out attributes that replace their target by definitions of
\* another kind: transform_definition strips those of nothing.
RECURSIVE Reached(_)
Reached(tree) ==
    {tree} \cup UNION {Reached(tree.kids[i]) : i \in
        {j \in DOMAIN tree.kids : tree.kids[j].kind # "Module"}}
NothingLeftBehind ==
    phase = "done" =>
        /\ active = {} /\ Len(results) = Len(graph.units)
        /\ \A i \in DOMAIN results : \A node \in Reached(results[i][1]) :
              ~IsUserMacro(node) /\ Stripped(node) = node

\* The output is complete, or the user knows that it is not.
OutputSound == ErrorsReported /\ NothingLeftBehind

\* An execution that delivers a value has left every scope it opened, and the
\* meters have not changed what it computes: without them it delivers the same.
ExecutionSound ==
    held # NothingHeld /\ held.state = "value" =>
        /\ Len(held.machine.scopes) = 1
        /\ \A free \in {Interpreter!Execute(env.declarations[held.declaration], held.arguments, FALSE)} :
              free.failure = "none" /\ free.value = held.machine.value

\* The declarations an import can lead to: the least solution of following
\* bindings, where what is private stays in its package.
Leads ==
    LET import(i) == env.imports[i]
        binding(i) == Lookup(env, PathModule(env, graph, import(i).module, import(i).path),
                             import(i).namespace, Last(import(i).path))
        at(i) == PathModule(env, graph, import(i).module, import(i).path)[1]
        open(i) == \/ at(i) = import(i).module[1]
                   \/ binding(i)[1] = "declaration" /\ env.declarations[binding(i)[2]].public
                   \/ binding(i)[1] = "import" /\ import(binding(i)[2]).public
        direct == {<<i, binding(i)[2]>> : i \in {j \in DOMAIN env.imports : binding(j)[1] = "declaration"}}
        hops == {<<i, binding(i)[2]>> : i \in {j \in DOMAIN env.imports : binding(j)[1] = "import"}}
        allowed(i, d) == open(i) /\ (import(i).public => env.declarations[d].public)
                         /\ (env.declarations[d].public \/ env.declarations[d].module[1] = import(i).module[1])
        solution[n \in Nat] ==
            IF n = 0 THEN {p \in direct : allowed(p[1], p[2])}
            ELSE solution[n - 1] \cup
                 {<<pair[1][1], pair[2][2]>> : pair \in
                     {q \in hops \X solution[n - 1] : q[1][2] = q[2][1] /\ allowed(q[1][1], q[2][2])}}
    IN  solution[Len(env.imports)]

\* However imports refer to each other, in whatever order they are written and
\* also in cycles, each resolves to what its path leads to, or fails.
ImportsExact ==
    phase = "expand" /\ results = <<>> /\ Len(todo) = Len(graph.units) =>
        LET leads == Leads IN
        \A i \in DOMAIN env.imports :
            /\ env.imports[i].state \in {"Resolved", "Failed"}
            /\ {env.imports[i].target} \ {0} = {p[2] : p \in {q \in leads : q[1] = i}}

\* Generated syntax is bounded: what an execution over the budget returned is
\* not part of the program ("no partial syntax", docs/spec.md:2463).
NoPartialSyntax ==
    held # NothingHeld /\ held.state = "value" /\ ~running => work[held.work].state # "Recovered"

\* Expansion ends for every package graph, macros that expand to themselves
\* and attributes that generate their own attachment included.
ExpansionEnds == phase = "collect" ~> phase = "done"

\* Nothing runs for ever: neither a call of run nor the expansion of a graph.
WorkEnds == RunEnds /\ ExpansionEnds
=============================================================================
