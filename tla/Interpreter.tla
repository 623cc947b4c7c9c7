---------------------------- MODULE Interpreter ----------------------------
(***************************************************************************)
(* The interpreter of compile-time declarations                            *)
(* (src/expansion/interpreter.rs): what a declaration must look like to be *)
(* admitted, and what one metered execution of its body returns.           *)
(*                                                                         *)
(* Declaration bodies and the syntax they handle are trees of one shape,   *)
(* nodes [kind, name, kids, annotation, attached]: annotation holds the    *)
(* written type of a binding or the value of a literal, attached the       *)
(* attributes and derives of a definition.  Tokens below a node, spans and *)
(* the text of messages are left out; a parse of a quoted fragment is a    *)
(* test of which kinds of node fit its role.                               *)
(*                                                                         *)
(* An execution is a record threaded through the evaluation: its scopes,   *)
(* what it has been charged, the last value, how control left the last     *)
(* statement, and why it failed.  One unit of memory is one tree node or   *)
(* one scalar.                                                             *)
(***************************************************************************)
EXTENDS Integers, Sequences, FiniteSets, SequencesExt, TLC

CONSTANTS InterpreterSteps, LiveValueBytes   \* ExpansionLimits, per execution

Node(kind, name, kids) ==
    [kind |-> kind, name |-> name, kids |-> kids, annotation |-> <<>>, attached |-> <<>>]

-----------------------------------------------------------------------------
(* Types and roles *)

Ast(role) == <<"Ast", role>>
DefinitionRoles == {"StructDefinition", "EnumDefinition", "FunctionDefinition"}
ItemRoles == DefinitionRoles \cup {"Implementation", "InherentImplementation"}
ListRoles == {"StatementList", "MemberList", "ItemList"}
ExpandableRoles == {"Expression", "Pattern", "TypeSyntax", "StatementList", "Item", "ItemList"}

\* role_accepts_element: what push adds to a list.
RoleAccepts(list, element) ==
    \/ list = "StatementList"
    \/ list = "MemberList" /\ element \in {"FieldDefinition", "FunctionDefinition"}
    \/ list = "ItemList" /\ element \in ItemRoles \cup {"Item"}

\* element_role: the role of one node of a list.
ElementRole(list, node) ==
    CASE list = "ItemList" ->
            (CASE node.kind = "Struct" -> "StructDefinition" [] node.kind = "Enum" -> "EnumDefinition"
               [] node.kind = "Function" -> "FunctionDefinition"
               [] node.kind = "Impl" /\ node.name # "" -> "Implementation"
               [] node.kind = "Impl" /\ node.name = "" -> "InherentImplementation"
               [] OTHER -> "Item")
      [] list = "MemberList" ->
            (CASE node.kind = "Field" -> "FieldDefinition"
               [] node.kind = "Function" -> "FunctionDefinition" [] OTHER -> "MemberList")
      [] OTHER -> "StatementList"

\* value_matches_type
RECURSIVE ValueMatchesType(_, _)
ValueMatchesType(value, type) ==
    CASE value[1] = "Syntax" /\ type[1] = "Ast" ->
            value[2] = type[2] \/ (type[2] = "Item" /\ value[2] \in ItemRoles)
      [] value[1] = "Sequence" /\ type[1] = "Sequence" ->
            \A i \in DOMAIN value[2] : ValueMatchesType(value[2][i], type[2])
      [] OTHER -> value[1] = type[1] /\ value[1] \in {"Unit", "Bool", "Integer", "String"}

\* values_equal: only scalars are ever equal.
ValuesEqual(left, right) ==
    /\ left[1] = right[1]
    /\ \/ left[1] = "Unit"
       \/ left[1] \in {"Bool", "Integer", "String", "Identifier"} /\ left[2] = right[2]

RECURSIVE CountNodes(_)
CountNodes(node) == FoldLeft(LAMBDA n, kid : n + CountNodes(kid), 1, node.kids)

RECURSIVE ValueBytes(_)
ValueBytes(value) ==
    CASE value[1] = "Sequence" -> FoldLeft(LAMBDA n, v : n + ValueBytes(v), 1, value[2])
      [] value[1] = "Syntax" -> FoldLeft(LAMBDA n, v : n + CountNodes(v), 1, value[3])
      [] value[1] \in {"CallView", "MemberView"} -> 1 + CountNodes(value[2])
      [] OTHER -> 1

-----------------------------------------------------------------------------
(* Admission of a declaration: [namespace, parameters, return, body, ...], *)
(* parameters being records [name, type, variadic]                         *)

\* validate_signature
ValidSignature(d) ==
    LET parameters == d.parameters
        target == IF parameters = <<>> THEN <<"none">> ELSE parameters[1].type
    IN  /\ \A i \in DOMAIN parameters : parameters[i].variadic => i = Len(parameters)
        /\ d.namespace = "Macro" => d.return \in {Ast(r) : r \in ExpandableRoles}
        /\ d.namespace = "Attribute" =>
              /\ target \in {Ast(r) : r \in DefinitionRoles}
              /\ d.return \in {target, Ast("ItemList")}
        /\ d.namespace = "Derive" =>
              /\ Len(parameters) = 1 /\ ~parameters[1].variadic
              /\ d.return = Ast("Implementation")
              /\ target \in {Ast("StructDefinition"), Ast("EnumDefinition")}

\* validate_capabilities: no unsafe code, no defer, no closure, no call to the
\* host anywhere in the body.
RECURSIVE ValidCapabilities(_)
ValidCapabilities(node) ==
    /\ node.kind \notin {"UnsafeBlock", "DeferStatement", "ClosureExpression", "HostCall"}
    /\ \A i \in DOMAIN node.kids : ValidCapabilities(node.kids[i])

\* lower_declaration: the declarations that get a program.
Lowered(d) == ValidSignature(d) /\ ValidCapabilities(d.body)

-----------------------------------------------------------------------------
(* The machine.  E, the context of an execution, tells whether the meters  *)
(* apply (they do not in the reference execution that the properties       *)
(* compare with) and the declared return type.                             *)

Started == [scopes |-> <<<<>>>>, steps |-> 0, bytes |-> 0, value |-> <<"Unit">>,
            flow |-> "Continue", failure |-> "none"]

Fail(m) == [m EXCEPT !.failure = "error"]
Gives(m, value) == [m EXCEPT !.value = value]
Flows(m, flow) == [m EXCEPT !.flow = flow]
Running(m) == m.failure = "none"

\* step: one unit of fuel.
Step(m, E) ==
    IF ~Running(m) THEN m
    ELSE IF E.limited /\ m.steps + 1 > InterpreterSteps THEN [m EXCEPT !.failure = "InterpreterSteps"]
    ELSE [m EXCEPT !.steps = @ + 1]

\* allocate: the value counts as live from now on; nothing is ever released.
Allocate(m, E) ==
    LET total == m.bytes + ValueBytes(m.value) IN
    IF ~Running(m) THEN m
    ELSE IF E.limited /\ total > LiveValueBytes THEN [m EXCEPT !.failure = "LiveValueBytes"]
    ELSE [m EXCEPT !.bytes = total]

Push(m, scope) == [m EXCEPT !.scopes = Append(@, scope)]
Pop(m) == [m EXCEPT !.scopes = Front(@)]

\* store: the value becomes the innermost binding of the name.
Store(m, name, E) ==
    LET a == Allocate(m, E) IN
    IF ~Running(a) THEN a ELSE [a EXCEPT !.scopes[Len(a.scopes)] = (name :> a.value) @@ @]

\* The innermost scope that binds the name, or 0.
Binds(m, name) ==
    LET in == {i \in DOMAIN m.scopes : name \in DOMAIN m.scopes[i]}
    IN  IF in = {} THEN 0 ELSE CHOOSE i \in in : \A j \in in : j <= i

\* assign
Assign(m, name) ==
    IF Binds(m, name) = 0 THEN Fail(m)
    ELSE [m EXCEPT !.scopes[Binds(m, name)][name] = m.value]

-----------------------------------------------------------------------------
(* Operations on values; <<"Invalid">> stands for a failure *)

Syntax(role, nodes) == <<"Syntax", role, nodes>>

Quotient(a, b) ==
    LET q == (IF a < 0 THEN -a ELSE a) \div (IF b < 0 THEN -b ELSE b)
    IN  IF (a < 0) = (b < 0) THEN q ELSE -q

\* evaluate_unary
UnaryValue(operator, value) ==
    CASE operator = "!" /\ value[1] = "Bool" -> <<"Bool", ~value[2]>>
      [] operator = "-" /\ value[1] = "Integer" -> <<"Integer", -value[2]>>
      [] operator = "+" /\ value[1] = "Integer" -> value
      [] OTHER -> <<"Invalid">>

\* evaluate_binary, both operands evaluated.
BinaryValue(operator, left, right) ==
    LET a == left[2]  b == right[2]
        both(kind) == left[1] = kind /\ right[1] = kind
    IN  CASE operator = "==" -> <<"Bool", ValuesEqual(left, right)>>
          [] operator = "!=" -> <<"Bool", ~ValuesEqual(left, right)>>
          [] operator = "++" /\ both("Sequence") -> <<"Sequence", a \o b>>
          [] operator = "++" /\ both("Syntax") /\ a = b /\ a \in ListRoles ->
                Syntax(a, left[3] \o right[3])
          [] operator = "+" /\ both("Integer") -> <<"Integer", a + b>>
          [] operator = "-" /\ both("Integer") -> <<"Integer", a - b>>
          [] operator = "*" /\ both("Integer") -> <<"Integer", a * b>>
          [] operator = "/" /\ both("Integer") /\ b # 0 -> <<"Integer", Quotient(a, b)>>
          [] operator = "%" /\ both("Integer") /\ b # 0 -> <<"Integer", a - b * Quotient(a, b)>>
          [] operator = "<" /\ both("Integer") -> <<"Bool", a < b>>
          [] operator = "<=" /\ both("Integer") -> <<"Bool", a <= b>>
          [] operator = "&&" /\ both("Bool") -> <<"Bool", a /\ b>>
          [] operator = "||" /\ both("Bool") -> <<"Bool", a \/ b>>
          [] OTHER -> <<"Invalid">>

\* literal_syntax
LiteralSyntax(value) ==
    IF value[1] \in {"String", "Identifier", "Bool", "Integer"}
    THEN Syntax("Expression", <<[Node("Literal", "", <<>>) EXCEPT !.annotation = value]>>)
    ELSE <<"Invalid">>

\* call_intrinsic
IntrinsicValue(path, arguments) ==
    CASE path \in ListRoles /\ arguments = <<>> -> Syntax(path, <<>>)
      [] path = "literal" /\ Len(arguments) = 1 -> LiteralSyntax(arguments[1])
      [] path = "identifier" /\ Len(arguments) = 1 /\ arguments[1][1] = "String" ->
            <<"Identifier", arguments[1][2]>>
      [] OTHER -> <<"Invalid">>

Members(node) == SelectSeq(node.kids, LAMBDA kid : kid.kind \in {"Field", "Function"})
Expressions(nodes) == [i \in DOMAIN nodes |-> Syntax("Expression", <<nodes[i]>>)]

\* call_method
MethodValue(receiver, name, arguments) ==
    LET syntax(roles) == receiver[1] = "Syntax" /\ receiver[2] \in roles
        nodes == receiver[3]
        argument == arguments[1]
        given(kind) == Len(arguments) = 1 /\ argument[1] = kind
    IN  CASE name = "length" /\ arguments = <<>> /\ receiver[1] = "Sequence" ->
                <<"Integer", Len(receiver[2])>>
          [] name = "length" /\ arguments = <<>> /\ receiver[1] = "Syntax" -> <<"Integer", Len(nodes)>>
          [] name = "push" /\ receiver[1] = "Syntax" /\ given("Syntax") ->
                IF RoleAccepts(receiver[2], argument[2]) /\ Len(argument[3]) = 1
                THEN Syntax(receiver[2], nodes \o argument[3]) ELSE <<"Invalid">>
          [] name = "callee" /\ arguments = <<>> /\ receiver[1] = "CallView" ->
                Syntax("Expression", <<Head(receiver[2].kids)>>)
          [] name = "arguments" /\ arguments = <<>> /\ receiver[1] = "CallView" ->
                <<"Sequence", Expressions(Tail(receiver[2].kids))>>
          [] name = "receiver" /\ arguments = <<>> /\ receiver[1] = "MemberView" ->
                Syntax("Expression", <<Head(receiver[2].kids)>>)
          [] name = "name" /\ arguments = <<>> /\ receiver[1] = "MemberView" ->
                <<"Identifier", receiver[2].name>>
          [] name = "members" /\ arguments = <<>> /\ syntax({"StructDefinition", "EnumDefinition"}) ->
                Syntax("MemberList", Members(nodes[1]))
          [] name = "fields" /\ arguments = <<>> /\ syntax({"StructDefinition"}) ->
                Syntax("MemberList", SelectSeq(Members(nodes[1]), LAMBDA n : n.kind = "Field"))
          [] name = "type_syntax" /\ arguments = <<>> /\ syntax({"StructDefinition", "EnumDefinition"}) ->
                Syntax("TypeSyntax", <<Node("Type", nodes[1].name, <<>>)>>)
          [] name = "with_name" /\ given("Identifier") /\ syntax(DefinitionRoles) ->
                Syntax(receiver[2], <<[nodes[1] EXCEPT !.name = argument[2]]>>)
          [] name = "with_members" /\ given("Syntax") /\ syntax({"StructDefinition", "EnumDefinition"}) ->
                IF /\ argument[2] = "MemberList"
                   /\ syntax({"StructDefinition"}) =>
                        \A i \in DOMAIN argument[3] : argument[3][i].kind = "Field"
                THEN Syntax(receiver[2], <<[nodes[1] EXCEPT !.kids = argument[3]]>>)
                ELSE <<"Invalid">>
          [] OTHER -> <<"Invalid">>

-----------------------------------------------------------------------------
(* Quotes *)

\* The kinds of node a fragment of each role may consist of.  A macro
\* invocation parses in every position but that of a member.
FragmentKinds(role) ==
    CASE role = "Expression" -> {"Name", "Literal", "Call", "Member", "Tuple", "Binary", "Macro"}
      [] role = "Pattern" -> {"Pattern", "Macro"}
      [] role = "TypeSyntax" -> {"Type", "Macro"}
      [] role = "StatementList" -> {"ExpressionStatement", "Let", "Return", "Macro"}
      [] role \in {"MemberList", "FieldDefinition"} -> {"Field", "Function"}
      [] OTHER -> {"Struct", "Enum", "Function", "Impl", "Use", "Macro", "MacroDeclaration"}

\* append_interpolation_tokens: the nodes a value contributes; only syntax,
\* identifiers and sequences of them may be interpolated.
RECURSIVE Interpolable(_), Interpolated(_)
Interpolable(value) ==
    \/ value[1] \in {"Syntax", "Identifier"}
    \/ value[1] = "Sequence" /\ \A i \in DOMAIN value[2] : Interpolable(value[2][i])
Interpolated(value) ==
    CASE value[1] = "Syntax" -> value[3]
      [] value[1] = "Identifier" -> <<Node("Name", value[2], <<>>)>>
      [] OTHER -> FlattenSeq([i \in DOMAIN value[2] |-> Interpolated(value[2][i])])

\* Whether the spliced tokens parse as one fragment of the role.
Parses(nodes, role) ==
    /\ \A i \in DOMAIN nodes : nodes[i].kind \in FragmentKinds(role)
    /\ role \notin ListRoles => Len(nodes) = 1

-----------------------------------------------------------------------------
(* Patterns *)

\* The payload a variant pattern selects from the syntax of an expression.
Payload(variant, value) ==
    LET node == Head(value[3])
        isA(kind) == value[1] = "Syntax" /\ value[2] = "Expression" /\ value[3] # <<>> /\ node.kind = kind
    IN  CASE variant = "Call" /\ isA("Call") -> <<"CallView", node>>
          [] variant = "Identifier" /\ isA("Name") -> value
          [] variant = "Literal" /\ isA("Literal") -> value
          [] variant = "Member" /\ isA("Member") -> <<"MemberView", node>>
          [] variant = "Tuple" /\ isA("Tuple") -> <<"Sequence", Expressions(node.kids)>>
          [] OTHER -> <<"Invalid">>

\* pattern_matches: whether the pattern matches, and the bindings, to which a
\* failed alternative has already added its own.
RECURSIVE PatternMatches(_, _, _)
PatternMatches(pattern, value, bindings) ==
    CASE pattern.kind = "AlternativePattern" ->
            FoldLeft(LAMBDA found, p : IF found.ok THEN found ELSE PatternMatches(p, value, found.bindings),
                     [ok |-> FALSE, bindings |-> bindings], pattern.kids)
      [] pattern.kind = "VariantPattern" ->
            LET payload == Payload(pattern.name, value)
                matched == payload # <<"Invalid">>
            IN  IF matched /\ pattern.kids # <<>>
                THEN PatternMatches(pattern.kids[1], payload, bindings)
                ELSE [ok |-> matched, bindings |-> bindings]
      [] OTHER -> [ok |-> TRUE,
                   bindings |-> IF pattern.name = "_" THEN bindings
                                ELSE (pattern.name :> value) @@ bindings]

-----------------------------------------------------------------------------
(* Evaluation and execution *)

NoType == <<"none">>

\* One task of the evaluation: an expression, a block, a loop or the arms of a
\* match.  The operators below take each other's results through it.
RECURSIVE Run(_, _, _)

\* The values of some expressions, left to right, after those in m.
EvaluateAll(nodes, m, E) ==
    LET one == Run(<<"Expression", Head(nodes), NoType>>, m, E) IN
    IF nodes = <<>> THEN m
    ELSE IF ~Running(one) THEN one
    ELSE Run(<<"All", Tail(nodes)>>, Gives(one, <<"Sequence", Append(m.value[2], one.value)>>), E)

All(nodes, m, E) == Run(<<"All", nodes>>, Gives(m, <<"Sequence", <<>>>>), E)

\* The machine after an operation on the value just computed.
Delivers(m, value) == IF value = <<"Invalid">> THEN Fail(m) ELSE Gives(m, value)

\* evaluate_call: the arguments before the receiver.
EvaluateCall(node, m, E) ==
    LET callee == node.kids[1]
        given == All(Tail(node.kids), m, E)
        on == Run(<<"Expression", callee.kids[1], NoType>>, given, E)
    IN  IF ~Running(given) THEN given
        ELSE IF callee.kind = "Path" THEN Delivers(given, IntrinsicValue(callee.name, given.value[2]))
        ELSE IF callee.kind # "Member" THEN Fail(given)
        ELSE IF ~Running(on) THEN on
        ELSE Delivers(on, MethodValue(on.value, callee.name, given.value[2]))

\* The value of a hole: that of its expression, or what its name is bound to.
HoleValue(part, m, E) ==
    IF part.kids # <<>> THEN Run(<<"Expression", part.kids[1], NoType>>, m, E)
    ELSE IF Binds(m, part.name) = 0 THEN Fail(m)
    ELSE Gives(m, m.scopes[Binds(m, part.name)][part.name])

\* evaluate_quote: the holes filled from left to right, after the nodes that
\* are already there, then one parse.
EvaluateQuote(parts, role, m, E) ==
    LET part == Head(parts)
        hole == HoleValue(part, m, E)
        rest(next) == Run(<<"Quote", Tail(parts), role>>, next, E)
    IN  IF parts = <<>> THEN IF Parses(m.value, role) THEN Gives(m, Syntax(role, m.value)) ELSE Fail(m)
        ELSE IF part.kind # "Hole" THEN rest(Gives(m, Append(m.value, part)))
        ELSE IF ~Running(hole) THEN hole
        ELSE IF ~Interpolable(hole.value) THEN Fail(hole)
        ELSE rest(Gives(hole, m.value \o Interpolated(hole.value)))

\* evaluate: a step, the value, and its bytes.
Evaluate(node, expected, m, E) ==
    LET s == Step(m, E)
        kids == All(node.kids, s, E)
        values == kids.value[2]
        first == Run(<<"Expression", node.kids[1], NoType>>, s, E)
        binds == Binds(s, node.name)
        result ==
            CASE node.kind = "Literal" -> Gives(s, node.annotation)
              [] node.kind = "Name" ->
                    IF binds = 0 THEN Fail(s) ELSE Gives(s, s.scopes[binds][node.name])
              [] node.kind = "Parenthesized" -> Run(<<"Expression", node.kids[1], expected>>, s, E)
              [] node.kind \in {"Tuple", "Array"} -> kids
              [] node.kind = "Unary" ->
                    IF Running(first) THEN Delivers(first, UnaryValue(node.name, first.value)) ELSE first
              [] node.kind = "Binary" ->
                    IF Running(kids) THEN Delivers(kids, BinaryValue(node.name, values[1], values[2]))
                    ELSE kids
              [] node.kind = "Call" -> EvaluateCall(node, s, E)
              [] node.kind = "Member" ->
                    IF Running(first) THEN Delivers(first, MethodValue(first.value, node.name, <<>>))
                    ELSE first
              [] node.kind = "Quote" ->
                    IF expected[1] = "Ast" THEN Run(<<"Quote", node.kids, expected[2]>>, Gives(s, <<>>), E) ELSE Fail(s)
              [] node.kind = "Formatted" ->
                    IF Running(kids) THEN Gives(kids, <<"String", node.name>>) ELSE kids
              [] OTHER -> Fail(s)
    IN  IF Running(s) THEN Allocate(result, E) ELSE s

\* A condition: its machine, failed when the value is no bool.
Condition(node, m, E) ==
    LET c == Run(<<"Expression", node, <<"Bool">>>>, m, E)
    IN  IF Running(c) /\ c.value[1] # "Bool" THEN Fail(c) ELSE c

\* The statements of a block, until control leaves it.
ExecuteAll(statements, m, E) ==
    LET one == Run(<<"Statement", Head(statements)>>, m, E) IN
    IF statements = <<>> \/ ~Running(m) \/ m.flow # "Continue" THEN m
    ELSE Run(<<"Statements", Tail(statements)>>, one, E)

\* Faulty variant: the scope stays when control leaves the block early.
ExecuteBlock_KeepsScope(block, m, E) ==
    LET s == Step(m, E)
        run == Run(<<"Statements", block.kids>>, Flows(Push(s, <<>>), "Continue"), E)
    IN  IF ~Running(s) THEN s
        ELSE IF Running(run) /\ run.flow = "Continue" THEN Pop(run) ELSE run

\* execute_block: a scope of its own, left as soon as control leaves.
ExecuteBlock(block, m, E) ==
    LET s == Step(m, E)
        run == Run(<<"Statements", block.kids>>, Flows(Push(s, <<>>), "Continue"), E)
    IN  IF ~Running(s) THEN s ELSE IF Running(run) THEN Pop(run) ELSE run

\* The flow of a loop after one turn of its body.
Turned(m) == IF m.flow \in {"Continue", "LoopContinue"} THEN Flows(m, "Continue") ELSE m
Ended(m) == IF m.flow = "Break" THEN Flows(m, "Continue") ELSE m

\* execute_while
ExecuteWhile(node, m, E) ==
    LET s == Step(m, E)
        c == Condition(node.kids[1], s, E)
        body == Turned(Run(<<"Block", node.kids[2]>>, c, E))
    IN  IF ~Running(s) THEN s
        ELSE IF ~Running(c) THEN c
        ELSE IF ~c.value[2] THEN Flows(c, "Continue")
        ELSE IF Running(body) /\ body.flow = "Continue" THEN Run(<<"While", node>>, body, E)
        ELSE Ended(body)

\* execute_for, over the values that are left.
ExecuteFor(node, values, m, E) ==
    LET s == Step(m, E)
        bound == Store(Gives(Push(s, <<>>), Head(values)), node.name, E)
        body == Run(<<"Block", node.kids[2]>>, bound, E)
        turned == Turned(Pop(body))
    IN  IF values = <<>> THEN Flows(m, "Continue")
        ELSE IF ~Running(s) THEN s
        ELSE IF ~Running(bound) THEN bound
        ELSE IF ~Running(body) THEN body
        ELSE IF turned.flow = "Continue" THEN Run(<<"For", node, Tail(values)>>, turned, E)
        ELSE Ended(turned)

\* execute_match, over the arms that are left.  An arm's kids are its pattern,
\* its guard if it has one, and its block.
ExecuteArms(arms, value, m, E) ==
    LET arm == Head(arms)
        found == PatternMatches(arm.kids[1], value, <<>>)
        inside == Push(m, found.bindings)
        guarded == Len(arm.kids) = 3
        guard == Condition(arm.kids[2], inside, E)
        body == Run(<<"Block", Last(arm.kids)>>, IF guarded THEN guard ELSE inside, E)
    IN  IF arms = <<>> THEN Fail(m)
        ELSE IF ~found.ok THEN Run(<<"Arms", Tail(arms), value>>, m, E)
        ELSE IF guarded /\ ~Running(guard) THEN guard
        ELSE IF guarded /\ ~guard.value[2] THEN Run(<<"Arms", Tail(arms), value>>, Pop(guard), E)
        ELSE IF Running(body) THEN Pop(body) ELSE body

\* execute_statement, with execute_if and the parts of for and match that
\* come before the loop.
ExecuteStatement(node, m, E) ==
    LET s == Step(m, E)
        typed(expected) == Run(<<"Expression", node.kids[1], expected>>, s, E)
        value == typed(NoType)
        expected == IF node.annotation = <<>> THEN NoType ELSE node.annotation
        let == typed(expected)
        c == Condition(node.kids[1], s, E)
        elements ==
            CASE value.value[1] = "Sequence" -> value.value[2]
              [] OTHER -> [i \in DOMAIN value.value[3] |->
                    Syntax(ElementRole(value.value[2], value.value[3][i]), <<value.value[3][i]>>)]
        iterable == \/ value.value[1] = "Sequence"
                    \/ value.value[1] = "Syntax" /\ value.value[2] \in ListRoles
    IN  CASE ~Running(s) -> s
          [] Running(s) /\ node.kind = "Pass" -> s
          [] Running(s) /\ node.kind = "Let" ->
                IF ~Running(let) THEN let
                ELSE IF expected # NoType /\ ~ValueMatchesType(let.value, expected) THEN Fail(let)
                ELSE Store(let, node.name, E)
          [] Running(s) /\ node.kind = "Assignment" ->
                IF Running(value) THEN Assign(value, node.name) ELSE value
          [] Running(s) /\ node.kind = "ExpressionStatement" -> value
          [] Running(s) /\ node.kind = "Return" ->
                IF node.kids = <<>> THEN Flows(Gives(s, <<"Unit">>), "Return")
                ELSE LET r == typed(E.return) IN IF Running(r) THEN Flows(r, "Return") ELSE r
          [] Running(s) /\ node.kind = "Break" -> Flows(s, "Break")
          [] Running(s) /\ node.kind = "Continue" -> Flows(s, "LoopContinue")
          [] Running(s) /\ node.kind = "If" ->
                IF ~Running(c) THEN c
                ELSE IF c.value[2] THEN Run(<<"Block", node.kids[2]>>, c, E)
                ELSE IF Len(node.kids) = 3 THEN Run(<<"Block", node.kids[3]>>, c, E) ELSE c
          [] Running(s) /\ node.kind = "While" -> Run(<<"While", node>>, s, E)
          [] Running(s) /\ node.kind = "For" ->
                IF ~Running(value) THEN value
                ELSE IF iterable THEN Run(<<"For", node, elements>>, value, E) ELSE Fail(value)
          [] Running(s) /\ node.kind = "Match" ->
                IF Running(value) THEN Run(<<"Arms", Tail(node.kids), value.value>>, value, E) ELSE value
          [] OTHER -> Fail(s)

Run(task, m, E) ==
    CASE task[1] = "Expression" -> Evaluate(task[2], task[3], m, E)
      [] task[1] = "All" -> EvaluateAll(task[2], m, E)
      [] task[1] = "Quote" -> EvaluateQuote(task[2], task[3], m, E)
      [] task[1] = "Statements" -> ExecuteAll(task[2], m, E)
      [] task[1] = "Block" -> ExecuteBlock(task[2], m, E)
      [] task[1] = "Statement" -> ExecuteStatement(task[2], m, E)
      [] task[1] = "While" -> ExecuteWhile(task[2], m, E)
      [] task[1] = "For" -> ExecuteFor(task[2], task[3], m, E)
      [] task[1] = "Arms" -> ExecuteArms(task[2], task[3], m, E)

\* bind_arguments: one value for each fixed parameter, the rest as a sequence.
BindArguments(d, arguments, E) ==
    LET parameters == d.parameters
        variadic == parameters # <<>> /\ Last(parameters).variadic
        fixed == IF variadic THEN Len(parameters) - 1 ELSE Len(parameters)
        given(i) == IF parameters[i].variadic
                    THEN <<"Sequence", SubSeq(arguments, i, Len(arguments))>> ELSE arguments[i]
        bind(m, i) ==
            IF ~Running(m) THEN m
            ELSE IF ~ValueMatchesType(given(i), parameters[i].type) THEN Fail(m)
            ELSE Store(Gives(m, given(i)), parameters[i].name, E)
    IN  IF Len(arguments) < fixed \/ (~variadic /\ Len(arguments) # fixed) THEN Fail(Started)
        ELSE FoldLeft(bind, Started, [i \in DOMAIN parameters |-> i])

\* The machine after a body has been run: what it returned, if that is what
\* was declared.
Returned(m, type) ==
    LET result == IF m.flow = "Return" THEN m.value ELSE <<"Unit">> IN
    IF ~Running(m) THEN m
    ELSE IF (m.flow # "Return" /\ type # <<"Unit">>) \/ ~ValueMatchesType(result, type) THEN Fail(m)
    ELSE Gives(m, result)

\* execute: the machine at the end of one execution of a declaration.
Execute(d, arguments, limited) ==
    LET E == [limited |-> limited, return |-> d.return]
    IN  Returned(Run(<<"Block", d.body>>, BindArguments(d, arguments, E), E), d.return)
=============================================================================
