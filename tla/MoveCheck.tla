------------------------------ MODULE MoveCheck ------------------------------
(***************************************************************************)
(* Move and definite-initialization analysis (src/check/moves.rs).         *)
(*                                                                         *)
(* A move state gives each binding a node: whether the whole place is      *)
(* available, and the projections whose state differs from it.  Spans and  *)
(* the wording of a diagnostic are left out; what is kept of a diagnostic  *)
(* is that it was reported (ok = FALSE), which rejects the program.        *)
(***************************************************************************)
EXTENDS OwnedProgram

Node(available) == [avail |-> available, kids |-> <<>>]

\* MoveState::set: a whole-place transition forgets the projections.
SetPlace(st, place, available) ==
    IF Len(place) = 1
    THEN [st EXCEPT ![place[1]] = Node(available)]
    ELSE [st EXCEPT ![place[1]].kids =
             [p \in DOMAIN @ \cup {place[2]} |->
                 IF p = place[2] THEN available ELSE @[p]]]

\* What a state says of one projection of a node.
KidAvail(node, p) ==
    IF p \in DOMAIN node.kids THEN node.kids[p] ELSE node.avail

\* Faulty variant: a place available on some path counts as available.
Join_Any(states) ==
    IF states = {} THEN {}
    ELSE {[b \in Binding |->
             LET avail == \E s \in states : s[b].avail
                 every == UNION {DOMAIN s[b].kids : s \in states}
             IN  [avail |-> avail,
                  kids |-> [p \in every |-> \E s \in states : KidAvail(s[b], p)]]]}

(***************************************************************************)
(* MoveState::join and join_nodes over a set of states: a place is         *)
(* available after a join only if it is on every path.  The result is a    *)
(* set, empty when no path arrives.                                        *)
(***************************************************************************)
Join(states) ==
    IF states = {} THEN {}
    ELSE {[b \in Binding |->
             LET avail == \A s \in states : s[b].avail
                 every == UNION {DOMAIN s[b].kids : s \in states}
                 kid(p) == \A s \in states : KidAvail(s[b], p)
             IN  [avail |-> avail,
                  kids |-> [p \in {q \in every : kid(q) # avail} |-> kid(p)]]]}

Only(states) == CHOOSE s \in states : TRUE

\* structural_children: the projections that together make up a shape.
StructuralChildren(shape) ==
    CASE shape = "pair"   -> {"0", "1"}
      [] shape = "custom" -> {"0"}
      [] OTHER -> {}

\* first_unavailable at a binding's root: no part of the value is missing.
WholeAvailable(node, shape) ==
    IF node.avail
    THEN \A p \in DOMAIN node.kids : node.kids[p]
    ELSE IF shape = "array"
         THEN DOMAIN node.kids = {"0", "1"} /\ node.kids["0"] /\ node.kids["1"]
         ELSE /\ StructuralChildren(shape) # {}
              /\ \A p \in StructuralChildren(shape) : KidAvail(node, p)

\* unavailable_cause, negated: a dynamic index asks for the whole array.
Available(st, place) ==
    LET node == st[place[1]]
    IN  IF Len(place) = 1 \/ place[2] = "dyn"
        THEN WholeAvailable(node, Shape[place[1]])
        ELSE KidAvail(node, place[2])

\* Faulty variant: a part of a value with its own Drop may be moved out.
MoveAllowed_FromCustom(st, place) ==
    /\ Len(place) > 1 => place[2] # "dyn"
    /\ Available(st, place)

\* move_place: no move through a reference, out of an unknown index, of an
\* unavailable place, or of a part of a value with its own Drop.
MoveAllowed(st, place) ==
    /\ "*" \notin Range(place)
    /\ Len(place) > 1 => place[2] # "dyn" /\ Shape[place[1]] # "custom"
    /\ Available(st, place)

MovePlace(v, place) ==
    IF MoveAllowed(v.st, place)
    THEN [v EXCEPT !.st = SetPlace(@, place, FALSE)]
    ELSE [v EXCEPT !.ok = FALSE]

RequireAvailable(v, place) == [v EXCEPT !.ok = @ /\ Available(v.st, place)]

Initialize(v, b) == [v EXCEPT !.st = SetPlace(@, <<b>>, TRUE)]

(***************************************************************************)
(* visit_expression: operands left to right, then the expression's own     *)
(* ownership use; the right operand of a short circuit may not run.        *)
(***************************************************************************)
RECURSIVE Visit(_, _)
Visit(v, x) ==
    CASE x.e \in {"read", "borrow", "get", "lock"} -> RequireAvailable(v, x.p)
      [] x.e = "move" -> MovePlace(v, x.p)
      [] x.e = "and"  -> LET left == Visit(v, x.l)
                             right == Visit(left, x.r)
                         IN  [right EXCEPT !.st = Only(Join({left.st, right.st}))]
      [] x.e = "try"  -> Visit(v, x.x)
      [] x.e = "tuple" -> Visit(Visit(v, x.l), x.r)
      [] x.e = "call" -> FoldLeft(Visit, v, x.args)
      [] OTHER -> v

\* consume_pattern_source: a wildcard and a binding both consume the place.
Consume(v, source) == IF source = <<>> THEN v ELSE MovePlace(v, source)

Project(source, p) == IF source = <<>> THEN <<>> ELSE Append(source, p)

\* apply_pattern: source is the matched place, <<>> for a temporary.
ApplyPattern(v, pat, source) ==
    CASE pat.p = "wild" -> Consume(v, source)
      [] pat.p = "bind" -> Initialize(Consume(v, source), pat.b)
      [] pat.p = "pair" -> LET left == Initialize(Consume(v, Project(source, "0")), pat.left)
                           IN  Initialize(Consume(left, Project(source, "1")), pat.right)
      [] pat.p = "some" -> Initialize(Consume(v, source), pat.b)
      [] OTHER -> v

(***************************************************************************)
(* Flow: the states that fall through, that a following unreachable        *)
(* statement is checked against, and that leave by break and continue.     *)
(***************************************************************************)
Flow(v) ==
    [normal |-> {v.st}, dead |-> {}, breaks |-> {}, continues |-> {}, ok |-> v.ok]

Leaves(v) == [Flow(v) EXCEPT !.normal = {}, !.dead = {v.st}]

\* The flows of alternative branches, joined.
JoinFlows(flows) ==
    [normal    |-> Join(UNION {f.normal : f \in flows}),
     dead      |-> Join(UNION {f.dead : f \in flows}),
     breaks    |-> UNION {f.breaks : f \in flows},
     continues |-> UNION {f.continues : f \in flows},
     ok        |-> \A f \in flows : f.ok]

Max2(a, b) == IF a > b THEN a ELSE b

TransitionBound == Max2(8, 4 * Cardinality(Binding))

Fall(flow, n) ==
    IF n.normal # {}
    THEN [n EXCEPT !.breaks = @ \cup flow.breaks, !.continues = @ \cup flow.continues,
                   !.dead = {}, !.ok = @ /\ flow.ok]
    ELSE [n EXCEPT !.breaks = @ \cup flow.breaks, !.continues = @ \cup flow.continues,
                   !.dead = IF @ # {} THEN @ ELSE flow.normal, !.ok = @ /\ flow.ok]

RECURSIVE CheckStatements(_, _), CheckStatement(_, _), CheckLoop(_, _, _, _, _)

\* check_block's loop.  Unreachable statements are checked, and their state
\* never rejoins what is reachable.
CheckStatements(flow, statements) ==
    IF statements = <<>> THEN flow
    ELSE LET next ==
               IF flow.normal # {}
               THEN Fall(flow, CheckStatement([st |-> Only(flow.normal), ok |-> TRUE],
                                              Head(statements)))
               ELSE LET n == CheckStatement([st |-> Only(flow.dead), ok |-> TRUE],
                                            Head(statements))
                    IN  [flow EXCEPT !.dead = IF n.normal # {} THEN n.normal ELSE @,
                                     !.ok = @ /\ n.ok]
         IN  CheckStatements(next, Tail(statements))

CheckBlock(v, statements) ==
    [CheckStatements(Flow(v), statements) EXCEPT !.dead = {}]

(***************************************************************************)
(* check_while and check_for: the states at the head of the loop are       *)
(* joined with the states of its back edges until they no longer change.   *)
(* The condition of a while runs between the head and the body, and once   *)
(* more before the loop is left.                                           *)
(***************************************************************************)
AtHead(loop, head) ==
    LET v == [st |-> head, ok |-> TRUE]
    IN  IF loop.s = "while" THEN Visit(v, loop.cond) ELSE v

LoopExit(v, breaks, ok) ==
    [Flow(v) EXCEPT !.normal = Join({v.st} \cup breaks), !.ok = @ /\ ok]

CheckLoop(loop, entry, head, breaks, round) ==
    LET exit == AtHead(loop, head)
        flow == CheckBlock(IF loop.s = "while" THEN exit ELSE Initialize(exit, loop.b), loop.body)
        left == breaks \cup flow.breaks
        next == Only(Join({entry} \cup Join(flow.normal \cup flow.continues)))
    IN  IF next = head THEN LoopExit(exit, left, flow.ok)
        ELSE IF round = TransitionBound THEN LoopExit(AtHead(loop, next), left, flow.ok)
        ELSE LET rest == CheckLoop(loop, entry, next, left, round + 1)
             IN  [rest EXCEPT !.ok = @ /\ flow.ok]

\* check_match: every arm starts from the state after the scrutinee.
CheckArms(v, source, arms) ==
    JoinFlows({LET bound == ApplyPattern(v, arms[i].pat, source)
               IN  CheckBlock(Visit(bound, arms[i].guard), arms[i].body) : i \in DOMAIN arms})

\* A deferred body is checked against the state at its registration, and
\* what it does to that state is discarded.
CheckDefer(v, body) == [Flow(v) EXCEPT !.ok = CheckBlock(v, body).ok]

CheckStatement(v, stmt) ==
    CASE stmt.s = "let"    -> Flow(Initialize(Visit(v, stmt.x), stmt.b))
      [] stmt.s = "assign" -> LET w == Visit(v, stmt.x)
                              IN  Flow([w EXCEPT !.st = SetPlace(@, stmt.p, TRUE)])
      [] stmt.s = "expr"   -> Flow(Visit(v, stmt.x))
      [] stmt.s = "return" -> Leaves(Visit(v, stmt.x))
      [] stmt.s = "if"     -> LET w == Visit(v, stmt.cond)
                              IN  JoinFlows({CheckBlock(w, stmt.then),
                                             CheckBlock(w, stmt.else)})
      [] stmt.s = "while"  -> CheckLoop(stmt, v.st, v.st, {}, 0)
      [] stmt.s = "for"    -> LET w == Visit(v, stmt.x)
                                  loop == CheckLoop(stmt, w.st, w.st, {}, 0)
                              IN  [loop EXCEPT !.ok = @ /\ w.ok]
      [] stmt.s = "match"  -> LET w == Visit(v, stmt.x)
                              IN  CheckArms(w, IF stmt.x.e = "read" THEN stmt.x.p ELSE <<>>,
                                            stmt.arms)
      [] stmt.s = "block"  -> CheckBlock(v, stmt.body)
      [] stmt.s = "defer"  -> CheckDefer(v, stmt.body)
      [] stmt.s = "expect" -> LET handler == CheckBlock(v, stmt.body)
                              IN  [handler EXCEPT !.normal = Join({v.st} \cup @)]
      [] stmt.s = "break"  -> [Leaves(v) EXCEPT !.breaks = {v.st}]
      [] stmt.s = "continue" -> [Leaves(v) EXCEPT !.continues = {v.st}]
      [] OTHER -> Flow(v)

\* check_function: only the parameters are initialized on entry.
EntryState == [b \in Binding |-> Node(b \in Range(Parameters))]

Accepted(body) == CheckBlock([st |-> EntryState, ok |-> TRUE], body).ok
=============================================================================
