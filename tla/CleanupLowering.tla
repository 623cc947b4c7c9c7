--------------------------- MODULE CleanupLowering ---------------------------
(***************************************************************************)
(* Lowering of a checked body into explicit control flow                   *)
(* (src/ir/control_flow/lower.rs), as far as ownership is concerned:       *)
(* scopes, deferred registrations, drop flags, and the cleanup every exit  *)
(* edge expands.                                                           *)
(*                                                                         *)
(* Basic blocks are laid out as one sequence of instructions, and a jump   *)
(* is the distance to its target.  break, continue, a failing pattern and  *)
(* the end of a match arm are symbolic until the construct around them     *)
(* resolves them, as the blocks they name exist before their bodies.       *)
(* Instructions, records with a field op:                                  *)
(*   new paths      a produced value in the temporary                      *)
(*   use p          a copy or a borrow of p                                *)
(*   take p, clear  the value of p in the temporary; clear these flags     *)
(*   consume        the temporary passes to a callee or to the caller      *)
(*   store p, set   the temporary becomes the value of p; set these flags  *)
(*   load p         the bits of p in the temporary, as a pattern reads it  *)
(*   borrow p, at   a new reference to p, as part `at` of the temporary    *)
(*   loadref p, at  the references at p, likewise                          *)
(*   callref sig    a call that may return a reference it was given        *)
(*   storeref p, give   the temporary's references go to p, to the caller  *)
(*   unflag fs      clear these flags                                      *)
(*   drop f         DropValue: if flag f is set, clear it and destroy      *)
(*   iterate b      the temporary becomes the collection of the loop on b  *)
(*   next b, by     the next element of that collection, or leave the loop *)
(*   dropiter b     DropIteration: destroy the elements not yet consumed   *)
(*   register d, run d   history only: a defer is reached, its body begins *)
(*   branch by, loop by, tag p by, goto by, ret, halt                      *)
(***************************************************************************)
EXTENDS MoveCheck

At(op, place) == [op |-> op, p |-> place]
Jump(op, distance) == [op |-> op, by |-> distance]

\* set_binding_drop_flags and set_place_drop_flags travel with the store or
\* the ownership use they follow.
Store(place) ==
    IF Bearing(place) THEN At("storeref", place)
    ELSE [op |-> "store", p |-> place, flags |-> MatchingFlags(place)]
Take(place)  == [op |-> "take", p |-> place, flags |-> MatchingFlags(place)]
Unflag(bindings) ==
    [op |-> "unflag", flags |-> FlattenSeq([i \in DOMAIN bindings |-> BindingFlags(bindings[i])])]

\* emit_binding_drop and emit_place_drop
EmitDrop(place) ==
    LET flags == MatchingFlags(place)
    IN  [i \in DOMAIN flags |-> [op |-> "drop", f |-> flags[i]]]

\* Every op in code that is a key of target becomes a jump to that position.
Resolve(code, target) ==
    [i \in DOMAIN code |->
        IF code[i].op \in DOMAIN target
        THEN Jump(IF code[i].op = "fail" THEN "branch" ELSE "goto", target[code[i].op] - i)
        ELSE IF code[i].op \in {"nottag", "nothing"} /\ "fail" \in DOMAIN target
        THEN [op |-> IF code[i].op = "nottag" THEN "some" ELSE "none",
              p |-> code[i].p, by |-> target["fail"] - i]
        ELSE code[i]]

\* scope_bindings and deduplicate_bindings
ScopeBindings(statements) ==
    LET lets == SelectSeq(statements, LAMBDA t : t.s = "let")
    IN  [i \in DOMAIN lets |-> lets[i].b]

Deduplicate(bindings) ==
    LET keep == {i \in DOMAIN bindings : \A j \in 1..(i - 1) : bindings[j] # bindings[i]}
    IN  [i \in 1..Cardinality(keep) |->
            bindings[CHOOSE k \in keep : Cardinality({j \in keep : j <= k}) = i]]

Terminates(stmt) == stmt.s \in {"return", "break", "continue"}

RECURSIVE LowerStatements(_, _, _), LowerStatement(_, _, _), LowerExpression(_, _, _),
          EmitCleanup(_, _)

\* lower_scope_with_bindings
LowerScope(statements, extra, scopes, base) ==
    LowerStatements(statements,
                    Append(scopes, [deferred |-> <<>>, iterators |-> <<>>,
                                    bindings |-> Deduplicate(extra \o ScopeBindings(statements))]),
                    base)

\* Faulty variant: the collection of a for loop is not registered for cleanup.
Register_DefersOnly(scopes, stmt) ==
    IF stmt.s = "defer" THEN [scopes EXCEPT ![Len(scopes)].deferred = Append(@, stmt)] ELSE scopes

\* What a statement adds to the cleanup plan of the innermost scope.
Register(scopes, stmt) ==
    CASE stmt.s = "defer" -> [scopes EXCEPT ![Len(scopes)].deferred = Append(@, stmt)]
      [] stmt.s = "for"   -> [scopes EXCEPT ![Len(scopes)].iterators = Append(@, stmt.b)]
      [] OTHER -> scopes

\* lower_statements, and the cleanup of the scope where control falls off
\* its end.
LowerStatements(statements, scopes, base) ==
    IF statements = <<>> THEN EmitCleanup(scopes, Len(scopes))
    ELSE LET code == LowerStatement(Head(statements), scopes, base)
         IN  IF Len(statements) = 1 /\ Terminates(Head(statements)) THEN code
             ELSE code \o LowerStatements(Tail(statements), Register(scopes, Head(statements)), base)

(***************************************************************************)
(* emit_cleanup: every scope from depth `from` inwards, innermost first.   *)
(* Within one scope the deferred bodies in reverse registration order,     *)
(* then the bindings in reverse order, then the iterations.  The scopes    *)
(* stay open while a deferred body is lowered again.                       *)
(***************************************************************************)
ScopeCleanup(scope, scopes) ==
    LET defers == Reverse(scope.deferred)
        bindings == Reverse(scope.bindings)
        iterators == Reverse(scope.iterators)
    IN  FlattenSeq([i \in DOMAIN defers |->
                       <<[op |-> "run", d |-> defers[i].d]>>
                       \o LowerScope(defers[i].body, <<>>, scopes, 0)])
        \o FlattenSeq([i \in DOMAIN bindings |-> EmitDrop(<<bindings[i]>>)])
        \o [i \in DOMAIN iterators |-> [op |-> "dropiter", b |-> iterators[i]]]

\* Faulty variant: enclosing scopes are cleaned up before the ones inside them.
EmitCleanup_OutermostFirst(scopes, from) ==
    FlattenSeq([i \in 1..(Len(scopes) - from + 1) |-> ScopeCleanup(scopes[from + i - 1], scopes)])

EmitCleanup(scopes, from) ==
    FlattenSeq([i \in 1..(Len(scopes) - from + 1) |->
                   ScopeCleanup(scopes[Len(scopes) - i + 1], scopes)])

\* An operand that is, or holds, a reference.
LowerReference(x, at) ==
    IF x.e \in {"borrow", "get", "lock"} THEN <<[op |-> "borrow", p |-> x.p, k |-> x.k, at |-> at]>>
    ELSE IF Bearing(x.p) THEN <<[op |-> "loadref", p |-> x.p, at |-> at]>>
    ELSE <<At("use", x.p)>>

Component(i) == <<IF i = 1 THEN "0" ELSE "1">>

(***************************************************************************)
(* lower_expression, whose value ends in the temporary with the given drop *)
(* paths.  An inner operand goes to the call it is an argument of.         *)
(***************************************************************************)
LowerExpression(x, paths, scopes) ==
    CASE x.e \in {"borrow", "get", "lock"} \/ (x.e \in {"read", "move"} /\ Bearing(x.p)) ->
            LowerReference(x, <<>>)
      [] x.e = "tuple" -> LowerReference(x.l, Component(1)) \o LowerReference(x.r, Component(2))
      [] x.e = "call" ->
            FlattenSeq([i \in DOMAIN x.args |-> LowerReference(x.args[i], Component(i))])
            \o <<[op |-> "callref", sig |-> x.sig], [op |-> "new", paths |-> paths]>>
      [] x.e = "new"  -> <<[op |-> "new", paths |-> paths]>>
      [] x.e = "read" -> <<At("use", x.p), [op |-> "new", paths |-> <<>>]>>
      [] x.e = "move" -> <<Take(x.p)>>
      [] x.e = "and"  -> LET right == LowerExpression(x.r, <<>>, scopes) \o <<[op |-> "consume"]>>
                         IN  LowerExpression(x.l, <<>>, scopes) \o <<[op |-> "consume"]>>
                             \o <<Jump("branch", Len(right) + 1)>> \o right
                             \o <<[op |-> "new", paths |-> paths]>>
      [] x.e = "try"  -> LET failed == EmitCleanup(scopes, 1) \o <<[op |-> "ret"]>>
                         IN  LowerExpression(x.x, <<>>, scopes) \o <<[op |-> "consume"]>>
                             \o <<Jump("branch", Len(failed) + 1)>> \o failed
                             \o <<[op |-> "new", paths |-> paths]>>
      [] OTHER -> <<[op |-> "halt"]>>

\* An expression whose value is passed on: an argument, a condition, or the
\* value returned, which leaves before any cleanup runs.
LowerConsumed(x, scopes) == LowerExpression(x, <<>>, scopes) \o <<[op |-> "consume"]>>

LowerReturn(x, scopes) ==
    (IF x.e \in {"borrow", "get", "call"} \/ (x.e \in {"read", "move"} /\ Bearing(x.p))
     THEN Append(LowerExpression(x, <<>>, scopes), [op |-> "give"])
     ELSE LowerConsumed(x, scopes))
    \o EmitCleanup(scopes, 1) \o <<[op |-> "ret"]>>

LowerIf(stmt, scopes, base) ==
    LET then == LowerScope(stmt.then, <<>>, scopes, base)
        else == LowerScope(stmt.else, <<>>, scopes, base)
    IN  LowerConsumed(stmt.cond, scopes) \o <<Jump("branch", Len(then) + 2)>>
        \o then \o <<Jump("goto", Len(else) + 1)>> \o else

\* The body of a loop at distance `back` after the instruction `continue`
\* goes to; break leaves just past the jump back.
LowerLoop(body, back) ==
    Resolve(Append(body, [op |-> "continue"]),
            [o \in {"break", "continue"} |-> IF o = "break" THEN Len(body) + 2 ELSE 1 - back])

LowerWhile(stmt, scopes) ==
    LET cond == LowerConsumed(stmt.cond, scopes)
        body == LowerScope(stmt.body, <<>>, scopes, Len(scopes))
    IN  cond \o <<Jump("loop", Len(body) + 2)>> \o LowerLoop(body, Len(cond) + 1)

LowerFor(stmt, scopes) ==
    LET open == Register(scopes, stmt)
        body == LowerScope(stmt.body, <<stmt.b>>, open, Len(open))
    IN  LowerExpression(stmt.x, DropActions("array"), scopes)
        \o <<[op |-> "iterate", b |-> stmt.b],
             [op |-> "next", b |-> stmt.b, by |-> Len(body) + 2, flags |-> BindingFlags(stmt.b)]>>
        \o LowerLoop(body, 1)

\* lower_pattern on the value at a place; a refutable part may fail.
LowerPattern(pat, place) ==
    CASE pat.p = "bind" -> <<At("load", place), Store(<<pat.b>>)>>
      [] pat.p = "pair" -> <<At("load", Append(place, "0")), Store(<<pat.left>>),
                             At("load", Append(place, "1")), Store(<<pat.right>>)>>
      [] pat.p = "some" -> <<At("nottag", place), At("load", Append(place, "some")),
                             Store(<<pat.b>>)>>
      [] pat.p = "none" -> <<At("nothing", place)>>
      [] pat.p = "lit"  -> <<[op |-> "fail"]>>
      [] OTHER -> <<>>

\* One arm: pattern, guard, body, jump out; then the rollback of a failed
\* match, which only clears the flags of the pattern's bindings.
LowerArm(arm, place, scopes, base) ==
    LET bindings == PatternBindings(arm.pat)
        guard == IF arm.guard.e = "none" THEN <<>>
                 ELSE LowerConsumed(arm.guard, scopes) \o <<[op |-> "fail"]>>
        test == LowerPattern(arm.pat, place) \o guard
        body == LowerScope(arm.body, bindings, scopes, base) \o <<[op |-> "endmatch"]>>
    IN  Resolve(test, [o \in {"fail"} |-> Len(test) + Len(body) + 1])
        \o body \o <<Unflag(bindings)>>

\* lower_match: the scrutinee is read in place, or held in a temporary that
\* has no drop flag.
LowerMatch(stmt, scopes, base) ==
    LET place == IF stmt.x.e = "read" THEN stmt.x.p ELSE <<stmt.temp>>
        first == IF stmt.x.e = "read" THEN <<At("use", place)>>
                 ELSE LowerExpression(stmt.x, DropActions(Shape[stmt.temp]), scopes)
                      \o <<[Store(place) EXCEPT !.flags = <<>>]>>
        arms == FlattenSeq([i \in DOMAIN stmt.arms |->
                               LowerArm(stmt.arms[i], place, scopes, base)])
    IN  first \o Resolve(arms, [o \in {"endmatch"} |-> Len(arms) + 2]) \o <<[op |-> "halt"]>>

LowerStatement(stmt, scopes, base) ==
    CASE stmt.s = "let" ->
            LowerExpression(stmt.x, DropActions(Shape[stmt.b]), scopes) \o <<Store(<<stmt.b>>)>>
      [] stmt.s = "assign" ->
            LowerExpression(stmt.x, DropActions(PlaceShape(stmt.p)), scopes)
            \o EmitDrop(stmt.p) \o <<Store(stmt.p)>>
      [] stmt.s = "expr"   -> LowerConsumed(stmt.x, scopes)
      [] stmt.s = "return" -> LowerReturn(stmt.x, scopes)
      [] stmt.s = "if"     -> LowerIf(stmt, scopes, base)
      [] stmt.s = "while"  -> LowerWhile(stmt, scopes)
      [] stmt.s = "for"    -> LowerFor(stmt, scopes)
      [] stmt.s = "match"  -> LowerMatch(stmt, scopes, base)
      [] stmt.s = "block"  -> LowerScope(stmt.body, <<>>, scopes, base)
      [] stmt.s = "defer"  -> <<[op |-> "register", d |-> stmt.d]>>
      [] stmt.s = "expect" -> LET child == LowerScope(stmt.body, <<>>, scopes, base)
                                           \o <<[op |-> "halt"]>>
                              IN  <<Jump("branch", Len(child) + 1)>> \o child
      [] stmt.s = "break"  -> EmitCleanup(scopes, base + 1) \o <<[op |-> "break"]>>
      [] stmt.s = "continue" -> EmitCleanup(scopes, base + 1) \o <<[op |-> "continue"]>>
      [] OTHER -> <<>>

\* Faulty variant: an open last block is left without its return.
LowerFunction_Unterminated(body) == LowerScope(body, Parameters, <<>>, 0)

\* FunctionLowerer::run: the parameters belong to the outermost scope.
LowerFunction(body) == LowerScope(body, Parameters, <<>>, 0) \o <<[op |-> "ret"]>>
=============================================================================
