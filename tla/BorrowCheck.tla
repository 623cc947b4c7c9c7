----------------------------- MODULE BorrowCheck -----------------------------
(***************************************************************************)
(* Borrow provenance and non-lexical loans (src/check/borrows.rs).         *)
(*                                                                         *)
(* A state holds the loans made so far, by the expression that made them,  *)
(* and the provenance of the value in each binding.  Provenance is kept    *)
(* by path, so that the parts of an aggregate keep loans of their own.     *)
(* Liveness is solved backwards, accesses are checked forwards against     *)
(* the loans some live binding still depends on.                           *)
(*                                                                         *)
(* The expressions of OwnedProgram gain                                    *)
(*   borrow p, k, id  &p or &var p (k is "shared" or "exclusive")          *)
(*   get p, k, id     Store.get and Shared.get, a view into p              *)
(*   lock p           Mutex.lock, a guard that depends on p                *)
(*   tuple l, r       an aggregate of two references                       *)
(*   call args, sig   a call that may return one of its arguments' borrows *)
(* A reference is a binding of shape "ref", and <<r, "*">> what it refers  *)
(* to; "refs" is a tuple of two references.                                *)
(***************************************************************************)
EXTENDS OwnedProgram

CONSTANTS
    Signature,  \* the checked function's own signature
    Loans       \* the expressions of the program that make a loan

-----------------------------------------------------------------------------
(* Provenance signatures *)

\* infer_provenance_signatures: the argument positions a result may borrow
\* from.  A borrow-bearing receiver wins over ordinary parameters.
Candidates(sig) ==
    IF sig.method /\ sig.bearing[1] THEN {1} ELSE {i \in DOMAIN sig.bearing : sig.bearing[i]}

Ambiguous(sig) == sig.result /\ ~sig.standard /\ Cardinality(Candidates(sig)) > 1

ReturnedFrom(sig) ==
    IF ~sig.result THEN {}
    ELSE IF sig.standard /\ Cardinality(Candidates(sig)) > 1 THEN DOMAIN sig.bearing
    ELSE Candidates(sig)

-----------------------------------------------------------------------------
(* Origins and provenance by path *)

NoOrigins == [loans |-> {}, inputs |-> {}, locals |-> {}]

Merge(origins) ==
    [loans  |-> UNION {o.loans : o \in origins},
     inputs |-> UNION {o.inputs : o \in origins},
     locals |-> UNION {o.locals : o \in origins}]

Unborrowed == [path \in {} |-> NoOrigins]
Scalar(origins) == IF origins = NoOrigins THEN Unborrowed ELSE [path \in {<<>>} |-> origins]

Union2(v, w) ==
    [path \in DOMAIN v \cup DOMAIN w |->
        Merge({f[path] : f \in {g \in {v, w} : path \in DOMAIN g}})]

Prefixed(v, p) == [path \in {<<p>> \o q : q \in DOMAIN v} |-> v[Tail(path)]]

\* projected: select one component and strip it.  A scalar reference is
\* dereferenced by any projection and keeps its origins.
Projected(v, p) ==
    LET kept == {q \in DOMAIN v : q = <<>> \/ Head(q) = p}
        strip(q) == IF q = <<>> THEN <<>> ELSE Tail(q)
    IN  [path \in {strip(q) : q \in kept} |-> Merge({v[q] : q \in {k \in kept : strip(k) = path}})]

AllOrigins(v) == Merge({v[q] : q \in DOMAIN v})

-----------------------------------------------------------------------------
(* States *)

Start(inputs) ==
    [loans  |-> [id \in {} |-> {}],
     values |-> [b \in Binding |->
                    IF b \in inputs THEN Scalar([NoOrigins EXCEPT !.inputs = {b}]) ELSE Unborrowed]]

\* BorrowState::join: provenance is united; of two loans made by the same
\* expression the later one is kept.
JoinTwo(a, b) ==
    [loans  |-> [id \in DOMAIN a.loans \cup DOMAIN b.loans |->
                    IF id \in DOMAIN b.loans THEN b.loans[id] ELSE a.loans[id]],
     values |-> [v \in Binding |-> Union2(a.values[v], b.values[v])]]

JoinAll(states) ==
    IF states = <<>> THEN <<>> ELSE <<FoldLeft(JoinTwo, Head(states), Tail(states))>>

RECURSIVE StoredAt(_, _)

\* The provenance stored at a place, or at the reference it goes through.
StoredAt(v, projections) ==
    IF projections = <<>> \/ Head(projections) = "*" THEN v
    ELSE StoredAt(Projected(v, Head(projections)), Tail(projections))

Stored(st, place) == StoredAt(st.values[Head(place)], Tail(place))

Min2(a, b) == IF a < b THEN a ELSE b

ThroughReference(place) == "*" \in Range(place)

\* authorized_loans: the loans a place may use because it goes through the
\* reference that holds them.
Authorized(st, place) ==
    IF ThroughReference(place) THEN AllOrigins(Stored(st, place)).loans ELSE {}

\* OwnershipPlace::overlap is Disjoint.
Disjoint(p, q) ==
    IF p[1] # q[1] THEN ~ThroughReference(p) /\ ~ThroughReference(q)
    ELSE \E i \in 2..Min2(Len(p), Len(q)) :
            /\ p[i] # q[i] /\ {p[i], q[i]} \cap {"dyn", "*"} = {}
            /\ \A j \in 2..(i - 1) : p[j] = q[j]

\* Faulty variant: only the loans made in the same statement count.
ActiveLoans_Ephemeral(v, live) == v.eph

\* active_loans: those a live binding depends on, and those the statement at
\* hand has made.
ActiveLoans(v, live) ==
    v.eph \cup UNION {AllOrigins(v.st.values[b]).loans : b \in live}

Conflicts(loan, access) == loan.kind = "exclusive" \/ access \notin {"read", "shared"}

\* check_access.  An access through a reference is an access to what its
\* loans were made of.
CheckAccess(v, place, access, live) ==
    LET mine == Authorized(v.st, place)
        through == UNION {v.st.loans[id].places : id \in mine \cap DOMAIN v.st.loans}
        targets == IF through = {} THEN {place} ELSE through
        others == (ActiveLoans(v, live) \ mine) \cap DOMAIN v.st.loans
    IN  [v EXCEPT !.ok = @ /\ \A id \in others :
            LET loan == v.st.loans[id]
            IN  (\A p \in loan.places, t \in targets : Disjoint(p, t)) \/ ~Conflicts(loan, access)]

\* Every loan is made by an expression collect_borrow_spans has numbered;
\* the span of a Mutex.lock is not among them.
Tracked(x) == x.e \in {"borrow", "get"}

IsReborrow(x) == x.e = "borrow" /\ PlaceShape(x.p) = "ref"

\* origins_for_borrow: through existing storage the origins found there,
\* otherwise the storage of a local as well.
BorrowOrigins(st, x) ==
    LET found == AllOrigins(Stored(st, x.p))
    IN  IF IsReborrow(x) \/ ThroughReference(x.p) THEN found
        ELSE [found EXCEPT !.locals = @ \cup {x.p[1]}]

\* create_loan
CreateLoan(v, x, live) ==
    LET w == CheckAccess(v, x.p, x.k, live)
        referents == UNION {v.st.loans[id].places :
                               id \in Authorized(v.st, x.p) \cap DOMAIN v.st.loans}
        places == IF IsReborrow(x) /\ referents # {} THEN referents ELSE {x.p}
        loan == [places |-> places, kind |-> x.k]
        origins == BorrowOrigins(v.st, x)
    IN  IF ~Tracked(x) THEN [w EXCEPT !.prov = Scalar(origins)]
        ELSE [w EXCEPT !.st.loans = [id \in DOMAIN @ \cup {x.id} |->
                                        IF id = x.id THEN loan ELSE @[id]],
                       !.eph = @ \cup {x.id},
                       !.prov = Scalar([origins EXCEPT !.loans = @ \cup {x.id}])]

-----------------------------------------------------------------------------
(* Expressions *)

RECURSIVE VisitBorrows(_, _, _), VisitArguments(_, _, _, _)

\* visit_expression.  A value whose type holds no borrow has no provenance.
VisitBorrows(v, x, live) ==
    CASE x.e \in {"read", "move"} ->
            LET held == FoldLeft(Projected, v.st.values[Head(x.p)], Tail(x.p))
                w == [CheckAccess(v, x.p, IF x.e = "move" THEN "write" ELSE "read", live)
                        EXCEPT !.prov = IF Bearing(x.p) THEN held ELSE Unborrowed]
            IN  IF x.e = "move" /\ Len(x.p) = 1
                THEN [w EXCEPT !.st.values[x.p[1]] = Unborrowed] ELSE w
      [] x.e = "borrow" -> CreateLoan(v, x, live)
      [] x.e \in {"get", "lock"} ->
            LET w == CheckAccess(v, x.p, "read", live)
            IN  CreateLoan(IF x.k = "exclusive" THEN CheckAccess(w, x.p, "write", live) ELSE w,
                           x, live)
      [] x.e = "tuple" ->
            LET l == VisitBorrows(v, x.l, live)
                r == VisitBorrows(l, x.r, live)
            IN  [r EXCEPT !.prov = Union2(Prefixed(l.prov, "0"), Prefixed(r.prov, "1"))]
      [] x.e = "and" ->
            LET l == VisitBorrows(v, x.l, live)
                r == VisitBorrows(l, x.r, live)
            IN  [r EXCEPT !.st = JoinTwo(l.st, r.st), !.prov = Unborrowed]
      [] x.e = "try" -> [VisitBorrows(v, x.x, live) EXCEPT !.prov = Unborrowed]
      [] x.e = "call" -> VisitArguments([v EXCEPT !.prov = Unborrowed], x, 1, live)
      [] OTHER -> [v EXCEPT !.prov = Unborrowed]

\* The arguments of a call in order: the loans of each stay active until the
\* call.  call_result_provenance unites the ones the callee may return.
VisitArguments(v, x, i, live) ==
    IF i > Len(x.args) THEN v
    ELSE LET w == VisitBorrows(v, x.args[i], live)
         IN  VisitArguments(
                 [w EXCEPT !.eph = @ \cup AllOrigins(w.prov).loans,
                           !.prov = IF i \in ReturnedFrom(x.sig) THEN Union2(v.prov, w.prov)
                                    ELSE v.prov],
                 x, i + 1, live)

-----------------------------------------------------------------------------
(* Liveness *)

RECURSIVE Uses(_), LiveIn(_, _), LiveSeq(_, _), LiveArms(_, _), LoopLive(_, _), Mentions(_)

\* expression_uses: a borrowed place counts as a use of its root only where
\* it goes through a reference.
Uses(x) ==
    CASE x.e \in {"read", "move", "get", "lock"} -> {x.p[1]}
      [] x.e = "borrow" -> IF ThroughReference(x.p) THEN {x.p[1]} ELSE {}
      [] x.e \in {"and", "tuple"} -> Uses(x.l) \cup Uses(x.r)
      [] x.e = "try"  -> Uses(x.x)
      [] x.e = "call" -> UNION {Uses(x.args[i]) : i \in DOMAIN x.args}
      [] OTHER -> {}

\* walk_statements over a deferred body.
Mentions(statements) ==
    UNION {LET t == statements[i]
           IN  CASE t.s \in {"let", "expr", "return"} -> Uses(t.x)
                 [] t.s = "assign" ->
                        Uses(t.x) \cup (IF ThroughReference(t.p) THEN {t.p[1]} ELSE {})
                 [] t.s = "if" -> Uses(t.cond) \cup Mentions(t.then) \cup Mentions(t.else)
                 [] t.s = "while" -> Uses(t.cond) \cup Mentions(t.body)
                 [] t.s = "for" -> Uses(t.x) \cup Mentions(t.body)
                 [] t.s = "match" -> Uses(t.x) \cup UNION {Uses(t.arms[j].guard)
                                        \cup Mentions(t.arms[j].body) : j \in DOMAIN t.arms}
                 [] t.s \in {"block", "defer", "expect"} -> Mentions(t.body)
                 [] OTHER -> {} : i \in DOMAIN statements}

\* Deferred bodies run at scope exit, so what they mention stays live.
Deferred(statements) ==
    UNION {IF statements[i].s = "defer" THEN Mentions(statements[i].body) ELSE {} :
              i \in DOMAIN statements}

LiveSeq(statements, out) ==
    IF statements = <<>> THEN out
    ELSE LiveIn(Head(statements), LiveSeq(Tail(statements), out))

LiveBlock(statements, out) == LiveSeq(statements, out \cup Deferred(statements))

\* The fixed point of a loop: what its body and its condition need.
LoopLive(loop, live) ==
    LET bound == IF loop.s = "for" THEN {loop.b} ELSE {}
        next == live \cup LiveBlock(loop.body, live \ bound)
                     \cup Uses(IF loop.s = "for" THEN loop.x ELSE loop.cond)
    IN  IF next = live THEN live ELSE LoopLive(loop, next)

\* Each arm sees what the arms before it need as well.
LiveArms(arms, live) ==
    IF arms = <<>> THEN live
    ELSE LiveArms(Tail(arms), live \cup LiveBlock(Head(arms).body, live) \cup Uses(Head(arms).guard))

\* liveness_statement
LiveIn(t, out) ==
    CASE t.s = "let" -> (out \ {t.b}) \cup Uses(t.x)
      [] t.s = "assign" ->
            (IF Len(t.p) = 1 THEN out \ {t.p[1]} ELSE out \cup {t.p[1]}) \cup Uses(t.x)
      [] t.s \in {"expr", "return"} -> out \cup Uses(t.x)
      [] t.s = "if" -> out \cup LiveBlock(t.then, out) \cup LiveBlock(t.else, out) \cup Uses(t.cond)
      [] t.s \in {"while", "for"} -> LoopLive(t, out)
      [] t.s = "match" -> LiveArms(t.arms, out) \cup Uses(t.x)
      [] t.s \in {"block", "defer"} -> LiveBlock(t.body, out)
      [] t.s = "expect" -> out \cup LiveBlock(t.body, out)
      [] OTHER -> out

-----------------------------------------------------------------------------
(* Statements *)

Normal(v) == [normal |-> <<v.st>>, breaks |-> <<>>, continues |-> <<>>, ok |-> v.ok]
NoFlow(ok) == [normal |-> <<>>, breaks |-> <<>>, continues |-> <<>>, ok |-> ok]

\* The flows of alternatives that start in the same state.
JoinBranches(flows) ==
    [normal    |-> JoinAll(FlattenSeq([i \in DOMAIN flows |-> flows[i].normal])),
     breaks    |-> FlattenSeq([i \in DOMAIN flows |-> flows[i].breaks]),
     continues |-> FlattenSeq([i \in DOMAIN flows |-> flows[i].continues]),
     ok        |-> \A i \in DOMAIN flows : flows[i].ok]

\* assign_provenance: a part replaces what was recorded above and below it.
AssignProvenance(v, place) ==
    LET here == Tail(place)
        old == v.st.values[place[1]]
        kept == {q \in DOMAIN old : ~IsPrefix(here, q) /\ ~IsPrefix(q, here)}
        new == {here \o q : q \in DOMAIN v.prov}
    IN  [v EXCEPT !.st.values[place[1]] =
            IF here = <<>> THEN v.prov
            ELSE [q \in kept \cup new |->
                     IF q \in new THEN v.prov[SubSeq(q, Len(here) + 1, Len(q))] ELSE old[q]]]

\* check_return_provenance
ReturnAllowed(origins) ==
    LET expected == ReturnedFrom(Signature)
    IN  /\ origins.locals = {}
        /\ Cardinality(expected) = 1 /\ origins.inputs # {} =>
               origins.inputs = {Parameters[i] : i \in expected}

RECURSIVE BorrowStatements(_, _, _), BorrowStatement(_, _, _, _), BorrowLoop(_, _, _, _, _, _),
          ArmFlows(_, _, _, _)

BorrowStatements(flow, statements, out) ==
    IF statements = <<>> \/ flow.normal = <<>> THEN flow
    ELSE LET after == LiveSeq(Tail(statements), out)
             next == BorrowStatement(Head(statements), flow.normal[1],
                                     LiveIn(Head(statements), after), after)
         IN  BorrowStatements([next EXCEPT !.breaks = flow.breaks \o @,
                                           !.continues = flow.continues \o @,
                                           !.ok = @ /\ flow.ok],
                              Tail(statements), out)

\* check_block, with the liveness its liveness_block call recorded.
BorrowBlock(st, statements, out) ==
    BorrowStatements(Normal([st |-> st, ok |-> TRUE]), statements, out \cup Deferred(statements))

\* check_loop: the condition, or the iterated value, is visited once in the
\* state that enters the loop.
BorrowLoop(loop, entry, head, breaks, live, rounds) ==
    LET start == IF loop.s = "for" THEN [head EXCEPT !.values[loop.b] = Unborrowed] ELSE head
        flow == BorrowBlock(start, loop.body, IF loop.s = "for" THEN live \ {loop.b} ELSE live)
        left == breaks \o flow.breaks
        next == JoinAll(<<entry>> \o JoinAll(flow.normal \o flow.continues))[1]
    IN  IF next = head \/ rounds = 0
        THEN [NoFlow(flow.ok) EXCEPT !.normal = JoinAll(<<next>> \o left)]
        ELSE LET rest == BorrowLoop(loop, entry, next, left, live, rounds - 1)
             IN  [rest EXCEPT !.ok = @ /\ flow.ok]

\* The arms of a match start after the scrutinee; a pattern's bindings are
\* given no provenance.
ArmFlows(v, arms, live, after) ==
    IF arms = <<>> THEN <<>>
    ELSE LET arm == Head(arms)
             w == VisitBorrows([v EXCEPT !.eph = {}], arm.guard, live)
             flow == BorrowBlock(w.st, arm.body, after)
             seen == after \cup LiveBlock(arm.body, after) \cup Uses(arm.guard)
         IN  <<[flow EXCEPT !.ok = @ /\ w.ok]>> \o ArmFlows(v, Tail(arms), live, seen)

BorrowStatement(t, st, live, after) ==
    LET v0 == [st |-> st, ok |-> TRUE, eph |-> {}, prov |-> Unborrowed]
        visit(x) == VisitBorrows(v0, x, live)
    IN  CASE t.s = "let" -> LET v == visit(t.x)
                            IN  Normal([v EXCEPT !.st.values[t.b] = v.prov])
          [] t.s = "assign" -> LET v == visit(t.x)
                               IN  Normal(AssignProvenance(CheckAccess(v, t.p, "write", live), t.p))
          [] t.s = "expr" -> Normal(visit(t.x))
          [] t.s = "return" -> LET v == visit(t.x)
                               IN  NoFlow(v.ok /\ ReturnAllowed(AllOrigins(v.prov)))
          [] t.s = "if" -> LET v == visit(t.cond)
                               joined == JoinBranches(<<BorrowBlock(v.st, t.then, after),
                                                        BorrowBlock(v.st, t.else, after)>>)
                           IN  [joined EXCEPT !.ok = @ /\ v.ok]
          [] t.s \in {"while", "for"} ->
                LET v == visit(IF t.s = "for" THEN t.x ELSE t.cond)
                    loop == BorrowLoop(t, v.st, v.st, <<>>, live, Cardinality(Loans) + 1)
                IN  [loop EXCEPT !.ok = @ /\ v.ok]
          [] t.s = "match" -> LET v == visit(t.x)
                                  joined == JoinBranches(ArmFlows(v, t.arms, live, after))
                              IN  [joined EXCEPT !.ok = @ /\ v.ok]
          [] t.s = "block" -> BorrowBlock(st, t.body, after)
          [] t.s = "defer" -> [Normal(v0) EXCEPT !.ok = BorrowBlock(st, t.body, after).ok]
          [] t.s = "expect" -> LET handler == BorrowBlock(st, t.body, after)
                               IN  [handler EXCEPT !.normal = JoinAll(<<st>> \o @)]
          [] t.s = "break" -> [NoFlow(TRUE) EXCEPT !.breaks = <<st>>]
          [] t.s = "continue" -> [NoFlow(TRUE) EXCEPT !.continues = <<st>>]
          [] OTHER -> Normal(v0)

\* check_function: a borrow-bearing parameter brings its own provenance.
BorrowsAccepted(body) ==
    BorrowBlock(Start({b \in Range(Parameters) : Bearing(<<b>>)}), body, {}).ok
=============================================================================
