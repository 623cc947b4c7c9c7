---------------------------- MODULE OwnedFunction ----------------------------
(***************************************************************************)
(* The execution of one accepted function: the code CleanupLowering makes  *)
(* of it, run as the C emitted for it runs (src/backend/functions.rs).     *)
(* Moving and storing copy bits and never change the source, so a slot     *)
(* keeps naming a value it no longer owns; only the drop flags tell.       *)
(*                                                                         *)
(* A value is a number.  status records what became of it: live, gone (it  *)
(* was handed to a callee or to the caller, who now owns it) or dropped.   *)
(*                                                                         *)
(* References are plain pointers at run time.  What the borrow checker is  *)
(* to guarantee is recorded beside them: each reference has the place it   *)
(* refers to and whether it may still be used.  An access to a place, by   *)
(* name or through a reference, ends every other reference it conflicts    *)
(* with, except those it was itself borrowed through.                      *)
(***************************************************************************)
EXTENDS CleanupLowering

CONSTANTS
    Programs,        \* the function bodies considered
    Signature,       \* the function's signature, see BorrowCheck
    Loans,           \* the borrowing expressions of a body
    MaxIterations    \* bound: times the while loops of one call may repeat

ASSUME IterationsAssumption == MaxIterations \in Nat

Borrows == INSTANCE BorrowCheck

VARIABLES
    code,       \* the lowered function
    pc,         \* the next instruction, 0 once the function has ended
    mem,        \* the value each owned slot of each local holds
    flag,       \* the drop flags
    tmp,        \* the value in flight, by drop path
    status,     \* what became of each value produced so far
    iter,       \* the collection and consumed count of each for loop
    fuel,       \* iterations left
    pending,    \* history: defers reached and not yet run, oldest first
    refs,       \* the references made so far
    hold,       \* the reference in each slot for one
    tref,       \* the references in flight, by path
    given       \* the reference returned, if any

refVars == <<refs, hold, tref, given>>
vars == <<code, pc, mem, flag, tmp, status, iter, fuel, pending, refVars>>

Junk == -1      \* an uninitialized slot
Nothing == 0    \* the payload slot of an enum value without a payload

NoIteration == [coll |-> <<>>, consumed |-> 0]

Instr == code[pc]
Runs(op) == pc # 0 /\ Instr.op = op

Under(place) == {s \in Slots : Overlaps(place, s)}
Below(slot, place) == SubSeq(slot, Len(place) + 1, Len(slot))

\* The places a dynamic index may turn out to name.
Concrete(place) ==
    IF Len(place) > 1 /\ place[2] = "dyn" THEN {<<place[1], i>> : i \in {"0", "1"}} ELSE {place}

Live(v) == v = Nothing \/ (v \in DOMAIN status /\ status[v] = "live")

\* A value with drop paths, numbered from first; an enum may have no payload.
Fresh(paths, first) ==
    LET numbered == [p \in Range(paths) |-> first + (CHOOSE i \in DOMAIN paths : paths[i] = p) - 1]
    IN  {numbered} \cup {[p \in Range(paths) |-> Nothing] : q \in {<<"some">>} \cap Range(paths)}

Values(f) == {f[p] : p \in DOMAIN f} \ {Nothing, Junk}

Become(values, fate) ==
    [v \in DOMAIN status |-> IF v \in values THEN fate ELSE status[v]]

Flagged(flags, value) == [f \in Slots |-> IF f \in Range(flags) THEN value ELSE flag[f]]

-----------------------------------------------------------------------------
(* References *)

NoRef == 0

RefSlots == {<<b>> : b \in {c \in Binding : Shape[c] = "ref"}}
                \cup {<<b, i>> : b \in {c \in Binding : Shape[c] = "refs"}, i \in {"0", "1"}}

\* The input a parameter refers to lives in the caller.
Outside(b) == <<"outside", b>>
InputOrder == SelectSeq(Parameters, LAMBDA b : Shape[b] = "ref")

\* The place an access reaches and the reference it goes through.  Borrowing
\* a reference borrows what it refers to.
Through(place) ==
    IF "*" \in Range(place)
    THEN hold[SubSeq(place, 1, (CHOOSE i \in DOMAIN place : place[i] = "*") - 1)]
    ELSE NoRef

Reached(place, via) == IF via = NoRef THEN place ELSE refs[via].to

Apart(p, q) == ~IsPrefix(p, q) /\ ~IsPrefix(q, p)

Lineage(via) == IF via = NoRef THEN {} ELSE refs[via].line

\* The references after an access: a write ends all that overlap, a read the
\* exclusive ones.
Touched(rs, place, writes, kept) ==
    [k \in DOMAIN rs |->
        IF k \in kept \/ Apart(rs[k].to, place) \/ (~writes /\ rs[k].kind = "shared")
        THEN rs[k] ELSE [rs[k] EXCEPT !.valid = FALSE]]

Access(place, writes) ==
    LET via == Through(place)
    IN  refs' = Touched(refs, Reached(place, via), writes, Lineage(via))

Plant(at, found) ==
    [q \in DOMAIN tref \cup {at \o p : p \in DOMAIN found} |->
        IF IsPrefix(at, q) /\ SubSeq(q, Len(at) + 1, Len(q)) \in DOMAIN found
        THEN found[SubSeq(q, Len(at) + 1, Len(q))] ELSE tref[q]]

-----------------------------------------------------------------------------

\* The parameters, in slot order, hold the first values.
ParameterSlots == FlattenSeq([i \in DOMAIN Parameters |-> BindingFlags(Parameters[i])])

Init ==
    /\ \E body \in Programs :
          /\ Accepted(body) /\ Borrows!BorrowsAccepted(body)
          /\ code = LowerFunction(body)
    /\ pc = 1
    /\ mem \in {[s \in Slots |-> IF s \in Range(ParameterSlots) THEN f[s] ELSE Junk] :
                   f \in Fresh(ParameterSlots, 1)}
    /\ flag = [f \in Slots |-> f \in Range(ParameterSlots)]
    /\ tmp = <<>>
    /\ status = [i \in DOMAIN ParameterSlots |-> "live"]
    /\ iter = [b \in Binding |-> NoIteration]
    /\ fuel = MaxIterations
    /\ pending = <<>>
    /\ refs = [k \in DOMAIN InputOrder |->
                 [to |-> Outside(InputOrder[k]), kind |-> "exclusive", line |-> {k}, valid |-> TRUE]]
    /\ hold = [s \in RefSlots |->
                 IF s[1] \in Range(InputOrder)
                 THEN CHOOSE k \in DOMAIN InputOrder : InputOrder[k] = s[1] ELSE NoRef]
    /\ tref = <<>> /\ given = NoRef

Go(distance) == pc' = pc + distance /\ UNCHANGED code

New ==
    /\ Runs("new") /\ Go(1)
    /\ \E value \in Fresh(Instr.paths, Len(status) + 1) :
          /\ tmp' = value
          /\ status' = status \o [i \in 1..Cardinality(Values(value)) |-> "live"]
    /\ UNCHANGED <<mem, flag, iter, fuel, pending, refVars>>

Use ==
    /\ Runs("use") /\ Go(1)
    /\ Access(Instr.p, FALSE)
    /\ UNCHANGED <<mem, flag, tmp, status, iter, fuel, pending, hold, tref, given>>

\* AddressOf: a new reference, to a place or to what a reference refers to.
Borrow ==
    LET place == IF Bearing(Instr.p) THEN Append(Instr.p, "*") ELSE Instr.p
        via == Through(place)
        to == Reached(place, via)
        id == Len(refs) + 1
    IN  /\ Runs("borrow") /\ Go(1)
        /\ refs' = Append(Touched(refs, to, Instr.k = "exclusive", Lineage(via)),
                          [to |-> to, kind |-> Instr.k, line |-> {id} \cup Lineage(via), valid |-> TRUE])
        /\ tref' = Plant(Instr.at, [q \in {<<>>} |-> id])
        /\ UNCHANGED <<mem, flag, tmp, status, iter, fuel, pending, hold, given>>

LoadReference ==
    LET under == {s \in RefSlots : IsPrefix(Instr.p, s)}
    IN  /\ Runs("loadref") /\ Go(1)
        /\ tref' = Plant(Instr.at, [q \in {Below(s, Instr.p) : s \in under} |-> hold[Instr.p \o q]])
        /\ UNCHANGED <<mem, flag, tmp, status, iter, fuel, pending, refs, hold, given>>

\* A callee uses the references it is given, and returns one of those its
\* signature lets its result borrow from.
CallReference ==
    LET given2 == {tref[q] : q \in DOMAIN tref}
        uses(rs, k) == Touched(rs, rs[k].to, rs[k].kind = "exclusive", rs[k].line)
        back == {Component(i) : i \in Borrows!ReturnedFrom(Instr.sig)} \cap DOMAIN tref
    IN  /\ Runs("callref") /\ Go(1)
        /\ refs' = FoldLeft(uses, refs, SetToSeq(given2))
        /\ IF back = {} THEN tref' = <<>> ELSE \E q \in back : tref' = [e \in {<<>>} |-> tref[q]]
        /\ UNCHANGED <<mem, flag, tmp, status, iter, fuel, pending, hold, given>>

StoreReference ==
    /\ Runs("storeref") /\ Go(1)
    /\ hold' = [s \in RefSlots |-> IF IsPrefix(Instr.p, s) THEN tref[Below(s, Instr.p)] ELSE hold[s]]
    /\ tref' = <<>> /\ tmp' = <<>>
    /\ UNCHANGED <<mem, flag, status, iter, fuel, pending, refs, given>>

Give ==
    /\ Runs("give") /\ Go(1)
    /\ given' = tref[<<>>] /\ tref' = <<>>
    /\ UNCHANGED <<mem, flag, tmp, status, iter, fuel, pending, refs, hold>>

\* An ownership use that moves: the flags of the place are cleared.
TakeValue ==
    /\ Runs("take") /\ Go(1)
    /\ tmp' = [p \in {Below(s, Instr.p) : s \in Under(Instr.p)} |-> mem[Instr.p \o p]]
    /\ flag' = Flagged(Instr.flags, FALSE)
    /\ Access(Instr.p, TRUE)
    /\ UNCHANGED <<mem, status, iter, fuel, pending, hold, tref, given>>

\* A pattern reads a component: a copy of the bits and nothing else.
Load ==
    /\ Runs("load") /\ Go(1)
    /\ tmp' = [p \in {Below(s, Instr.p) : s \in Under(Instr.p)} |-> mem[Instr.p \o p]]
    /\ UNCHANGED <<mem, flag, status, iter, fuel, pending, refVars>>

Hand ==
    /\ Runs("consume") /\ Go(1)
    /\ status' = Become(Values(tmp), "gone")
    /\ tmp' = <<>> /\ tref' = <<>>
    /\ UNCHANGED <<mem, flag, iter, fuel, pending, refs, hold, given>>

StoreValue ==
    /\ Runs("store") /\ Go(1)
    /\ \E place \in Concrete(Instr.p) :
          mem' = [s \in Slots |-> IF s \in Under(place) THEN tmp[Below(s, place)] ELSE mem[s]]
    /\ flag' = Flagged(Instr.flags, TRUE)
    /\ tmp' = <<>>
    /\ Access(Instr.p, TRUE)
    /\ UNCHANGED <<status, iter, fuel, pending, hold, tref, given>>

\* SetDropFlag where a match fails: the bindings are forgotten, not dropped.
Unset ==
    /\ Runs("unflag") /\ Go(1)
    /\ flag' = Flagged(Instr.flags, FALSE)
    /\ UNCHANGED <<mem, tmp, status, iter, fuel, pending, refVars>>

DropValue ==
    /\ Runs("drop") /\ Go(1)
    /\ flag' = [flag EXCEPT ![Instr.f] = FALSE]
    /\ status' = IF flag[Instr.f] THEN Become({mem[Instr.f]}, "dropped") ELSE status
    /\ IF flag[Instr.f] THEN Access(Instr.f, TRUE) ELSE UNCHANGED refs
    /\ UNCHANGED <<mem, tmp, iter, fuel, pending, hold, tref, given>>

Iterate ==
    /\ Runs("iterate") /\ Go(1)
    /\ iter' = [iter EXCEPT ![Instr.b] = [coll |-> <<tmp[<<"0">>], tmp[<<"1">>]>>, consumed |-> 0]]
    /\ tmp' = <<>>
    /\ UNCHANGED <<mem, flag, status, fuel, pending, refVars>>

NextElement ==
    LET it == iter[Instr.b]
    IN  /\ Runs("next")
        /\ IF it.consumed < Len(it.coll)
           THEN /\ mem' = [mem EXCEPT ![<<Instr.b>>] = it.coll[it.consumed + 1]]
                /\ iter' = [iter EXCEPT ![Instr.b].consumed = @ + 1]
                /\ flag' = Flagged(Instr.flags, TRUE)
                /\ Go(1)
           ELSE UNCHANGED <<mem, iter, flag>> /\ Go(Instr.by)
        /\ UNCHANGED <<tmp, status, fuel, pending, refVars>>

\* The elements no iteration has consumed.
Remaining(b) == {iter[b].coll[i] : i \in (iter[b].consumed + 1)..Len(iter[b].coll)}

DropIteration ==
    /\ Runs("dropiter") /\ Go(1)
    /\ status' = Become(Remaining(Instr.b), "dropped")
    /\ UNCHANGED <<mem, flag, tmp, iter, fuel, pending, refVars>>

\* A condition, a Result or an expectation decides.
Branch ==
    /\ Runs("branch")
    /\ Go(1) \/ Go(Instr.by)
    /\ UNCHANGED <<mem, flag, tmp, status, iter, fuel, pending, refVars>>

Loop ==
    /\ Runs("loop")
    /\ \/ fuel > 0 /\ fuel' = fuel - 1 /\ Go(1)
       \/ fuel' = fuel /\ Go(Instr.by)
    /\ UNCHANGED <<mem, flag, tmp, status, iter, pending, refVars>>

\* The discriminant of a matched enum: a "some" test fails without a payload.
Tag ==
    /\ Runs("some") \/ Runs("none")
    /\ Go(IF (mem[Append(Instr.p, "some")] = Nothing) = (Instr.op = "none") THEN 1 ELSE Instr.by)
    /\ UNCHANGED <<mem, flag, tmp, status, iter, fuel, pending, refVars>>

Goto ==
    /\ Runs("goto") /\ Go(Instr.by)
    /\ UNCHANGED <<mem, flag, tmp, status, iter, fuel, pending, refVars>>

RegisterDefer ==
    /\ Runs("register") /\ Go(1)
    /\ pending' = Append(pending, Instr.d)
    /\ UNCHANGED <<mem, flag, tmp, status, iter, fuel, refVars>>

RunDefer ==
    /\ Runs("run") /\ Go(1)
    /\ pending' = IF pending = <<>> THEN pending ELSE Front(pending)
    /\ UNCHANGED <<mem, flag, tmp, status, iter, fuel, refVars>>

\* Return, and the process-fatal exits that promise no cleanup.
Stop ==
    /\ Runs("ret") \/ Runs("halt")
    /\ pc' = 0
    /\ UNCHANGED <<code, mem, flag, tmp, status, iter, fuel, pending, refVars>>

Done == pc = 0 /\ UNCHANGED vars

Next ==
    \/ New \/ Use \/ Borrow \/ LoadReference \/ CallReference \/ StoreReference \/ Give
    \/ TakeValue \/ Load \/ Hand \/ StoreValue \/ Unset \/ DropValue
    \/ Iterate \/ NextElement \/ DropIteration \/ Branch \/ Loop \/ Tag \/ Goto
    \/ RegisterDefer \/ RunDefer \/ Stop \/ Done

Spec == Init /\ [][Next]_vars

-----------------------------------------------------------------------------
(* Properties *)

\* Flags, slots and values stay in range, and every jump of the lowering
\* lands inside the function.
TypeOK ==
    /\ pc \in 0..Len(code)
    /\ flag \in [Slots -> BOOLEAN]
    /\ \A s \in Slots : mem[s] \in DOMAIN status \cup {Junk, Nothing}
    /\ \A v \in DOMAIN status : status[v] \in {"live", "gone", "dropped"}
    /\ fuel \in 0..MaxIterations

\* An accepted function never reads, borrows or moves a place whose value
\* was moved away, destroyed or never initialized, on any path: branches,
\* loop back edges, early exits and deferred bodies included
\* (docs/spec.md 3.1, check_moves and the cleanup lowering together).
UsesInitialized ==
    pc # 0 /\ Instr.op \in {"use", "take", "load"} =>
        \A s \in Under(Instr.p) : Live(mem[s])

\* The lowering is well formed and touches only what is initialized.
AccessSound == TypeOK /\ UsesInitialized

\* Drop runs at most once for a value, only on a value still owned here, and
\* a custom Drop finds every field of its value in place (DropValue behind
\* its flag, DropIteration behind the consumed count).
DropsOnce ==
    /\ Runs("drop") /\ flag[Instr.f] =>
           \A s \in Under(Instr.f) : Live(mem[s])
    /\ Runs("dropiter") => \A v \in Remaining(Instr.b) : Live(v)

\* When the function returns, every value produced in it was destroyed or
\* handed over: no exit edge forgets a flagged local or the rest of an
\* iteration.
NothingLeaked ==
    Runs("ret") => \A v \in DOMAIN status : status[v] # "live"

\* Every value produced in an accepted body ends exactly once, on every path:
\* neither the drop flags nor an exit edge destroys twice or forgets.
DestroyedOnce == DropsOnce /\ NothingLeaked

\* The references an instruction is about to use.
Needed ==
    CASE pc = 0 -> {}
      [] Instr.op \in {"use", "store"} -> {Through(Instr.p)} \ {NoRef}
      [] Instr.op = "borrow" ->
            {Through(IF Bearing(Instr.p) THEN Append(Instr.p, "*") ELSE Instr.p)} \ {NoRef}
      [] Instr.op = "callref" -> {tref[q] : q \in DOMAIN tref}
      [] Instr.op = "ret" -> {given} \ {NoRef}
      [] OTHER -> {}

\* No reference is used after an access that conflicts with it: what a
\* shared reference refers to is not moved, replaced or destroyed while it
\* is still used, an exclusive one is the only way in while it is still
\* used, and what a function returns refers to the input its signature
\* names (docs/spec.md 3.2, check_borrows).
BorrowsValid ==
    /\ \A k \in Needed : refs[k].valid
    /\ Runs("ret") /\ given # NoRef =>
           \E i \in Borrows!ReturnedFrom(Signature) : refs[given].to = Outside(Parameters[i])

\* Each registration that control reached runs exactly once, the latest
\* first, on whatever edge leaves its scope; one not reached never runs
\* (emit_cleanup expands the registrations that precede each exit edge).
DefersRunOnce ==
    /\ Runs("run") => pending # <<>> /\ Last(pending) = Instr.d
    /\ Runs("ret") => pending = <<>>
=============================================================================
