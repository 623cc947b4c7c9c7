--------------------------- MODULE ScopedThreads ---------------------------
(***************************************************************************)
(* thread.scope, Scope.spawn and ScopedThread.join, and the mutexes and    *)
(* atomics that scoped threads share by reference                          *)
(* (emit_scoped_thread_helpers, emit_mutex_helpers and emit_atomic_helpers *)
(* in src/backend/runtime.rs).                                             *)
(*                                                                         *)
(* Every thread has a stack of open scopes, innermost first.  A scope is   *)
(* its list of nodes, newest first; a node names the thread whose state    *)
(* block it refers to, or None once join has cleared it.  A ScopedThread   *)
(* is not Send and cannot leave its scope, so only the thread that opened  *)
(* the scope joins it.  The cells are locals of main that everything may   *)
(* borrow.                                                                 *)
(***************************************************************************)
EXTENDS Integers, Sequences, FiniteSets, SequencesExt

CONSTANTS Main,         \* the initial thread
          Kids,         \* the scoped threads the program may create
          MaxScopes,    \* bound: the scopes each thread has open at once
          Modulus,      \* 2 to the width of a cell's integer
          None          \* no thread, no call

All == Kids \cup {Main}
ASSUME ScopedAssumption ==
    /\ Main \notin Kids /\ None \notin Kids \cup {Main}
    /\ MaxScopes \in [All -> Nat] /\ Modulus \in Nat \ {0, 1}

Cells == {"mutex", "atomic"}

\* The operations that read a cell and write it under its lock.
Operations == [mutex |-> {"read", "replace", "update"},
               atomic |-> {"load", "store", "exchange", "compare_exchange",
                           "fetch_add", "fetch_sub"}]

VARIABLES
    scopes,     \* per thread: its open scopes
    block,      \* per kid: its state block is "none", "allocated" or "freed"
    result,     \* per kid: "unset", "set", "moved" (by join) or "dropped"
    handle,     \* the kids whose ScopedThread is still held
    pc,         \* per thread: where it is
    call,       \* per thread: the kid it joins, or the cell it operates on
    guard,      \* per thread: the open scopes when it took its guard, or -1
    holder,     \* per cell: the thread that holds its lock, or None
    value,      \* per cell: state->value
    seen,       \* per thread: the value its operation has read
    ideal,      \* history: the value if every operation were one step
    corrupt     \* a freed node or block has been used

threadVars == <<scopes, block, result, handle>>
cellVars == <<guard, holder, value, seen, ideal>>
vars == <<threadVars, pc, call, cellVars, corrupt>>

TypeOK ==
    /\ scopes \in [All -> Seq(Seq(Kids \cup {None}))]
    /\ \A t \in All : Len(scopes[t]) <= MaxScopes[t]
    /\ block \in [Kids -> {"none", "allocated", "freed"}]
    /\ result \in [Kids -> {"unset", "set", "moved", "dropped"}]
    /\ handle \subseteq Kids
    /\ pc \in [All -> {"unborn", "run", "finish", "join", "take", "lock", "read",
                       "write", "exiting", "done"}]
    /\ call \in [All -> Kids \cup {None} \cup Cells]
    /\ guard \in [All -> Int] /\ \A t \in All : guard[t] \in -1..MaxScopes[t]
    /\ holder \in [Cells -> All \cup {None}]
    /\ value \in [Cells -> 0..(Modulus - 1)] /\ ideal \in [Cells -> 0..(Modulus - 1)]
    /\ seen \in [All -> 0..(Modulus - 1)]
    /\ corrupt \in BOOLEAN

Init ==
    /\ scopes = [t \in All |-> <<>>]
    /\ block = [k \in Kids |-> "none"] /\ result = [k \in Kids |-> "unset"]
    /\ handle = {}
    /\ pc = [t \in All |-> IF t = Main THEN "run" ELSE "unborn"]
    /\ call = [t \in All |-> None]
    /\ guard = [t \in All |-> -1] /\ holder = [c \in Cells |-> None]
    /\ value = [c \in Cells |-> 0] /\ ideal = [c \in Cells |-> 0]
    /\ seen = [t \in All |-> 0]
    /\ corrupt = FALSE

-----------------------------------------------------------------------------
(* Helpers *)

At(t, where) == pc[t] = where /\ ~corrupt

Goto(t, where, what) ==
    /\ pc' = [pc EXCEPT ![t] = where]
    /\ call' = [call EXCEPT ![t] = what]

\* A stack of scopes with a node for k linked into its scope i, with the
\* nodes of k cleared, and without the newest node of its innermost scope.
Linked(stack, i, k) == [stack EXCEPT ![i] = <<k>> \o @]
Cleared(stack, k) == [i \in DOMAIN stack |->
    [n \in DOMAIN stack[i] |-> IF stack[i][n] = k THEN None ELSE stack[i][n]]]
Unlinked(stack) == [stack EXCEPT ![1] = Tail(@)]

\* The kids a scope still refers to.
Members(scope) == ToSet(scope) \ {None}

\* The scope of t that has a node of k.
ScopesOf(t, k) == {i \in DOMAIN scopes[t] : k \in Members(scopes[t][i])}

\* What unlocking does when the guard t holds dies, if it holds one that is
\* a local of a body under at least n open scopes.
ReleaseGuard(t, n) ==
    IF guard[t] >= n
    THEN /\ guard' = [guard EXCEPT ![t] = -1]
         /\ holder' = [holder EXCEPT !.mutex = None]
    ELSE UNCHANGED <<guard, holder>>

-----------------------------------------------------------------------------
(* Scopes *)

\* thread.scope: the body is called with a reference to an empty scope.
ScopeEnter(t) ==
    /\ At(t, "run") /\ Len(scopes[t]) < MaxScopes[t]
    /\ scopes' = [scopes EXCEPT ![t] = <<<<>>>> \o @]
    /\ UNCHANGED <<block, result, handle, pc, call, cellVars, corrupt>>

\* scope.spawn, on any scope whose reference the body has: the node is linked
\* before pthread_create starts the thread.  A failure to create it traps.
ScopedThreadSpawn(t, i, k) ==
    /\ At(t, "run") /\ pc[k] = "unborn"
    /\ block' = [block EXCEPT ![k] = "allocated"]
    /\ scopes' = [scopes EXCEPT ![t] = Linked(@, i, k)]
    /\ handle' = handle \cup {k}
    /\ pc' = [pc EXCEPT ![k] = "run"]
    /\ UNCHANGED <<result, call, cellVars, corrupt>>

\* A handle has no drop glue: losing it leaves the thread to the scope.
DropHandle(t, k) ==
    /\ At(t, "run") /\ k \in handle /\ ScopesOf(t, k) # {}
    /\ handle' = handle \ {k}
    /\ UNCHANGED <<scopes, block, result, pc, call, cellVars, corrupt>>

\* join consumes the handle and waits for the thread.
ScopedThreadJoin(t, k) ==
    /\ At(t, "run") /\ k \in handle /\ ScopesOf(t, k) # {}
    /\ handle' = handle \ {k}
    /\ Goto(t, "join", k)
    /\ UNCHANGED <<scopes, block, result, cellVars, corrupt>>

Joined(t) ==
    /\ At(t, "join") /\ pc[call[t]] = "done"
    /\ Goto(t, "take", call[t])
    /\ UNCHANGED <<threadVars, cellVars, corrupt>>

\* Faulty variant: the node keeps the block that join frees.
TakeResult_KeepsNode(t) ==
    /\ At(t, "take")
    /\ result' = [result EXCEPT ![call[t]] = "moved"]
    /\ block' = [block EXCEPT ![call[t]] = "freed"]
    /\ Goto(t, "run", None)
    /\ UNCHANGED <<scopes, handle, cellVars, corrupt>>

\* The result is moved out, the node cleared and the block freed.
TakeResult(t) ==
    /\ At(t, "take")
    /\ IF block[call[t]] = "allocated" /\ ScopesOf(t, call[t]) # {}
       THEN /\ result' = [result EXCEPT ![call[t]] = "moved"]
            /\ block' = [block EXCEPT ![call[t]] = "freed"]
            /\ scopes' = [scopes EXCEPT ![t] = Cleared(@, call[t])]
            /\ UNCHANGED corrupt
       ELSE corrupt' = TRUE /\ UNCHANGED <<result, block, scopes>>
    /\ Goto(t, "run", None)
    /\ UNCHANGED <<handle, cellVars>>

\* Faulty variant: the guard is forgotten and its lock stays taken.
ScopeReturn_LeavesLocked(t) ==
    /\ At(t, "run") /\ scopes[t] # <<>>
    /\ handle' = handle \ Members(Head(scopes[t]))
    /\ guard' = [guard EXCEPT ![t] = IF @ >= Len(scopes[t]) THEN -1 ELSE @]
    /\ Goto(t, "finish", None)
    /\ UNCHANGED <<scopes, block, result, holder, value, seen, ideal, corrupt>>

\* The body of the innermost scope returns: its locals, a guard and the
\* handles included, are dropped and el_thread_scope_finish begins.
ScopeReturn(t) ==
    /\ At(t, "run") /\ scopes[t] # <<>>
    /\ handle' = handle \ Members(Head(scopes[t]))
    /\ ReleaseGuard(t, Len(scopes[t]))
    /\ Goto(t, "finish", None)
    /\ UNCHANGED <<scopes, block, result, value, seen, ideal, corrupt>>

\* Faulty variant: a thread that is still running is left behind.
FinishNext_Abandons(t) ==
    /\ At(t, "finish") /\ Head(scopes[t]) # <<>>
    /\ LET k == Head(Head(scopes[t])) IN
       IF k # None /\ pc[k] = "done"
       THEN /\ result' = [result EXCEPT ![k] = "dropped"]
            /\ block' = [block EXCEPT ![k] = "freed"]
       ELSE UNCHANGED <<result, block>>
    /\ scopes' = [scopes EXCEPT ![t] = Unlinked(@)]
    /\ UNCHANGED <<handle, pc, call, cellVars, corrupt>>

\* One turn of el_thread_scope_finish: a node whose thread nobody joined waits
\* for it, drops its result and frees its block; then the node is freed.
FinishNext(t) ==
    /\ At(t, "finish") /\ Head(scopes[t]) # <<>>
    /\ LET k == Head(Head(scopes[t])) IN
       IF k = None
       THEN UNCHANGED <<result, block, corrupt>>
       ELSE IF block[k] # "allocated"
       THEN corrupt' = TRUE /\ UNCHANGED <<result, block>>
       ELSE /\ pc[k] = "done"
            /\ result' = [result EXCEPT ![k] = "dropped"]
            /\ block' = [block EXCEPT ![k] = "freed"]
            /\ UNCHANGED corrupt
    /\ scopes' = [scopes EXCEPT ![t] = Unlinked(@)]
    /\ UNCHANGED <<handle, pc, call, cellVars>>

\* All nodes are gone: thread.scope returns to its caller.
ScopeEnd(t) ==
    /\ At(t, "finish") /\ Head(scopes[t]) = <<>>
    /\ scopes' = [scopes EXCEPT ![t] = Tail(@)]
    /\ Goto(t, "run", None)
    /\ UNCHANGED <<block, result, handle, cellVars, corrupt>>

-----------------------------------------------------------------------------
(* The entry function of a scoped thread *)

\* The body returns after its own scopes have ended, its guard is dropped and
\* its result published; the captures are dropped after that.
BodyReturn(t) ==
    /\ At(t, "run") /\ scopes[t] = <<>>
    /\ ReleaseGuard(t, 0)
    /\ IF t \in Kids
       THEN IF block[t] = "allocated"
            THEN result' = [result EXCEPT ![t] = "set"] /\ UNCHANGED corrupt
            ELSE corrupt' = TRUE /\ UNCHANGED result
       ELSE UNCHANGED <<result, corrupt>>
    /\ Goto(t, "exiting", None)
    /\ UNCHANGED <<scopes, block, handle, value, seen, ideal>>

EntryReturn(t) ==
    /\ At(t, "exiting")
    /\ Goto(t, "done", None)
    /\ UNCHANGED <<threadVars, cellVars, corrupt>>

-----------------------------------------------------------------------------
(* Mutexes and atomics *)

\* What an operation leaves in a cell that holds v.  The replacement of
\* compare_exchange, from 0 to 1, and the closure of update stand for all.
Stored(op, v) ==
    CASE op \in {"store", "replace"} -> 0
      [] op = "exchange" -> 1
      [] op = "compare_exchange" -> IF v = 0 THEN 1 ELSE v
      [] op \in {"fetch_add", "update"} -> (v + 1) % Modulus
      [] op = "fetch_sub" -> (v - 1) % Modulus
      [] op \in {"load", "read"} -> v

\* t calls an operation of c.  Nothing stops it from locking a mutex whose
\* guard it holds.
Request(t, c) ==
    /\ At(t, "run")
    /\ Goto(t, "lock", c)
    /\ UNCHANGED <<threadVars, cellVars, corrupt>>

\* guard.get, and a use of the place it returns.
GuardGet(t) ==
    /\ At(t, "run") /\ guard[t] # -1
    /\ Goto(t, "read", "mutex")
    /\ UNCHANGED <<threadVars, cellVars, corrupt>>

\* Faulty variant: the lock is not taken for an atomic.
Acquire_MutexOnly(t) ==
    /\ At(t, "lock")
    /\ call[t] = "mutex" => holder.mutex = None
    /\ holder' = [holder EXCEPT ![call[t]] = t]
    /\ \/ Goto(t, "read", call[t]) /\ UNCHANGED guard
       \/ /\ call[t] = "mutex"
          /\ guard' = [guard EXCEPT ![t] = Len(scopes[t])]
          /\ Goto(t, "run", None)
    /\ UNCHANGED <<threadVars, value, seen, ideal, corrupt>>

\* pthread_mutex_lock; Mutex.lock returns with a guard, every other operation
\* goes on.
Acquire(t) ==
    /\ At(t, "lock") /\ holder[call[t]] = None
    /\ holder' = [holder EXCEPT ![call[t]] = t]
    /\ \/ Goto(t, "read", call[t]) /\ UNCHANGED guard
       \/ /\ call[t] = "mutex"
          /\ guard' = [guard EXCEPT ![t] = Len(scopes[t])]
          /\ Goto(t, "run", None)
    /\ UNCHANGED <<threadVars, value, seen, ideal, corrupt>>

ReadValue(t) ==
    /\ At(t, "read")
    /\ seen' = [seen EXCEPT ![t] = value[call[t]]]
    /\ Goto(t, "write", call[t])
    /\ UNCHANGED <<threadVars, guard, holder, value, ideal, corrupt>>

\* state->value is assigned and the lock released, unless a guard holds it.
WriteValue(t) ==
    /\ At(t, "write")
    /\ LET c == call[t] IN
       /\ \E op \in Operations[c] :
             /\ value' = [value EXCEPT ![c] = Stored(op, seen[t])]
             /\ ideal' = [ideal EXCEPT ![c] = Stored(op, @)]
       /\ holder' = [holder EXCEPT ![c] =
                        IF c = "mutex" /\ guard[t] # -1 THEN @ ELSE None]
    /\ seen' = [seen EXCEPT ![t] = 0]
    /\ Goto(t, "run", None)
    /\ UNCHANGED <<threadVars, guard, corrupt>>

\* The guard is dropped before its scope ends.
DropGuard(t) ==
    /\ At(t, "run") /\ guard[t] # -1
    /\ ReleaseGuard(t, 0)
    /\ UNCHANGED <<threadVars, pc, call, value, seen, ideal, corrupt>>

-----------------------------------------------------------------------------
Step(t) ==
    \/ ScopeEnter(t) \/ ScopeReturn(t) \/ FinishNext(t) \/ ScopeEnd(t)
    \/ \E k \in Kids :
          \/ \E i \in DOMAIN scopes[t] : ScopedThreadSpawn(t, i, k)
          \/ DropHandle(t, k) \/ ScopedThreadJoin(t, k)
    \/ Joined(t) \/ TakeResult(t)
    \/ BodyReturn(t) \/ EntryReturn(t)
    \/ \E c \in Cells : Request(t, c)
    \/ Acquire(t) \/ ReadValue(t) \/ WriteValue(t) \/ GuardGet(t) \/ DropGuard(t)

Next == \E t \in All : Step(t)

Spec == Init /\ [][Next]_vars

-----------------------------------------------------------------------------
(* Properties *)

\* A scoped thread, the drop of its captures included, runs only while the
\* scope it borrows from is open; the block is freed by exactly one of join
\* and the end of the scope, with its result taken; and none is left when the
\* scope has ended (emit_scoped_thread_helpers).
ScopeSound ==
    /\ TypeOK
    /\ ~corrupt
    /\ \A k \in Kids :
          /\ block[k] = "allocated" <=> \E t \in All : Cardinality(ScopesOf(t, k)) = 1
          /\ pc[k] \notin {"unborn", "done"} => block[k] = "allocated"
          /\ block[k] = "freed" <=> result[k] \in {"moved", "dropped"}
          /\ pc[k] = "done" /\ block[k] = "allocated" => result[k] = "set"

\* Whoever has read a cell under its lock holds the value it would have if all
\* operations were single steps, and so does the cell when nobody is inside
\* an operation: no update is lost between scoped threads
\* (emit_mutex_helpers, emit_atomic_helpers).
CellsExact ==
    /\ value = ideal
    /\ \A t \in All : pc[t] = "write" => seen[t] = ideal[call[t]]
    /\ \A t \in All : guard[t] # -1 => holder.mutex = t

\* t cannot go on before u does.
WaitsFor(t, u) ==
    \/ pc[t] = "join" /\ call[t] = u
    \/ pc[t] = "finish" /\ Head(scopes[t]) # <<>> /\ Head(Head(scopes[t])) = u
    \/ pc[t] = "lock" /\ holder[call[t]] = u

\* Threads that wait for each other in a circle do so because one of them, by
\* the program's choice, holds a guard across its wait: the joins and locks of
\* the runtime never block each other (emit_scoped_thread_helpers,
\* emit_mutex_helpers).
BlockedByGuards ==
    \A S \in SUBSET All :
        S # {} /\ (\A t \in S : \E u \in S : WaitsFor(t, u)) => \E t \in S : guard[t] # -1

-----------------------------------------------------------------------------
(* The inductive invariant behind the three properties *)

Named(stack, k) == \E i \in DOMAIN stack : \E n \in DOMAIN stack[i] : stack[i][n] = k

NamedOnce(stack, k) ==
    \A i, j \in DOMAIN stack : \A n \in DOMAIN stack[i], m \in DOMAIN stack[j] :
        stack[i][n] = k /\ stack[j][m] = k => i = j /\ n = m

\* How far a kid's thread, its block and its result have come.
Lifecycle ==
    \A k \in Kids :
        /\ block[k] = "none" <=> pc[k] = "unborn"
        /\ block[k] = "freed" => pc[k] = "done"
        /\ block[k] = "freed" <=> result[k] \in {"moved", "dropped"}
        /\ pc[k] \in {"exiting", "done"} /\ block[k] = "allocated" => result[k] = "set"

\* A block has exactly one node, in one scope of one thread, until it is freed.
OneNode ==
    \A k \in Kids :
        /\ \A t \in All : NamedOnce(scopes[t], k)
        /\ block[k] = "allocated" <=> \E t \in All : Named(scopes[t], k)
        /\ \A t, u \in All : Named(scopes[t], k) /\ Named(scopes[u], k) => t = u

\* A thread that waits for a kid has its node, and nobody has its handle.
WaitsFounded ==
    \A t \in All :
        /\ pc[t] \in {"unborn", "exiting", "done"} => scopes[t] = <<>>
        /\ pc[t] = "finish" =>
              /\ scopes[t] # <<>>
              /\ \A n \in DOMAIN scopes[t][1] : scopes[t][1][n] \notin handle
        /\ pc[t] \in {"join", "take"} =>
              call[t] \in Kids /\ call[t] \notin handle /\ Named(scopes[t], call[t])
        /\ pc[t] = "take" => pc[call[t]] = "done"

\* Among any threads one has no node of another: threads are linked into the
\* scopes of threads older than they are.
LinksAcyclic ==
    \A S \in SUBSET All :
        S # {} => \E t \in S : \A u \in S : ~Named(scopes[t], u)

\* A lock is held by the thread inside an operation or by the guard's owner.
LocksFounded ==
    /\ \A t \in All :
          /\ pc[t] \in {"lock", "read", "write"} => call[t] \in Cells
          /\ pc[t] \in {"read", "write"} => holder[call[t]] = t
    /\ \A c \in Cells : \A t \in All : holder[c] = t =>
          \/ pc[t] \in {"read", "write"} /\ call[t] = c
          \/ c = "mutex" /\ guard[t] # -1

IInv == /\ TypeOK /\ ~corrupt /\ Lifecycle /\ OneNode /\ WaitsFounded
        /\ LinksAcyclic /\ LocksFounded /\ CellsExact
=============================================================================
