------------------------------ MODULE Threads ------------------------------
(***************************************************************************)
(* Threads of the emitted C runtime in the owned value model: spawn, join, *)
(* is_finished and the drop of a Thread handle, the process-wide registry  *)
(* and the shutdown that the entry shim runs after main returns            *)
(* (emit_thread_helpers, emit_thread_type_helpers and                      *)
(* emit_thread_spawn_helper in src/backend/runtime.rs; src/backend/entry.rs). *)
(*                                                                         *)
(* A spawned thread's state block is named by the thread it belongs to.    *)
(* Once a step uses a block that was handed to free() the behaviour of the *)
(* program is undefined; the model records it in corrupt and stops.        *)
(***************************************************************************)
EXTENDS Naturals, Sequences, FiniteSets, Functions

CONSTANTS Main,     \* the initial thread
          Kids,     \* the threads the program may create
          None      \* no thread

ASSUME ThreadsAssumption ==
    Main \notin Kids /\ None \notin Kids \cup {Main} /\ IsFiniteSet(Kids)

All == Kids \cup {Main}

VARIABLES
    registry,   \* el_thread_registry: the state of each node, newest first
    block,      \* per kid: its state block is "none", "allocated" or "freed"
    joined, finished, result, join_lock,    \* per kid: fields of the block
    handle,     \* per kid: the thread that owns its Thread handle, or None
    pc,         \* per thread: where it is
    target,     \* per thread: the kid its current call is about
    shutdown,   \* main's body has returned: el_thread_shutdown_all runs
    exited,     \* main has returned from its entry shim
    corrupt     \* a freed block has been used

stateVars == <<block, joined, finished, result, join_lock>>
vars == <<registry, stateVars, handle, pc, target, shutdown, exited, corrupt>>

PCs == {"unborn", "run", "register", "lock", "wait", "unregister", "claim",
        "exiting", "done", "pick"}

TypeOK ==
    /\ registry \in Seq(Kids \cup {None}) /\ Len(registry) <= Cardinality(Kids)
    /\ block \in [Kids -> {"none", "allocated", "freed"}]
    /\ joined \in [Kids -> BOOLEAN] /\ finished \in [Kids -> BOOLEAN]
    /\ result \in [Kids -> {"unset", "set", "moved", "dropped"}]
    /\ join_lock \in [Kids -> All \cup {None}]
    /\ handle \in [Kids -> All \cup {None}]
    /\ pc \in [All -> PCs]
    /\ target \in [All -> Kids \cup {None}]
    /\ shutdown \in BOOLEAN /\ exited \in BOOLEAN /\ corrupt \in BOOLEAN

Init ==
    /\ registry = <<>>
    /\ block = [k \in Kids |-> "none"]
    /\ joined = [k \in Kids |-> FALSE] /\ finished = [k \in Kids |-> FALSE]
    /\ result = [k \in Kids |-> "unset"]
    /\ join_lock = [k \in Kids |-> None]
    /\ handle = [k \in Kids |-> None]
    /\ pc = [t \in All |-> IF t = Main THEN "run" ELSE "unborn"]
    /\ target = [t \in All |-> None]
    /\ shutdown = FALSE /\ exited = FALSE /\ corrupt = FALSE

-----------------------------------------------------------------------------
(* Helpers *)

\* t is at a place, and the process is there to take a step.
At(t, where) == pc[t] = where /\ ~exited /\ ~corrupt

Goto(t, where, k) ==
    /\ pc' = [pc EXCEPT ![t] = where]
    /\ target' = [target EXCEPT ![t] = k]

\* A step that touches k's block: undefined if the block is gone.
Corrupts(k) ==
    /\ block[k] = "freed"
    /\ corrupt' = TRUE
    /\ UNCHANGED <<registry, stateVars, handle, pc, target, shutdown, exited>>

\* The locals and captures of t's body are dropped; dropping a Thread handle
\* only clears it.
DetachAll(t) == handle' = [k \in Kids |-> IF handle[k] = t THEN None ELSE handle[k]]

-----------------------------------------------------------------------------
(* spawn.  When pthread_create fails everything is undone and the answer is  *)
(* Err(Unavailable): no change.                                              *)

\* The block is set up and pthread_create starts the thread.
SpawnCreate(t, k) ==
    /\ At(t, "run") /\ At(k, "unborn")
    /\ block' = [block EXCEPT ![k] = "allocated"]
    /\ pc' = [pc EXCEPT ![t] = "register", ![k] = "run"]
    /\ target' = [target EXCEPT ![t] = k]
    /\ UNCHANGED <<registry, joined, finished, result, join_lock, handle, shutdown, exited, corrupt>>

\* Faulty variants: a second registration, and a shutdown that holds the
\* registry lock while it waits for a thread.
SpawnRegister_Twice(t) ==
    /\ At(t, "register")
    /\ registry' = <<target[t], target[t]>> \o registry
    /\ handle' = [handle EXCEPT ![target[t]] = t]
    /\ Goto(t, "run", None)
    /\ UNCHANGED <<stateVars, shutdown, exited, corrupt>>
SpawnRegister_LockedOut(t) ==
    /\ At(t, "register") /\ ~(shutdown /\ pc[Main] \in {"lock", "wait"})
    /\ registry' = <<target[t]>> \o registry
    /\ handle' = [handle EXCEPT ![target[t]] = t]
    /\ Goto(t, "run", None)
    /\ UNCHANGED <<stateVars, shutdown, exited, corrupt>>

\* el_thread_register, and Ok(handle) to the caller.
SpawnRegister(t) ==
    /\ At(t, "register")
    /\ registry' = <<target[t]>> \o registry
    /\ handle' = [handle EXCEPT ![target[t]] = t]
    /\ Goto(t, "run", None)
    /\ UNCHANGED <<stateVars, shutdown, exited, corrupt>>

\* The program moves a handle to another thread (a captured variable or a
\* message; Thread is Send when its result is).
MoveHandle(t, u, k) ==
    /\ At(t, "run") /\ handle[k] = t
    /\ pc[u] \notin {"unborn", "exiting", "done", "pick"}
    /\ handle' = [handle EXCEPT ![k] = u]
    /\ UNCHANGED <<registry, stateVars, pc, target, shutdown, exited, corrupt>>

DropHandle(t, k) ==
    /\ At(t, "run") /\ handle[k] = t
    /\ handle' = [handle EXCEPT ![k] = None]
    /\ UNCHANGED <<registry, stateVars, pc, target, shutdown, exited, corrupt>>

\* is_finished reads a flag of the block.
IsFinished(t, k) ==
    /\ At(t, "run") /\ handle[k] = t
    /\ Corrupts(k)

-----------------------------------------------------------------------------
(* The thread's entry function *)

\* The body returns: its result is published, and its locals and captures
\* are dropped.
BodyReturn(k) ==
    /\ At(k, "run")
    /\ \/ Corrupts(k)
       \/ /\ block[k] # "freed"
          /\ result' = [result EXCEPT ![k] = "set"]
          /\ DetachAll(k)
          /\ Goto(k, "exiting", None)
          /\ UNCHANGED <<registry, block, joined, finished, join_lock, shutdown, exited, corrupt>>

\* finished is set under status_lock and the entry function returns.
EntryReturn(k) ==
    /\ At(k, "exiting")
    /\ \/ Corrupts(k)
       \/ /\ block[k] # "freed"
          /\ finished' = [finished EXCEPT ![k] = TRUE]
          /\ Goto(k, "done", None)
          /\ UNCHANGED <<registry, block, joined, result, join_lock, handle, shutdown, exited, corrupt>>

-----------------------------------------------------------------------------
(* join, and the dispose_unclaimed that shutdown calls: both run _shutdown   *)
(* (lock, wait, unregister) and then take the result and free the block.     *)

\* Faulty variant: the handle survives the join.
Join_KeepsHandle(t, k) ==
    /\ At(t, "run") /\ handle[k] = t /\ t # k
    /\ \/ Corrupts(k)
       \/ /\ block[k] # "freed"
          /\ Goto(t, "lock", k)
          /\ UNCHANGED <<registry, stateVars, handle, shutdown, exited, corrupt>>

\* join consumes the handle.  A self-join traps, which ends the process.
Join(t, k) ==
    /\ At(t, "run") /\ handle[k] = t /\ t # k
    /\ \/ Corrupts(k)
       \/ /\ block[k] # "freed"
          /\ handle' = [handle EXCEPT ![k] = None]
          /\ Goto(t, "lock", k)
          /\ UNCHANGED <<registry, stateVars, shutdown, exited, corrupt>>

\* pthread_mutex_lock(&state->join_lock)
LockJoin(t) ==
    /\ At(t, "lock")
    /\ \/ Corrupts(target[t])
       \/ /\ block[target[t]] # "freed" /\ join_lock[target[t]] = None
          /\ join_lock' = [join_lock EXCEPT ![target[t]] = t]
          /\ Goto(t, "wait", target[t])
          /\ UNCHANGED <<registry, block, joined, finished, result, handle, shutdown, exited, corrupt>>

\* Faulty variant: the wait for the thread is missing.
AwaitThread_Skipped(t) ==
    /\ At(t, "wait")
    /\ joined' = [joined EXCEPT ![target[t]] = TRUE]
    /\ join_lock' = [join_lock EXCEPT ![target[t]] = None]
    /\ Goto(t, "unregister", target[t])
    /\ UNCHANGED <<registry, block, finished, result, handle, shutdown, exited, corrupt>>

\* pthread_join unless another caller already did, then the unlock.
AwaitThread(t) ==
    /\ At(t, "wait")
    /\ \/ Corrupts(target[t])
       \/ /\ block[target[t]] # "freed"
          /\ joined[target[t]] \/ pc[target[t]] = "done"
          /\ joined' = [joined EXCEPT ![target[t]] = TRUE]
          /\ join_lock' = [join_lock EXCEPT ![target[t]] = None]
          /\ Goto(t, "unregister", target[t])
          /\ UNCHANGED <<registry, block, finished, result, handle, shutdown, exited, corrupt>>

\* el_thread_unregister clears the first node that holds the state.
Unregister(t) ==
    /\ At(t, "unregister")
    /\ registry' = IF target[t] \in Range(registry)
                   THEN LET i == CHOOSE i \in DOMAIN registry :
                                    /\ registry[i] = target[t]
                                    /\ \A j \in 1..(i - 1) : registry[j] # target[t]
                        IN  [registry EXCEPT ![i] = None]
                   ELSE registry
    /\ Goto(t, "claim", target[t])
    /\ UNCHANGED <<stateVars, handle, shutdown, exited, corrupt>>

\* The result is moved out to the caller of join, or dropped by shutdown, and
\* the block is freed.
Claim(t) ==
    /\ At(t, "claim")
    /\ \/ Corrupts(target[t])
       \/ /\ block[target[t]] # "freed"
          /\ LET disposing == t = Main /\ shutdown IN
             /\ result' = [result EXCEPT ![target[t]] = IF disposing THEN "dropped" ELSE "moved"]
             /\ Goto(t, IF disposing THEN "pick" ELSE "run", None)
          /\ block' = [block EXCEPT ![target[t]] = "freed"]
          /\ UNCHANGED <<registry, joined, finished, join_lock, handle, shutdown, exited, corrupt>>

-----------------------------------------------------------------------------
(* The entry shim *)

\* main's body returns and its locals are dropped.
MainReturn ==
    /\ At(Main, "run") /\ ~shutdown
    /\ DetachAll(Main)
    /\ shutdown' = TRUE
    /\ Goto(Main, "pick", None)
    /\ UNCHANGED <<registry, stateVars, exited, corrupt>>

\* Faulty variant: the loop ends at the first cleared node.
ShutdownPick_StopsEarly ==
    /\ At(Main, "pick")
    /\ IF registry # <<>> /\ Head(registry) # None
       THEN Goto(Main, "lock", Head(registry)) /\ UNCHANGED exited
       ELSE Goto(Main, "done", None) /\ exited' = TRUE
    /\ UNCHANGED <<registry, stateVars, handle, shutdown, corrupt>>

\* One turn of el_thread_shutdown_all: the first node with a state, read under
\* the registry lock, is disposed of after the unlock; without one the process
\* exits.
ShutdownPick ==
    /\ At(Main, "pick")
    /\ IF Range(registry) \ {None} # {}
       THEN /\ Goto(Main, "lock",
                    registry[CHOOSE i \in DOMAIN registry :
                                /\ registry[i] # None
                                /\ \A j \in 1..(i - 1) : registry[j] = None])
            /\ UNCHANGED exited
       ELSE Goto(Main, "done", None) /\ exited' = TRUE
    /\ UNCHANGED <<registry, stateVars, handle, shutdown, corrupt>>

-----------------------------------------------------------------------------
\* A step inside a call, which the program cannot hold back.
Progress(t) ==
    \/ SpawnRegister(t) \/ LockJoin(t) \/ AwaitThread(t) \/ Unregister(t) \/ Claim(t)
    \/ t \in Kids /\ EntryReturn(t)
    \/ t = Main /\ ShutdownPick

Return(t) == (t = Main /\ MainReturn) \/ (t \in Kids /\ BodyReturn(t))

Call(t) ==
    \E k \in Kids :
        \/ SpawnCreate(t, k) \/ Join(t, k) \/ DropHandle(t, k) \/ IsFinished(t, k)
        \/ \E u \in All \ {t} : MoveHandle(t, u, k)

Next == \E t \in All : Progress(t) \/ Return(t) \/ Call(t)

Spec == Init /\ [][Next]_vars

\* Every thread is scheduled, and every body returns sooner or later: it can
\* make only so many calls before it does.
Fairness == \A t \in All : WF_vars(Progress(t)) /\ SF_vars(Return(t))

FairSpec == Spec /\ Fairness

-----------------------------------------------------------------------------
(* Properties *)

\* A normally exiting process has waited for every thread it created, claimed
\* or dropped every result and freed every block, grandchildren created while
\* the shutdown was under way included.
ExitWaitsForThreads ==
    exited => \A k \in Kids :
        \/ pc[k] = "unborn"
        \/ pc[k] = "done" /\ finished[k] /\ result[k] \in {"moved", "dropped"}
           /\ block[k] = "freed"

\* No exit leaves a thread behind, and no state is out of range on the way.
ExitConsistent == TypeOK /\ ExitWaitsForThreads

\* A result is taken once, by a join or by the shutdown, and only after the
\* thread's body published it and its entry function returned.
ResultTakenOnce ==
    [][\A k \in Kids : result[k] # result'[k] /\ result'[k] \in {"moved", "dropped"} =>
          result[k] = "set" /\ pc[k] = "done" /\ block[k] = "allocated"]_vars

\* Until main's body returns, no call uses a freed block, however handles
\* move between threads.
SafeUntilShutdown == corrupt => shutdown

\* Some threads wait for each other in a circle of joins.
JoinCycle ==
    \E S \in SUBSET Kids :
        S # {} /\ \A t \in S : pc[t] \in {"lock", "wait"} /\ target[t] \in S

\* Once main's body has returned the process exits, unless joins form a cycle
\* or a freed block is used.
ShutdownEnds == shutdown ~> (exited \/ JoinCycle \/ corrupt)

-----------------------------------------------------------------------------
(* The inductive invariant behind ExitConsistent, SafeUntilShutdown and     *)
(* ResultTakenOnce                                                          *)

\* t is registering k; t is on its way to take k's result and free its block,
\* by a join or by the shutdown; and the former alone.
Registers(t, k) == pc[t] = "register" /\ target[t] = k
Claims(t, k) == pc[t] \in {"lock", "wait", "unregister", "claim"} /\ target[t] = k
Joins(t, k) == Claims(t, k) /\ ~(t = Main /\ shutdown)

\* A block exists from the creation of its thread; it is freed after the
\* thread was joined, which is after the thread ended; and the result is in it
\* in between.
Lifecycle ==
    \A k \in Kids :
        /\ block[k] = "none" <=> pc[k] = "unborn"
        /\ pc[k] = "unborn" => handle[k] = None /\ k \notin Range(registry)
        /\ block[k] = "freed" => joined[k] /\ result[k] \in {"moved", "dropped"}
        /\ joined[k] => pc[k] = "done"
        /\ pc[k] = "done" => finished[k]
        /\ block[k] = "allocated" /\ pc[k] \in {"exiting", "done"} => result[k] = "set"

\* What a call is about was created; a call that is past its wait has joined
\* it; and only the initial thread, once its body returned, looks for threads
\* to dispose of.
CallsFounded ==
    \A t \in All :
        /\ pc[t] \in {"register", "lock", "wait", "unregister", "claim"} =>
              target[t] \in Kids /\ pc[target[t]] # "unborn"
        /\ pc[t] \in {"unregister", "claim"} => joined[target[t]]
        /\ pc[t] = "pick" => t = Main /\ shutdown

\* One thread registers a new thread, and before it has nobody can name the
\* thread; one thread joins it, and that thread consumed the handle.
NamedOnce ==
    \A k \in Kids :
        /\ \A t, u \in All : Registers(t, k) /\ Registers(u, k) => t = u
        /\ \A t, u \in All : Joins(t, k) /\ Joins(u, k) => t = u
        /\ \A t \in All : Registers(t, k) =>
              /\ handle[k] = None /\ k \notin Range(registry)
              /\ block[k] = "allocated"
              /\ \A u \in All : ~Claims(u, k)
        /\ \A t \in All : Joins(t, k) => handle[k] = None

\* Until main's body returns, whoever can name a block finds it allocated.
BlocksHeld ==
    /\ corrupt => shutdown
    /\ ~shutdown => \A k \in Kids :
          handle[k] # None \/ (\E t \in All : Claims(t, k)) => block[k] = "allocated"

\* No block is lost: the registry names it, or a thread that has yet to
\* register it or is about to free it.
BlocksReached ==
    \A k \in Kids :
        \/ block[k] \in {"none", "freed"}
        \/ k \in Range(registry)
        \/ \E t \in All : Registers(t, k) \/ (pc[t] = "claim" /\ target[t] = k)

\* No threads register each other in a circle: of any threads, one is not
\* registered by any of them.
RegistersAcyclic ==
    \A S \in SUBSET Kids :
        S # {} => \E k \in S : \A t \in S : ~Registers(t, k)

\* One node per registered thread.
Registered == {k \in Kids : pc[k] # "unborn" /\ \A t \in All : ~Registers(t, k)}
RegistryCounted == Len(registry) = Cardinality(Registered)

IInv == TypeOK /\ Lifecycle /\ CallsFounded /\ NamedOnce /\ BlocksHeld /\ BlocksReached
        /\ RegistersAcyclic /\ RegistryCounted /\ ExitWaitsForThreads

-----------------------------------------------------------------------------
\* Safe code cannot cause a double destruction: no call ever uses a freed
\* block.
NoDoubleDestruction == ~corrupt
=============================================================================
