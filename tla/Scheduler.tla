----------------------------- MODULE Scheduler -----------------------------
(***************************************************************************)
(* The scheduler of compile-time expansions (src/expansion/scheduler.rs):  *)
(* an append-only graph of work, a ready set ordered by location, graph-   *)
(* wide budgets, and recovery of what cannot run so that independent work  *)
(* continues.                                                              *)
(*                                                                         *)
(* A request is its cycle key (declaration, role and input: what repeats   *)
(* compares) and its place in the location order.  Each piece of work has  *)
(* at most one prerequisite, and that is also its parent in the active     *)
(* chain, so one field stands for both; 0 means none.  The ready set is    *)
(* the set of work whose state is Ready.                                   *)
(***************************************************************************)
EXTENDS Naturals, Sequences, FiniteSets

CONSTANTS Keys,             \* what requests can be equal in
          Locations,        \* places in the global location order, numbers
          Outputs,          \* what a successful execution may return
          ActiveDepth, Executions, GeneratedNodes,  \* ExpansionLimits
          MaxEnqueued       \* bound: work enqueued from outside

Requests == [key : Keys, location : Locations]

ASSUME SchedulerAssumption ==
    /\ Locations \subseteq Nat
    /\ {ActiveDepth, Executions, GeneratedNodes, MaxEnqueued} \subseteq Nat
    /\ \A o \in Outputs :
          /\ o.generated_nodes \in Nat
          /\ o.invocations \in Seq(Requests)
          /\ o.definitions \in Seq(Seq(Requests))

VARIABLES work,         \* the work in order of its identity
          usage,        \* executions and generated nodes charged so far
          enqueued,     \* how much was enqueued from outside
          running       \* run has been called and has not returned

vars == <<work, usage, enqueued, running>>

Init ==
    /\ work = <<>>
    /\ usage = [executions |-> 0, generated_nodes |-> 0]
    /\ enqueued = 0 /\ running = FALSE

-----------------------------------------------------------------------------
(* The graph *)

\* id and its chain of parents.
Chain(w, id) ==
    LET above[i \in 0..Len(w)] == IF i = 0 THEN {} ELSE {i} \cup above[w[i].parent]
    IN  above[id]

\* Faulty variant: only the direct parent is compared.
CycleChain_ParentOnly(w, request, parent) ==
    {a \in {parent} \ {0} : w[a].request.key = request.key}

\* cycle_chain: the ancestors a request repeats.
CycleChain(w, request, parent) ==
    {a \in Chain(w, parent) : w[a].request.key = request.key}

\* The number of executions active at once when work under parent runs.
Depth(w, parent) == IF parent = 0 THEN 1 ELSE w[parent].depth + 1

\* enqueue_internal: the new work is recovered for its depth or for a cycle,
\* or else takes the state its prerequisite gives it (refresh).
EnqueueInternal(w, request, parent) ==
    LET depth == Depth(w, parent)
        as(state, reason) == [request |-> request, parent |-> parent, depth |-> depth,
                              state |-> state, reason |-> reason]
    IN  Append(w,
            IF depth > ActiveDepth THEN as("Recovered", "ActiveDepth")
            ELSE IF CycleChain(w, request, parent) # {} THEN as("Recovered", "Cycle")
            ELSE IF parent = 0 \/ w[parent].state = "Completed" THEN as("Ready", "none")
            ELSE IF w[parent].state = "Recovered" THEN as("Recovered", "Dependency")
            ELSE as("Pending", "none"))

\* enqueue_definition_after: attributes, derives and invocations in one chain,
\* each waiting for the one before it.
EnqueueDefinition(w, definition, generated_by) ==
    LET after[n \in 0..Len(definition)] ==
            IF n = 0 THEN w
            ELSE EnqueueInternal(after[n - 1], definition[n],
                                 IF n = 1 THEN generated_by ELSE Len(after[n - 1]))
    IN  after[Len(definition)]

\* The generated work of one execution: invocations side by side, then
\* definitions.
EnqueueInvocations(w, invocations, id) ==
    LET after[n \in 0..Len(invocations)] ==
            IF n = 0 THEN w ELSE EnqueueInternal(after[n - 1], invocations[n], id)
    IN  after[Len(invocations)]

EnqueueOutput(w, output, id) ==
    LET after[n \in 0..Len(output.definitions)] ==
            IF n = 0 THEN EnqueueInvocations(w, output.invocations, id)
            ELSE EnqueueDefinition(after[n - 1], output.definitions[n], id)
    IN  after[Len(output.definitions)]

\* Faulty variants: dependents are not told, or repeat the reason.
Recover_NoCascade(w, id, reason) ==
    [w EXCEPT ![id].state = "Recovered", ![id].reason = reason]
Recover_RepeatsReason(w, id, reason) ==
    [i \in DOMAIN w |->
        IF i = id \/ (w[i].state = "Pending" /\ id \in Chain(w, i))
        THEN [w[i] EXCEPT !.state = "Recovered", !.reason = reason] ELSE w[i]]

\* recover: the work and, through refresh_dependents, all that waits for it.
\* Every reason but Dependency is also reported as a problem.
Recover(w, id, reason) ==
    [i \in DOMAIN w |->
        CASE i = id -> [w[i] EXCEPT !.state = "Recovered", !.reason = reason]
          [] i # id /\ w[i].state = "Pending" /\ id \in Chain(w, i) ->
                [w[i] EXCEPT !.state = "Recovered", !.reason = "Dependency"]
          [] OTHER -> w[i]]

\* The state of the graph when id completes: its dependents become ready.
Completed(w, id) ==
    [i \in DOMAIN w |->
        CASE i = id -> [w[i] EXCEPT !.state = "Completed"]
          [] w[i].state = "Pending" /\ w[i].parent = id -> [w[i] EXCEPT !.state = "Ready"]
          [] OTHER -> w[i]]

In(state) == {i \in DOMAIN work : work[i].state = state}

-----------------------------------------------------------------------------
(* The public operations: enqueue, enqueue_definition and run *)

Enqueue(request) ==
    /\ ~running /\ enqueued < MaxEnqueued
    /\ work' = EnqueueInternal(work, request, 0)
    /\ enqueued' = enqueued + 1
    /\ UNCHANGED <<usage, running>>

EnqueueDefinitionCall(definition) ==
    /\ ~running /\ enqueued + Len(definition) <= MaxEnqueued
    /\ work' = EnqueueDefinition(work, definition, 0)
    /\ enqueued' = enqueued + Len(definition)
    /\ UNCHANGED <<usage, running>>

Run ==
    /\ ~running
    /\ running' = TRUE
    /\ UNCHANGED <<work, usage, enqueued>>

\* The ready work that comes first by location, then by identity.
First ==
    CHOOSE i \in In("Ready") :
        \A j \in In("Ready") : LET li == work[i].request.location
                                   lj == work[j].request.location
                               IN  li < lj \/ (li = lj /\ i <= j)

\* Faulty variant: one execution too many.
NextReady_OffByOne ==
    /\ running /\ In("Active") = {} /\ In("Ready") # {}
    /\ IF usage.executions > Executions
       THEN work' = Recover(work, First, "Executions") /\ UNCHANGED usage
       ELSE /\ work' = [work EXCEPT ![First].state = "Active"]
            /\ usage' = [usage EXCEPT !.executions = @ + 1]
    /\ UNCHANGED <<enqueued, running>>

\* One turn of next_ready's loop: charge an execution, or recover the work if
\* none is left.
NextReady ==
    /\ running /\ In("Active") = {} /\ In("Ready") # {}
    /\ IF usage.executions >= Executions
       THEN work' = Recover(work, First, "Executions") /\ UNCHANGED usage
       ELSE /\ work' = [work EXCEPT ![First].state = "Active"]
            /\ usage' = [usage EXCEPT !.executions = @ + 1]
    /\ UNCHANGED <<enqueued, running>>

\* complete: charge the nodes and admit the output, or recover.
Complete(id, output) ==
    /\ running /\ id \in In("Active")
    /\ LET nodes == usage.generated_nodes + output.generated_nodes IN
       IF nodes > GeneratedNodes
       THEN work' = Recover(work, id, "GeneratedNodes") /\ UNCHANGED usage
       ELSE /\ work' = EnqueueOutput(Completed(work, id), output, id)
            /\ usage' = [usage EXCEPT !.generated_nodes = nodes]
    /\ UNCHANGED <<enqueued, running>>

\* Faulty variant: a failed execution is given its budget back and retried.
Fail_Retries(id) ==
    /\ running /\ id \in In("Active")
    /\ work' = [work EXCEPT ![id].state = "Ready"]
    /\ usage' = [usage EXCEPT !.executions = @ - 1]
    /\ UNCHANGED <<enqueued, running>>

\* fail: the executor answered Err, or one of its own meters is exhausted.
Fail(id) ==
    /\ running /\ id \in In("Active")
    /\ work' = Recover(work, id, "ExecutionFailure")
    /\ UNCHANGED <<usage, enqueued, running>>

RunReturns ==
    /\ running /\ In("Ready") \cup In("Active") = {}
    /\ running' = FALSE
    /\ UNCHANGED <<work, usage, enqueued>>

-----------------------------------------------------------------------------
Step ==
    \/ NextReady \/ RunReturns
    \/ \E id \in In("Active") : Fail(id) \/ \E output \in Outputs : Complete(id, output)

Next ==
    \/ Step \/ Run
    \/ \E request \in Requests : Enqueue(request)
    \/ \E r1, r2 \in Requests : EnqueueDefinitionCall(<<r1, r2>>)

Spec == Init /\ [][Next]_vars

-----------------------------------------------------------------------------
(* Properties *)

\* A fixed point: when run returns nothing is left waiting, so every piece of
\* work, however it was generated, has run to completion or has been recovered.
FixedPoint ==
    [][running /\ ~running' => \A i \in DOMAIN work : work[i].state \in {"Completed", "Recovered"}]_vars

\* Every recovery has one reported cause: work recovered for a dependency
\* hangs below work that is reported, and a failed or over-budget execution
\* is reported itself and not once more for what waited for it.
Explained(w) ==
    \A i \in DOMAIN w : w[i].state = "Recovered" =>
        LET up == w[i].parent IN
        /\ w[i].reason = "Dependency" => up # 0 /\ w[up].state = "Recovered"
        /\ w[i].reason \in {"ExecutionFailure", "Executions", "GeneratedNodes"} =>
              up = 0 \/ w[up].state = "Completed"
RecoveryExplained == Explained(work)

\* The budgets of the whole graph hold, and no syntax comes from work that
\* did not complete: what runs has a completed parent and an allowed depth.
BudgetsHold ==
    /\ usage.executions <= Executions
    /\ usage.generated_nodes <= GeneratedNodes
    /\ Cardinality(In("Active")) <= 1
    /\ \A i \in In("Ready") \cup In("Active") \cup In("Completed") :
          /\ work[i].parent = 0 \/ work[work[i].parent].state = "Completed"
          /\ work[i].depth <= ActiveDepth
          /\ work[i].depth = Cardinality(Chain(work, i))

\* No execution re-enters a declaration, role and input that is already in its
\* chain.
NoReentry ==
    \A i \in In("Ready") \cup In("Active") \cup In("Completed") :
        \A a, b \in Chain(work, i) : work[a].request.key = work[b].request.key => a = b

\* The scheduler keeps its budgets, re-enters nothing and explains what it gives
\* up, as its own client's and as the engine's scheduler.
SchedulerSound == RecoveryExplained /\ BudgetsHold /\ NoReentry

\* run always returns, whatever the executions generate.
RunEnds == running ~> ~running

-----------------------------------------------------------------------------
(* The inductive invariant behind them: what is true of every graph *)

States == {"Pending", "Ready", "Active", "Completed", "Recovered"}
Reasons == {"none", "ActiveDepth", "Cycle", "Dependency", "Executions", "GeneratedNodes",
            "ExecutionFailure"}
Pieces == [request : Requests, parent : Nat, depth : Nat, state : States, reason : Reasons]
Works == Seq(Pieces)

\* A parent is older than its child, so that chains end.
Founded(w) == \A i \in DOMAIN w : w[i].parent < i

\* The depth is the length of the chain.
DepthCounted(w) == \A i \in DOMAIN w : w[i].depth = Cardinality(Chain(w, i))

\* What was not given up was admitted: its depth is allowed, and no two of its
\* chain have one key.
Admitted(w) ==
    \A i \in DOMAIN w : w[i].state # "Recovered" =>
        /\ w[i].depth <= ActiveDepth
        /\ \A a, b \in Chain(w, i) : w[a].request.key = w[b].request.key => a = b

\* What waits, waits for work that may still complete; what does not wait has
\* nothing incomplete above it.
Waiting(w) ==
    \A i \in DOMAIN w :
        /\ w[i].state = "Pending" => /\ w[i].parent # 0
                                     /\ w[w[i].parent].state \in {"Pending", "Ready", "Active"}
        /\ w[i].state \in {"Ready", "Active", "Completed"} =>
              \A a \in Chain(w, w[i].parent) : w[a].state = "Completed"

Sound(w) ==
    w \in Works /\ Founded(w) /\ DepthCounted(w) /\ Admitted(w) /\ Waiting(w) /\ Explained(w)

\* One execution at a time, and none between two calls of run.
OneActive ==
    /\ \A i, j \in In("Active") : i = j
    /\ ~running => In("Active") = {}

IInv ==
    /\ Sound(work) /\ OneActive
    /\ usage \in [executions : 0..Executions, generated_nodes : 0..GeneratedNodes]
    /\ enqueued \in Nat /\ running \in BOOLEAN
=============================================================================
