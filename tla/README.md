# Verification of the Elamite compiler and its runtime

This directory holds TLA+ models of Elamite: the compiler (`src/`, Rust) and the C
runtime that the compiler emits into every program (`src/backend/runtime.rs`, with the
entry shim of `src/backend/entry.rs`). TLC checks each model on a small instance; TLAPS
proves the safety of the runtime (`Channel`, `SharedCell`, `Threads`, `ScopedThreads`,
`Store` and `Collections`) and of the expansion scheduler (`Scheduler`) for every instance. `PROJECT.json` lists components, runs, hazards, theorems and
the lines each definition models.

Checking: `tlc -config <cfg> <module>` for each run; `tlapm <module>` for each of
`CommonLemmas`, `ChannelProofs`, `SharedCellProofs`, `ThreadsProofs`, `StoreProofs`,
`ScopedThreadsProofs`, `CollectionsProofs` and `SchedulerProofs`.

## The system

The compiler is a pipeline (`docs/architecture.md`): packages and manifests are loaded,
sources lexed and parsed, compile-time syntax expanded to a fixed point, names resolved,
bodies checked (types, patterns, moves, borrows), lowered to a typed and then to a
control-flow representation with explicit cleanup, and emitted as one C program together
with the runtime helpers it uses. The compiler itself is sequential. What it emits is
not: threads, channels, shared ownership and mutexes are helpers that run concurrently.

| component | state it keeps | operations | what is hard | what makes it correct |
|---|---|---|---|---|
| channels (runtime) | queue, counters, closed flags, two condition variables, block | create, send, try_send, receive, try_receive, close, clone, drop | lost wakeups, rendezvous with several senders, who destroys | one owner of each message, no sleeper with work, one free |
| Shared / Weak (runtime) | strong, weak, value, block | new, get, downgrade, upgrade, clone, drop | upgrade against the last drop; drop glue between two critical sections | value outlives owners, block outlives handles, no leak |
| native threads (runtime) | registry, one state block per thread | spawn, join, is_finished, drop, shutdown at exit | shutdown against running threads that own handles | exit waits for all, results taken once |
| Store / Handle (runtime) | slots with generations, dense order, one process-wide counter | new, insert, get, remove, clear, compact, iterate, drop | reuse of slots, counters at their limit, unsynchronised counter | a handle finds its own element or traps |
| scoped threads, mutexes, atomics (runtime) | child list, lock, value | scope, spawn, join; lock, guard drop, get, set, update; atomic operations | join against scope end; guards held across a wait | every child is joined before the scope returns, no update is lost |
| collections (runtime) | length, capacity, keys, values | literals, insert, remove, get, clear, grow, clone, compare, hash, drop | replaced keys, stale cells past the length, equal keys found again | one owner of every element; a sequence, a mapping, a set |
| expansion scheduler | graph of work, ready set, budgets | enqueue, enqueue_definition, run | transitive recovery, cycles, limits | a fixed point within the budgets |
| expansion engine, namespace | syntax graph, active keys, import states | collect, resolve imports, transform, execute, splice | outputs that contain invocations; several attributes on one item; import cycles | it ends, nothing written is left behind, every failure is reported |
| compile-time interpreter | scopes, fuel, live bytes | admit, execute, quote | meters charged throughout; scopes left in the middle | a meter stops an execution and changes no result |
| name resolution | namespaces of modules, import states, scopes, reachability flags | collect, resolve imports, resolve bodies, check visibility | imports that meet and circle, shadowing, re-exports between packages | every name gets the meaning its place in the text gives it, or a report |
| types, traits | interner, substitutions, implementations | lower, unify, substitute, select, derive | overlap of patterns, recursive declarations | one implementation applies, queries end |
| ownership facts, drop plans | cache, visiting set | query, plan | recursive types in any order of queries | facts are the solution of their equations |
| type checker | types of locals, inference variables, depths | check each statement, expression, pattern, call | inference through several arguments; coverage; coercions | an accepted body does not go wrong |
| move and borrow checker | per-place states, loans, liveness | check each statement | joins, loops, early exits, defers | nothing is used after its move or while it is lent |
| control-flow lowering | blocks, scopes, drop flags, defers | lower each construct | cleanup on every exit edge | every value dropped exactly once |
| lexer, parser, formatter | tokens, syntax | tokenize, parse, format | layout | the grammar |
| packages, driver, tools | package graph, artifacts | build, check, test, run | cyclic dependencies, failing tests | deterministic order |

How they meet: the checker decides which programs exist (a value that is not `Send`
never crosses a thread, a dropped or moved value is never used), and the runtime helpers
rely on that. The runtime models take it as the guard of their calls: an endpoint,
handle or store can be used only while the program holds it, and dropped only when no
other thread borrows it. Those guards are the definitions marked external in the map.

## Modules

| module | models | composed with |
|---|---|---|
| `Channel` | `emit_channel_type_helpers`; clone and drop of `Sender` and `Receiver` | |
| `SharedCell` | `Shared` and `Weak` in `emit_shared_store_helpers`, `emit_clone_helper`, `emit_drop_helper` | |
| `Threads` | `emit_thread_helpers` and its parts, with the shutdown of `emit_entry` | |
| `ScopedThreads` | `emit_scoped_thread_helpers`, `emit_mutex_helpers`, `emit_atomic_helpers` | |
| `Store` | `Store` and `Handle` in `emit_shared_store_helpers`, `emit_drop_helper`; consuming loops | |
| `StructuralValues` | equality, order and hash of generated helpers | |
| `CollectionSpec` | what the manual says of `Vec`, `Map`, `Set` | |
| `Collections` | `emit_vec_helpers`, `emit_map_helpers`, `emit_set_helpers`, their clone and drop | refines `CollectionSpec`; helpers of `StructuralValues` |
| `Scheduler` | `expansion/scheduler.rs` | |
| `Interpreter` | `expansion/interpreter.rs` | |
| `Namespace` | `expansion/namespace.rs` | `Interpreter` |
| `Expansion` | `expansion/engine.rs` | `Scheduler`, `Namespace` |
| `OwnedProgram` | places, drop actions and flags (`collect_drop_actions`, `drop_paths_overlap`); the statements of a body | |
| `MoveCheck` | `check/moves.rs` | `OwnedProgram` |
| `BorrowCheck` | `check/borrows.rs` | `OwnedProgram` |
| `CleanupLowering` | `ir/control_flow/lower.rs`: scopes, defers, flags, exit edges | `MoveCheck` |
| `OwnedFunction` | the emitted C of one accepted body, step by step (`backend/functions.rs`) | the four above |
| `OwnershipFacts` | `types/ownership.rs`, drop plans of `ir/typed/lower.rs`, `emit_drop_helper` | |
| `TypeTerms` | `types/context.rs` | |
| `TraitRules` | selection and capabilities of `traits.rs` | `TypeTerms` |
| `DeclarationRules` | `types/lower.rs`, the checks of `traits.rs`, layout and containment | `TraitRules` |
| `StatementRules`, `ExpressionRules`, `CallRules`, `Checker` | `check/mod.rs`, `check/calls.rs`, `check/patterns.rs`, `check/coverage.rs` | each other, in this order |
| `Evaluation` | what a checked body means when it runs (a reference definition, not code) | `Checker` |
| `Resolution` | `resolution/collect.rs`, `imports.rs`, `bodies.rs`, `visibility.rs`, in the order of `Resolver::run` | |
| `NameMeaning` | what a name stands for (a reference definition, not code) | `Resolution` |
| `Typing` | the stages of `check_frontend` (`driver.rs`) | `Evaluation` |
| `ChannelProofs`, `SharedCellProofs`, `ThreadsProofs`, `StoreProofs`, `ScopedThreadsProofs`, `CollectionsProofs`, `SchedulerProofs` | proofs about the module each is named after | |
| `CommonLemmas` | what an element more or less does to a cardinality, least numbers, what a loop written as a recursive function keeps | |
| `MCxxx` | the instances TLC checks (`Threads` needs none: `Threads.cfg`, `ThreadsManual.cfg`) | |

### Channel

The variables are the fields of the emitted struct, plus the sets of threads asleep on
each condition variable, and for each thread where it is (`pc`), the endpoint it borrows
(`via`) and its argument. One action is one critical section: from the lock, or the
return of `pthread_cond_wait`, to the next wait or unlock. `SendCall`, `SendResume` and
`SendHandoff` are the three sections of a blocking `send`; `ReceiveCall` and
`ReceiveResume` the two of `receive`. A drop is its critical section (`DropSender`,
`DropReceiver`) and the tail after the unlock (`DropRelease`), which frees. `close`
calls the drop helper. Three history variables follow the messages: `fate` says what
became of each, and `sent` and `taken` list them in the order in which they were pushed and
moved out (`History` adds to both, whatever a step does to the list).
Spurious wakeups are steps. Allocation failure and counters at `UINTPTR_MAX` end the
program and are guards. Any thread may use any endpoint, because an endpoint is `Sync`.

### SharedCell

One block with its two counts. The drop of a `Shared` handle is four steps: the first
critical section, the value's drop glue, the second critical section, the free. The glue
runs outside the lock and may drop `Weak` handles that the value holds of its own block
(`inner`), which is the case that makes the second section necessary.

### Threads

Main and the threads it and they spawn. A join and the shutdown's `dispose_unclaimed`
run the same steps (lock `join_lock`, `pthread_join`, unregister, take the result and
free). `corrupt` records the use of a freed block: from there C defines nothing, so the
model stops. Handles move between threads (`Thread` is `Send`).

### Store

Store and slot identities, generations and the dense order. `order` and `issued` are
history variables: what the program inserted and which handle it got. The operations on
one store are atomic, since a store is not `Sync`; the identity counter is not, and
`StoreNew` is therefore a read and a write. `OneCreator` says that no two threads are
between the two; the runtime does not ensure it, and the instance has one thread.

### ScopedThreads

A thread has a stack of open scopes; a scope is its list of children, whose nodes `join`
clears. The end of a scope is one step per child (`FinishNext`), since the code takes the
nodes off one at a time and waits for each. Locking is `Acquire`, and `update`, `set` and
the atomic operations that read and write are a read, then a write, with the lock held.
Guards are locals of the body that took them. `ideal`, a history variable, is the value
of each cell if every operation were one step. That a `ScopedThread` and a guard stay with
their thread is the checker's business and is a guard of the actions. `Linked`, `Cleared`
and `Unlinked` are what a spawn, a join and the end of a scope do to the list of nodes.

### Collections

A block is the generated struct, with the cells past its length keeping what was there.
Every element is a numbered resource, so that `OwnedOnce` can say that each has exactly
one owner among blocks, the program and the destroyed. A reservation fails when it would
exceed `MaxWord`, and the program aborts. `ImplementsCollections` is the refinement: the
cells up to the length, read through `MeaningOf`, behave as the sequence, mapping
or set of `CollectionSpec`.

### Scheduler, Interpreter, Namespace, Expansion

The work list with parent, depth, state and reason. A request is its cycle key and its
location. Each piece of work has at most one prerequisite in this code, which is also
its parent. `next_ready`'s loop turns, `complete` and `fail` are actions; what an
execution returns is any of a set of outputs when the scheduler runs alone.

`Expansion` turns the engine's recursion into a stack of frames, so that every request to
the scheduler is a step and both halves can be seen in between. Its executions are those
of `Interpreter`: trees of nodes evaluated with fuel and live memory, every statement and
expression form included. `Namespace` resolves the imports of a graph once, at the start.
One unit of memory is one tree node; texts and spans are left out, except that two
invocations have one key when their tokens, without quotes, are the same.

### OwnershipFacts

An arena of types, asked about one after the other, in every order, with the cache
between; `Query` is the query with its visiting set, `Plan` the drop plan that the
lowering expands, and `Emit` the drop helpers the backend generates. `OwnershipExact`
compares the cached answers with `Solution`, where the equations of all types are
iterated together from the same seeds.

### Resolution, NameMeaning

A program is the expanded package graph: units with their items, and for each item the
tree of its types and body. `Collect` does everything up to the imports; then each import,
implementation block and declaration is resolved in a step of its own, in the order of
their numbers, as the loops of the code do; `CheckVisibility` is the last two passes. An
import is `Unresolved`, `Resolving`, `Resolved` or `Failed`, and `ResolveImport` enters
other imports from the middle of one. A body is a fold over the tree that threads the
resolver and a stack of scopes, since closures add declarations and every name may report.
Written names have addresses instead of spans; the home of a token that a quotation wrote
is a field of its node (`syntax_context_module` finds it by its file and span).

`NameMeaning` does not walk: it takes the names of all modules as a set, imports as the
least solution of what their paths say, and a local by the region of the text its binding
covers. `ImportsDenote` and `ReferencesExact` compare the two, reports included.

### TypeTerms to Typing

A program is a constant: declarations, implementations, functions, and the trees of their
bodies after resolution. Types are terms `<<kind, name, children>>`. `Typing` runs the
stages one after the other, one function at a time, and executes the functions named in
`Entries` once a program is accepted. The rules of the checker are pure operators, one or
two for each function of the Rust code, split where the recursion into the parts of a
node is; `Checker` holds the only recursion over a body. Where the code gives up on a node
the model goes on, which can add reports to a body that is rejected in any case.

`Evaluation` is the yardstick and is written from the manual, not from the code: it
executes the checked tree and is stuck where a value is not of the type recorded for it,
an immutable place is written, no arm applies, a callee is missing, or a result is. Traps
are not errors; raw pointers, standard operations and deferred blocks are not followed.

### OwnedProgram, MoveCheck, BorrowCheck, CleanupLowering, OwnedFunction

Modules that compose checker, lowering and execution: `OwnedFunction` starts from
any body of `Programs` that `MoveCheck` and `BorrowCheck` accept, with the code
`CleanupLowering` makes of it. The others are functions of the syntax tree, as in the
source, with one operator per function of the Rust code; `OwnedFunction` is a machine with
one action per instruction. Beside each reference the place it refers to and whether it may
still be used are recorded: an access that conflicts with a reference ends it, and
`BorrowsValid` says that an ended reference is not used on any path.

Types are reduced to five shapes (an owning scalar, a pair, an array, a struct with its
own `Drop`, an enum with a payload) and places to at most one projection, which is where
whole and partial moves, custom `Drop` and unknown indices differ. Diagnostics are
reduced to acceptance. Basic blocks become one sequence of instructions with relative
jumps. In the execution a move or a store copies bits and leaves the source as it was,
as the emitted C does, so only the drop flags say who owns a value; `status` is what
really became of it and `pending` the defers reached and not yet run (both history
variables). What a call returns, whether a condition holds and whether a `Result` is an
error are free choices.

Left out: closures and captures, dereferences, alternative patterns, destructuring
`let`, compound assignment, user-defined iterators and places of several projections.

## Runs

| run | instance | distinct states | result |
|---|---|---|---|
| `channel` | 3 threads, 2 endpoints of each kind, 2 messages, capacities 0, 1 and unbounded | 67,626 | pass |
| `shared_cell` | 3 threads; 4 Shared and 4 Weak handles, counts up to 4 | 260 (symmetry) | pass |
| `threads` | main and 2 threads | 3,020 | pass |
| `threads_manual` | the same | | violates `NoDoubleDestruction` |
| `scoped_threads` | main and 2 threads, 3 cells, values modulo 2 | 761,296 (symmetry) | pass |
| `store` | 3 stores, 4 items, generations up to 3, identities up to 2 | 15,724 (symmetry) | pass |
| `collections` | 2 names, 3 keys of which two are equal, capacities up to 3 | 109,182 (symmetry) | pass |
| `expansion` | the scheduler alone with 3 keys and 2 locations; the engine on 26 package graphs | 122,296 | pass |
| `ownership` | about 1,900 accepted bodies; loops repeat at most twice in a call | 119,187 | pass |
| `types` | arenas of up to five types, three queries each | 10,738 | pass |
| `typing` | 11,570 programs | 52,026 | pass |
| `resolution` | 7,367 package graphs | 76,032 | pass |

What they show:

- `channel`: `MemorySafe` and `Reclaimed` (freed once, by the last drop, not leaked),
  `QueueSound` (a message is in one place, messages are moved out in the order in which they
  were pushed, the queue is within its capacity, and for capacity zero a message is pushed
  only for a receiver that waits), `NoLostWakeup`; under fairness
  `DisconnectReleases` (a closed side wakes everyone) and `MessagesDelivered`: a queued
  message reaches a receiver that is waiting, and a rendezvous send returns `Ok` only
  after its own message was received.
- `shared_cell`: the counts are the handles, the value and the block live long enough
  and no longer.
- `threads`: the process exits only after every thread, grandchildren included;
  a result is taken once; until main returns no freed block is used; and the shutdown
  ends unless the program joins in a circle.
- `scoped_threads`: no child outlives its scope and each block is freed once, whichever of
  `join` and the end of the scope comes first (`ScopeSound`); cells hold what the
  operations in their order would leave (`CellsExact`); and a thread that can never go on
  waits, over other waits, for a guard that a thread in that circle holds
  (`BlockedByGuards`).
- `store`: a handle finds exactly its element, even at the last generation, and the
  order and the back indices survive removals; a consuming loop left at any point drops
  each item once.
- `collections`: every resource has one owner (`OwnedOnce`), and `ImplementsCollections`,
  the refinement.
- `expansion`: a run returns with nothing left waiting, within all budgets, with every
  recovery explained (`SchedulerSound`, `FixedPoint`); the active keys are those of the
  enclosing expansions (`ActiveIsEnclosing`); unless a failure was reported nothing is left
  to expand (`OutputSound`); an import stands for what its path leads to (`ImportsExact`); an
  execution that a meter does not stop has the result it would have without meters
  (`ExecutionSound`); and it all ends (`WorkEnds`).
- `ownership`: along every path of an accepted body, what is read or moved is there and
  nothing incomplete is destroyed (`AccessSound`), no value is destroyed twice and every
  value produced has been destroyed or handed over at a return (`DestroyedOnce`), each defer
  that was reached runs once, latest first (`DefersRunOnce`), and no reference is used after a conflicting access (`BorrowsValid`).
- `types`: the cached facts are the solution of their equations, also where a type refers
  to itself, and what is copied bit by bit owns nothing (`OwnershipExact`), and a plan names every owned
  part once, in reverse order (`PlanComplete`).
- `typing`: declarations that pass have unique and conforming selections and queries that
  end (`DeclarationsSound`); bodies that pass are never stuck (`CheckedSound`).
- `resolution`: on these graphs an import stands for what its path means wherever it is
  written among the others, and one is reported exactly when it means nothing or shows
  what is package-private, `DisplacedOrderPrograms` and `HiddenModulePrograms` excepted
  (`ImportsDenote`); every name of a declaration or
  body has the meaning the manual gives it (`ReferencesExact`); and without reports a package
  names nothing that another one hides, and shows nothing in its signatures that others
  cannot name (`Encapsulated`).

Bounds. Three threads are the least with which two of one kind compete for what one of
the other kind provides; two endpoints of each kind distinguish a drop from the last
drop; two messages make one wait behind another. Two kids give a thread that spawns and
joins another while main shuts down, and a scope inside a scoped thread. A generation of
3 lets a slot be reused and then retired; identities up to 2 let the counter run over.
Collections grow twice (`FirstCapacity` 1, `MaxWord` 3) and meet the limit; two keys that
are equal by content but not by address separate equality from identity. Every limit
of the scheduler and both meters are reached (`Executions` 5, `GeneratedNodes` 10,
`InterpreterSteps` 90, `LiveValueBytes` 150), and the graphs nest, repeat, fail, import in
circles and generate invocations. The arenas of `types` contain
the cycles that the containment check leaves, which go through references: shared ones from
a struct or an enum that owns something, and from one that owns nothing, alone or through a
second type, where the copy rests on the seed; and exclusive ones where something is
destroyed. Three queries let an answer rest on a cached one that rests on a cached one.

The bodies of `ownership` are families, each with two or three free positions filled with
every step of a list of uses, partial and whole moves, assignments, borrows and exits: a
place has to be moved, possibly refilled and used again to go wrong, which three positions
allow, and two repetitions let a loop meet its own effect. A `for` loop has two elements,
so that it can be left before, between and after them.

The programs of `typing` vary one thing around a common library: two blocks over each pair
of patterns (coherence, inherent), a method against its trait, each field type under each
derivation and capability, recursive and foreign declarations, annotations nested to depth
3, and in bodies each expression as initializer, argument, result, place and condition,
constants at the ends of 4-bit integers, matches of up to three arms, guards, early ends,
closures and standard types. Three iterations and four nested calls let a loop or a callee
meet the effect of an earlier one; deeper paths are cut, not judged. `QueryDepth` 12 is
more than any declaration in the families needs.

The graphs of `resolution` are eight families: up to four imports that lead to, through
and around each other within one package; public imports that take the place of a file
module; three packages one below the other, with every mixture of public and private on the
way up; signatures that mention what private modules, aliases and fields hide (the module
itself is shown only where it is public); bodies of
three statements out of thirteen, which nest and shadow two or three names; blocks, traits,
tests and standard modules; names given twice; and syntax whose home is another package.
Three statements let a name be bound, bound again in between and used.

Each property has a mutant: a definition changed as a plausible mistake would change it
(`Full_OffByOne`, `Pop_NoBroadcast`, `WeakUpgrade_Unchecked`...), kept next to the
definition it stands for, under which TLC finds the property violated.

### Disagreements with the manual

One has a run of its own:

- `threads_manual`. The shutdown disposes of threads whose handles other running
  threads still own, so a later join uses and frees a freed block. `docs/spec.md:29`
  excludes double destruction in safe code.

The others were met while modelling. Where a property or a family of programs is named,
checking that property, or adding that family to the instance, reproduces it; the passing
runs leave the family out, and the comment beside it says so. An item without a name was
read in the code and is not checked: the instances hold no program in which it decides, or
the model and the property both follow the code there.

Runtime:

- A `send` refused because the channel is closed loses its message (`ClosedSendReturnsValue`
  in `Channel`): `docs/spec.md:2073` says it is returned inside the failure value.
- Two threads that create stores at once may give them one identity, for the counter is not
  synchronised (`backend/runtime.rs:3964`); a handle then finds an element of another
  store (`WrongStoreTraps` with two threads; `docs/spec.md:1761`).
- A `Map` or `Set` literal with a repeated key overwrites or skips the earlier element
  without destroying it.

Moves, borrows and cleanup (`MCOwnership`):

- A deferred body is judged by the state at its registration, so a later move of what it
  mentions is accepted (`DeferPrograms`; `docs/spec.md:1692`).
- A pattern that binds the value of a matched local makes a second owner: the binding's
  drop flags are set and the local's are not cleared (`MatchPrograms`; `docs/spec.md:1663`).
- `a[i] = v` with an index known only at run time destroys every element, stores one and
  flags all; a move in the guard of an arm is not seen by the arms after it; a struct with
  its own `Drop` that was moved and refilled field by field counts as available although its
  own flag stays cleared; the payload of a matched temporary that a wildcard arm takes is
  never destroyed (`docs/spec.md:302`).
- `LostLoans` gathers bodies in which a loan is forgotten: `*edit = v` clears the loans of
  what `edit` points to (`check/borrows.rs:1146`, `docs/spec.md:361`); the condition of a
  `while` is judged once, with the state at entry; a reborrow of a reference that is itself a
  slot uses the place behind it.
- Read in the source only: `MutexLock` and guard accesses are missing from
  `collect_borrow_spans`; `&r` of a local is no use for liveness; `break` and `continue` fall
  through in liveness; bindings of patterns and of `for` get no provenance; `*r = owned`
  stores without destroying what was there.

Types and traits:

- An answer computed from an optimistic seed is cached (`types/ownership.rs:56`), so a type on
  a cycle may be said to be `Send` or `Sync` according to what was asked before
  (`CapabilitiesSound` with `CyclicEnvironments`).
- By the same seed a type that holds exclusive references to itself and nothing to destroy
  is said to be copied, although such references are not; and an alias on a cycle that is
  asked about in between makes what rests on it erroneous and a value below it undestroyed
  (`types/ownership.rs:45`; `OwnershipExact` with `BareCycles`).
- The containment check counts the arguments of every standard type as contained
  (`check/mod.rs:4181`), so that a struct with a `Vec`, `Box` or `Shared` of itself is
  rejected, although these break a cycle (`docs/spec.md:754`). Owning cycles are therefore
  in no arena of `types`.
- `type_has_drop_glue` (`backend/runtime.rs:4628`) omits mutexes, channels, threads and
  atomics (`GlueComplete`).
  `drop_actions` restarts its visited set below `Vec`, `Map`, `Set` and `Box`.
- Overlap of function types and trait objects is exact equality (`traits.rs:965`), while
  matching binds parameters inside them, so two blocks may both apply (`docs/spec.md:1329`).
- A method is compared with its trait without its safety and its generic parameters
  (`traits.rs:526`; `docs/spec.md:1802`).
- `provides_inner` recognises a recursion by the uninstantiated field type and may answer no
  for an instance nested in itself; it and `layout_inner` do not end on a declaration
  that contains itself with changing arguments, since they are asked before containment.
- The formation of a trait object ignores the arguments of the trait (`check/calls.rs:1228`).

Checker:

- A record pattern with `..` counts as irrefutable whatever its other fields are matched
  with (`check/patterns.rs:680`), so `Pair { first: true, .. }` alone is accepted although
  every match is exhaustive (`docs/spec.md:1397`; `MatchesExhaustive` of `Typing` with
  `Programs <- MCRestPrograms` in `MCTyping`).
- Arguments of operations of standard types are counted and not compared with their types
  (`check/calls.rs:3227`; `docs/spec.md:647`); so are index and key types
  (`check/mod.rs:3748`) and the operands of `&&` and `||` (`check/mod.rs:1852`).
- A method called through a generic bound is never unsafe (`check/mod.rs:2959`).
- A dynamic call does not look at the mutability of its receiver
  (`check/calls.rs:4660`); a field of an element of a collection is a mutable place
  whatever the collection is (`check/calls.rs:1118`).
- A callable field has its declared type, without the arguments of its owner
  (`check/calls.rs:2968`); an explicit owner argument of a function selected by trait is
  taken for one of its own (`check/calls.rs:2598`).
- A `let` or assignment that contains a diverging expression counts as the end of a body
  (`check/mod.rs:628`); an unknown member gives the error type without a report
  (`check/calls.rs:1099`).
- An element of an array after the first is not expected to have the first one's type
  (`check/mod.rs:3470`).

Expansion:

- The value of an execution that exceeds the node budget is spliced all the same, and
  nothing is reported (`engine.rs:592`, `docs/spec.md:2462`; `NoPartialSyntax`).
- Every request is a root of depth one (`engine.rs:571`): the limit on depth and the
  scheduler's cycle detection never apply, and attributes that generate attributes are
  bounded by `Executions` alone (`docs/spec.md:2437`, `:2456`).
- `m("x")` and `m(x)` have one structural text, which reports a cycle where there is none.
- Attachments of generated siblings are removed without being executed, as are those of a
  target that an attribute replaces by another kind; macros inside generated modules are
  not expanded (`docs/spec.md:2421`).
- `&&` and `||` evaluate both sides (`docs/spec.md:1411`); the meter of live bytes is
  never credited (`docs/spec.md:2460`); 128-bit arithmetic is unchecked; a literal such as
  `0xB1` loses its digits to `trim_start_matches` (`interpreter.rs:1300`); an alternative
  pattern keeps what a failed alternative has bound.
- A `super` at the root and an import of a lone dependency fail without a report; the
  visibility of a private import of another package is not checked.

Name resolution:

- Imports are not independent of their order (`docs/spec.md:181`) where a public one takes
  the place of a file module: `pub use self.y as a` before `use self.a as y` is accepted, and
  after it is a cycle of imports (`imports.rs:266`; `ImportsDenote` with
  `DisplacedOrderPrograms`).
- A dependency's alias wins over a declaration of that name in the module itself
  (`imports.rs:134`). `use i32` and `use std` meet themselves and report a cycle, although
  the prelude has the name.
- A private inline module may be shown by a public import, although only public
  declarations and file modules may be re-exported (`imports.rs:285`; `docs/spec.md:184`;
  `ImportsDenote` with `HiddenModulePrograms`).
- The signatures of public methods of an implementation block are never searched for hidden
  types (`visibility.rs:65`; `docs/spec.md:200`).
- In an expanded expression `self` is the module of the invocation, in an expanded type path
  that of the definition (`bodies.rs:930`, `:247`).
- A name that a module does not have is reported in a path and not after a dot in an
  expression; `root` in a source of the standard library fails without a report.
- `declaration_in_scope` looks for a trait under the name of its declaration, so that one
  imported under another name is not found.

### Fairness

- `Channel`: weak fairness of the steps of a call under way (`Resume`). A runnable
  thread gets the mutex eventually and helpers do not loop. Nothing obliges the program
  to make a call, so `MessagesDelivered` concerns a receiver already inside `receive`.
- `Threads`: weak fairness of steps inside helpers; strong fairness of the return of
  each body, an assumption on the program: it ends after finitely many calls. Circles of
  joins are excluded in the property, as the manual excludes them (`docs/spec.md:2051`).
- `Scheduler` and `Expansion`: weak fairness of the loop in `run` and of the engine's next
  step. Both are loops of a sequential program, and an execution ends since its fuel is
  limited.
- The other modules state safety only. That a scope ends is the safety property
  `BlockedByGuards`, for which TLC needs no graph search.

## Proofs

Each proof rests on an inductive invariant, defined next to the properties it is for and
checked by TLC before it was proved. In each, `NextIInv` has one case for every action,
and the lemmas before it say what one action, or one operator of the model, preserves.

- `ChannelProofs`: `ChannelTypeCorrect`, `ChannelMemorySafe`, `ChannelReclaimed`.
  `MemorySafe` is not inductive: that the drop which sees both counters at zero is alone
  follows only from the counters being the cardinalities of the live endpoints
  (`EndpointsCounted`), from every blocked call borrowing a live endpoint
  (`CallsBorrow`), and from the duty to destroy being given once (`DestroyedOnce`).
  `QueueCounted` keeps `count` and `waiting_receivers` natural. Assumed: finite sets of
  threads and endpoints, disjoint kinds, capacities in `Nat` (`ChannelAssumption`).
- `ChannelProofs`, second part: `ChannelQueueSound`, `ChannelNoLostWakeup` and
  `ChannelHandoffDelivers`, the safety half of `MessagesDelivered`: a rendezvous send returns
  `Ok` only for a message that was received. Above `IInv` stands `DeliveryInv`, whose parts
  need each other: a wakeup is not lost because `push` and `pop` wake whom they make able to
  go on, which takes the queue's bound (`Backpressure`); the bound for capacity zero
  takes that a push finds a receiver asleep (`SleepersWait`); and that the message handed
  over is the sender's own takes `Conservation` and `MessagesHeld`. That messages
  are not reordered is `Ordered`: while there is a receiver, what was pushed is what was moved
  out followed by the queue, and afterwards what was moved out is the beginning of it, for the
  last receiver takes the queue with it. It is inductive beside these as `OrderInv`
  (`PushOrders`, `PopOrders`, and `StillOrders` for every other change).
- `SharedCellProofs`: `CountsCorrect`, `ValueSafe`, `BlockSafe`, `NothingLeaked`. The
  invariant counts the weak reference that all owners have in common until the last of
  them has finished dropping the value (`CommonWeak`), and says which thread is in which
  part of a drop (`EndOfValue`, `EndOfBlock`). Assumed: finite sets of handles
  (`SharedCellAssumption`).
- `ThreadsProofs`: `ThreadsExitConsistent`, `ThreadsSafeUntilShutdown`,
  `ThreadsResultTakenOnce`. The shutdown looks only at the registry, so its exit has to
  imply that no thread is left which some other thread has created and not yet registered.
  `RegistersAcyclic` is why: threads do not register each other in a circle, so that of the
  threads still running one has no other of them about to register it, and is
  therefore in the registry (`EmptyRegistryMeansDone`). `BlocksHeld` and `BlocksReached`
  say who may still touch a state block, `CallsFounded` and `NamedOnce` that a handle is in one place;
  together they exclude a freed block until the shutdown begins, which is where
  `threads_manual` shows that they end. Assumed: finitely many threads.
- `StoreProofs`: `StoreTableConsistent`, `StoreItemsOnce`, `StoreLookupExact`. One lemma per
  operation on a table (`InsertedTable`, `RemovedTable`, `ClearedTable`, `TakenTable`) shows
  that the dense order and the back indices stay inverse to each other (`Dense`), in the
  order of insertion and with no generation below one that was issued. `TableConsistent` and
  `ItemsOnce` hold unconditionally. `LookupExact` is proved of the behaviours with
  `[]OneCreator`: then identities are not repeated (`IdentitiesUsed`), also when the counter
  runs over, since it stays at zero and creation traps. Without the hypothesis it is false,
  which is the unsynchronised counter listed above. Assumed: a generation can be at least 2
  and an identity at least 1, as with words of any width.
- `ScopedThreadsProofs`: `ScopesSound`, `ScopedCellsExact`, `ScopedBlockedByGuards`. The
  lemmas `EnteredStack` to `EndedStack` say what the operations on a stack of scopes keep.
  `OneNode` gives every child block at most one node, which only its scope or its `join`
  clears; `WaitsFounded` says whom a waiting thread waits for, and `LocksFounded` that a lock
  is held by a running operation or a guard. `LinksAcyclic`, that a thread is linked only
  into scopes of older ones, makes a circle that consists of joins and scope ends alone
  impossible, so one that waits for ever goes through a guard. Nothing is assumed finite.
- `CollectionsProofs`: `CollectionsOwnOnce`. The invariant says that a block has no resource
  in two of its cells in use (`Separate`), that no two blocks have one in common, and that
  what is held, dropped, handed out and overwritten are all resources, each in one of the four
  (`Partition`). Every operation is then an instance of one lemma, `Exchange`: a call replaces
  the cells of a block, and the cells it gives up and the resources it creates are those it
  stores, drops, returns or loses. The `Column` lemmas say what appending, replacing, opening
  and closing a gap do to the cells in use, `DoubledEnough` that the doubling of a capacity
  ends at one that suffices and does not exceed `MaxWord`, `LiteralLoop` what the entries of a
  literal do one after the other. Equality, hash, order and meaning of the elements are
  constants about which nothing is assumed: ownership does not depend on them. Assumed: the
  first capacity is at least one and not above `MaxWord` (`CollectionsAssumption`), and a name
  without a collection holds no block (`AbsentAssumption`).
- `CollectionsProofs`, second part: `CollectionsImplementSpec`, the refinement of
  `CollectionSpec`. `RInv` adds to the ownership of the cells that those in use hold keys and
  items, and that no two keys of a Map or a Set mean the same (`Filled`): without the latter a
  cell and an entry of the mapping would not correspond, and a removal would uncover an older
  entry. Cells are therefore counted by their meanings (`KeysCounted`), and each operation is
  one lemma, `ClearImplements` to `LiteralImplements`, that it keeps `Filled` and is a step of
  the abstract collection. The theorem is about elements whose helpers compare what they mean
  (`HelpersAgree`): equal elements mean the same and have one hash, the order of items is that
  of their meanings, and the helpers of the collections are those of the elements, in order
  for a Vec and in any order for a Map and a Set. Floating point, whose
  NaN is not equal to itself, does not satisfy it; it has no `Eq` and is no key, but a Vec may
  hold it, and of the `==` and the order of such a Vec the theorem says nothing. The hypothesis
  is about constants only, and TLC evaluates it for the helpers of `StructuralValues` in the
  run `collections`.
- `SchedulerProofs`: `SchedulerIsSound` and `SchedulerFixedPoint`, of the scheduler under any
  client of `enqueue`, `enqueue_definition` and `run` and any results of the executions. The
  invariant `Sound` is of the graph alone: a parent is older than its child (`Founded`), a
  depth is the length of its chain (`DepthCounted`), what was not recovered was admitted
  (`Admitted`), and what waits has above it work that may still complete, what does not wait
  nothing incomplete (`Waiting`). `ChainUnfolds` gives the recursive chain of parents its
  equation, which takes that it is well founded; `EnqueueInternalSound` is the one lemma
  about new work, and the loops over definitions and invocations keep the graph
  sound because each turn does (`LoopKeeps`). `Waiting` is why `run` returns only at a fixed point: the
  oldest of the work that still waits would have to wait for something ready or active
  (`WaitingHasWork`). Assumed: locations and limits are natural numbers and outputs are
  sequences of requests (`SchedulerAssumption`).

Only model-checked:

- All liveness, for the prover has neither fairness nor `ENABLED`: `DisconnectReleases`, the
  other half of `MessagesDelivered`, `ShutdownEnds` and `WorkEnds`.
- The engine (`Expansion`, with `Interpreter` and `Namespace`): `ActiveIsEnclosing`,
  `OutputSound`, `ImportsExact`, `ExecutionSound`. That the scheduler behaves inside the engine
  as it does alone is checked too: `SchedulerSound` and `FixedPoint` are properties of that run.
- The compiler's modules: `AccessSound`, `DestroyedOnce`, `DefersRunOnce`, `BorrowsValid`,
  `OwnershipExact`, `PlanComplete`, `DeclarationsSound`, `CheckedSound`, `ImportsDenote`,
  `ReferencesExact`, `Encapsulated`. Like the engine they are recursive operators over syntax
  trees, which the prover cannot follow, and their properties are inductions over such trees.

## Plan

Done: the concurrent runtime and the collections, expansion with its scheduler,
interpreter and namespace, moves, borrows and the lowering of cleanup, ownership facts,
types, traits and the checker, name resolution.

1. In `CallRules`: `thread.scope`, scoped spawn and `Mutex.update` (`check/calls.rs`
   1755-1920 and 3147-3225), which decide what the guards of `ScopedThreads` assume.
2. Proofs: the engine's stack of frames (`ActiveIsEnclosing`) over an interpreter taken as a
   parameter, so that no recursive operator is reached.

## Not modelled

- In name resolution: the bindings of intrinsics and foreign items (`collect.rs:606`),
  `declaration_in_scope`, and the interning of names and spans. The programs of `Typing`
  are written resolved, not taken from `Resolution`.
- Recursive descent over the grammar, text generation of the backend, formatting,
  documentation, scaffolding, other runtime helpers and file access: they have no state
  that interleaves or accumulates, or are pure input and output.
- The value model without ownership, which the emitter still supports, has no drops and is
  not what programs are compiled with. `experiments/genref` is not part of any build.
- In the checker: scopes of threads and `Mutex.update`, clones of standard types, the order
  of declarations in `types/lower.rs`.
- In the borrow checker and the lowering: closures and captures, dereferences, alternative
  patterns, destructuring `let`, compound assignment, user-defined iterators and places of
  several projections.
