----------------------------- MODULE SharedCell -----------------------------
(***************************************************************************)
(* The reference-counted block behind Shared[T] and Weak[T] in the emitted *)
(* C runtime: SharedNew, SharedGet, SharedDowngrade and WeakUpgrade        *)
(* (emit_shared_store_helpers), and the clone and drop helpers of both     *)
(* handle types (src/backend/runtime.rs).                                  *)
(*                                                                         *)
(* strong counts the Shared handles; weak counts the Weak handles plus one *)
(* that the Shared handles hold together.  A drop of a Shared handle is    *)
(* not atomic: the count is decremented under the lock, the value is       *)
(* dropped outside it, and the common weak count is given up under the     *)
(* lock again, so other threads may clone, upgrade and drop in between.    *)
(* One action is one critical section or one unlocked stretch.             *)
(***************************************************************************)
EXTENDS Naturals, FiniteSets

CONSTANTS Threads,      \* native threads
          SharedIds,    \* identities a Shared handle may have
          WeakIds,      \* identities a Weak handle may have
          CountMax,     \* UINTPTR_MAX
          None          \* no handle

ASSUME SharedCellAssumption ==
    /\ IsFiniteSet(SharedIds) /\ IsFiniteSet(WeakIds)
    /\ SharedIds \cap WeakIds = {}
    /\ None \notin SharedIds \cup WeakIds
    /\ CountMax \in Nat \ {0}

VARIABLES
    \* the block: both counts, whether its value is initialised, whether it
    \* has been handed to free()
    strong, weak, value, freed,
    \* the Shared and Weak handles the program holds, and the Weak handles
    \* that are stored inside the block's own value
    shared, weaks, inner,
    \* per thread: where it is in a call and the handle it borrows
    pc, via

vars == <<strong, weak, value, freed, shared, weaks, inner, pc, via>>

PCs == {"idle", "reading", "destroying", "releasing", "freeing"}

TypeOK ==
    /\ strong \in Nat /\ weak \in Nat
    /\ value \in {"alive", "dropped"} /\ freed \in BOOLEAN
    /\ shared \subseteq SharedIds /\ weaks \subseteq WeakIds /\ inner \subseteq WeakIds
    /\ pc \in [Threads -> PCs]
    /\ via \in [Threads -> SharedIds \cup {None}]

\* Faulty variant: the Shared handles hold no weak count.
Init_NoCommonWeak ==
    /\ strong = 1 /\ weak = 0 /\ value = "alive" /\ freed = FALSE
    /\ \E h \in SharedIds : shared = {h}
    /\ weaks = {} /\ inner = {}
    /\ pc = [t \in Threads |-> "idle"]
    /\ via = [t \in Threads |-> None]

\* SharedNew
Init ==
    /\ strong = 1 /\ weak = 1 /\ value = "alive" /\ freed = FALSE
    /\ \E h \in SharedIds : shared = {h}
    /\ weaks = {} /\ inner = {}
    /\ pc = [t \in Threads |-> "idle"]
    /\ via = [t \in Threads |-> None]

Goto(t, where) == pc' = [pc EXCEPT ![t] = where]

\* The identities a new Weak handle may take.
FreshWeak == WeakIds \ (weaks \cup inner)

-----------------------------------------------------------------------------
(* Clone of either handle, downgrade, upgrade.  A count at UINTPTR_MAX is    *)
(* fatal (el_out_of_memory), so the guards below leave that case out.        *)

CloneShared(t, h, f) ==
    /\ pc[t] = "idle" /\ h \in shared /\ f \in SharedIds \ shared
    /\ strong # CountMax
    /\ strong' = strong + 1 /\ shared' = shared \cup {f}
    /\ UNCHANGED <<weak, value, freed, weaks, inner, pc, via>>

CloneWeak(t, w, f) ==
    /\ pc[t] = "idle" /\ w \in weaks /\ f \in FreshWeak
    /\ weak # CountMax
    /\ weak' = weak + 1 /\ weaks' = weaks \cup {f}
    /\ UNCHANGED <<strong, value, freed, shared, inner, pc, via>>

\* Faulty variant: the new Weak handle is not counted.
SharedDowngrade_Uncounted(t, h, f) ==
    /\ pc[t] = "idle" /\ h \in shared /\ f \in FreshWeak
    /\ weaks' = weaks \cup {f}
    /\ UNCHANGED <<strong, weak, value, freed, shared, inner, pc, via>>

SharedDowngrade(t, h, f) ==
    /\ pc[t] = "idle" /\ h \in shared /\ f \in FreshWeak
    /\ weak # CountMax
    /\ weak' = weak + 1 /\ weaks' = weaks \cup {f}
    /\ UNCHANGED <<strong, value, freed, shared, inner, pc, via>>

\* Faulty variant: the test for a dead value is missing.
WeakUpgrade_Unchecked(t, w, f) ==
    /\ pc[t] = "idle" /\ w \in weaks /\ f \in SharedIds \ shared
    /\ strong # CountMax
    /\ strong' = strong + 1 /\ shared' = shared \cup {f}
    /\ UNCHANGED <<weak, value, freed, weaks, inner, pc, via>>

\* With strong at zero the answer is None and nothing changes.
WeakUpgrade(t, w, f) ==
    /\ pc[t] = "idle" /\ w \in weaks /\ f \in SharedIds \ shared
    /\ strong # 0 /\ strong # CountMax
    /\ strong' = strong + 1 /\ shared' = shared \cup {f}
    /\ UNCHANGED <<weak, value, freed, weaks, inner, pc, via>>

-----------------------------------------------------------------------------
(* SharedGet returns a pointer into the block that lives as long as the      *)
(* borrow of the handle.                                                     *)

SharedGet(t, h) ==
    /\ pc[t] = "idle" /\ h \in shared
    /\ Goto(t, "reading") /\ via' = [via EXCEPT ![t] = h]
    /\ UNCHANGED <<strong, weak, value, freed, shared, weaks, inner>>

EndBorrow(t) ==
    /\ pc[t] = "reading"
    /\ Goto(t, "idle") /\ via' = [via EXCEPT ![t] = None]
    /\ UNCHANGED <<strong, weak, value, freed, shared, weaks, inner>>

\* The program moves a Weak handle into the value (a mutex in it allows the
\* write), as a node with a link to its own block does.
KeepInside(t, w) ==
    /\ pc[t] = "reading" /\ w \in weaks
    /\ weaks' = weaks \ {w} /\ inner' = inner \cup {w}
    /\ UNCHANGED <<strong, weak, value, freed, shared, pc, via>>

-----------------------------------------------------------------------------
(* Drop of a Shared handle *)

\* First critical section: --strong; at zero the value is to be dropped.
DropShared(t, h) ==
    /\ pc[t] = "idle" /\ h \in shared /\ \A u \in Threads : via[u] # h
    /\ shared' = shared \ {h}
    /\ strong' = strong - 1
    /\ Goto(t, IF strong = 1 THEN "destroying" ELSE "idle")
    /\ UNCHANGED <<weak, value, freed, weaks, inner, via>>

\* Dropping the value runs its own drop glue: each Weak handle in it gives up
\* its count, in a critical section of its own.
DropInner(t, w) ==
    /\ pc[t] = "destroying" /\ w \in inner
    /\ inner' = inner \ {w}
    /\ weak' = weak - 1
    /\ freed' = (freed \/ weak = 1)
    /\ UNCHANGED <<strong, value, shared, weaks, pc, via>>

DropValue(t) ==
    /\ pc[t] = "destroying" /\ inner = {}
    /\ value' = "dropped"
    /\ Goto(t, "releasing")
    /\ UNCHANGED <<strong, weak, freed, shared, weaks, inner, via>>

\* Faulty variant: the weak count the Shared handles held is not given up.
ReleaseWeak_Kept(t) ==
    /\ pc[t] = "releasing"
    /\ Goto(t, "idle")
    /\ UNCHANGED <<strong, weak, value, freed, shared, weaks, inner, via>>

\* Second critical section: the Shared handles' common weak count.
ReleaseWeak(t) ==
    /\ pc[t] = "releasing"
    /\ weak' = weak - 1
    /\ Goto(t, IF weak = 1 THEN "freeing" ELSE "idle")
    /\ UNCHANGED <<strong, value, freed, shared, weaks, inner, via>>

\* Faulty variant: the block is freed when the value is gone, whatever the
\* weak count says.
DropWeak_IgnoresCount(t, w) ==
    /\ pc[t] = "idle" /\ w \in weaks
    /\ weaks' = weaks \ {w}
    /\ weak' = weak - 1
    /\ Goto(t, IF strong = 0 THEN "freeing" ELSE "idle")
    /\ UNCHANGED <<strong, value, freed, shared, inner, via>>

\* Drop of a Weak handle.
DropWeak(t, w) ==
    /\ pc[t] = "idle" /\ w \in weaks
    /\ weaks' = weaks \ {w}
    /\ weak' = weak - 1
    /\ Goto(t, IF weak = 1 THEN "freeing" ELSE "idle")
    /\ UNCHANGED <<strong, value, freed, shared, inner, via>>

\* After the unlock of either drop: destroy the mutex and free the block.
FreeBlock(t) ==
    /\ pc[t] = "freeing"
    /\ freed' = TRUE
    /\ Goto(t, "idle")
    /\ UNCHANGED <<strong, weak, value, shared, weaks, inner, via>>

-----------------------------------------------------------------------------
Next ==
    \E t \in Threads :
        \/ \E h, f \in SharedIds : CloneShared(t, h, f)
        \/ \E w, f \in WeakIds : CloneWeak(t, w, f)
        \/ \E h \in SharedIds, f \in WeakIds : SharedDowngrade(t, h, f)
        \/ \E w \in WeakIds, f \in SharedIds : WeakUpgrade(t, w, f)
        \/ \E h \in SharedIds : SharedGet(t, h) \/ DropShared(t, h)
        \/ \E w \in WeakIds : KeepInside(t, w) \/ DropInner(t, w) \/ DropWeak(t, w)
        \/ EndBorrow(t) \/ DropValue(t) \/ ReleaseWeak(t) \/ FreeBlock(t)

Spec == Init /\ [][Next]_vars

-----------------------------------------------------------------------------
(* Properties *)

At(where) == {t \in Threads : pc[t] = where}

\* The weak count the Shared handles hold together, while they still hold it.
CommonWeak == IF strong # 0 \/ At("destroying") \cup At("releasing") # {} THEN 1 ELSE 0

\* The counts are the handles: strong the Shared ones, weak the Weak ones
\* (inside the value or out) and the common one.
CountsAgree ==
    /\ strong = Cardinality(shared)
    /\ weak = Cardinality(weaks) + Cardinality(inner) + CommonWeak

\* As long as a Shared handle exists or a borrow of the value is in use, the
\* value is initialised and no thread has begun to drop it: an upgrade never
\* brings back a value whose last Shared handle is gone, and the value is
\* dropped once, by one thread.
ValueOutlivesOwners ==
    /\ shared # {} \/ At("reading") # {} =>
          value = "alive" /\ At("destroying") \cup At("releasing") = {}
    /\ \A t \in At("destroying") :
          value = "alive" /\ At("destroying") \cup At("releasing") = {t}

\* The block is touched only while it is allocated and freed once: with a
\* handle left, or a drop still to come back to the block, it is not freed,
\* and the thread about to free it is the only one that still knows it.
BlockOutlivesHandles ==
    /\ (shared \cup weaks \cup inner # {} \/ \E t \in Threads : pc[t] # "idle") => ~freed
    /\ \A t \in At("freeing") :
          /\ shared \cup weaks \cup inner = {}
          /\ \A u \in Threads \ {t} : pc[u] = "idle"

\* Nothing is leaked: when no handle is left and no call is under way, the
\* value has been dropped and the block freed.
Reclaimed ==
    (shared \cup weaks = {} /\ \A t \in Threads : pc[t] = "idle") =>
        value = "dropped" /\ freed

-----------------------------------------------------------------------------
(* The inductive invariant behind the four properties *)

\* Who borrows, borrows a handle the program still holds.
BorrowsLive ==
    \A t \in Threads : IF pc[t] = "reading" THEN via[t] \in shared ELSE via[t] = None

\* One thread at a time carries out the end of the value, after the last
\* Shared handle; the value is initialised up to that thread's DropValue.
EndOfValue ==
    /\ \A t, u \in Threads :
          pc[t] \in {"destroying", "releasing"} /\ pc[u] \in {"destroying", "releasing"}
             => t = u
    /\ \A t \in Threads : pc[t] \in {"destroying", "releasing"} => shared = {}
    /\ value = "alive" <=> (shared # {} \/ \E t \in Threads : pc[t] = "destroying")
    /\ inner # {} => value = "alive"
    /\ inner \cap weaks = {}

\* The weak count is zero exactly from the moment one thread has to free the
\* block.
EndOfBlock ==
    /\ weak = 0 <=> (freed \/ \E t \in Threads : pc[t] = "freeing")
    /\ \A t \in Threads : pc[t] = "freeing" => ~freed
    /\ \A t, u \in Threads : pc[t] = "freeing" /\ pc[u] = "freeing" => t = u

IInv == TypeOK /\ CountsAgree /\ BorrowsLive /\ EndOfValue /\ EndOfBlock
=============================================================================
