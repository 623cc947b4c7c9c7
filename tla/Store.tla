------------------------------- MODULE Store -------------------------------
(***************************************************************************)
(* Store[T] and its handles in the emitted C runtime                       *)
(* (emit_shared_store_helpers and the Store branch of emit_drop_helper in  *)
(* src/backend/runtime.rs, the consuming iteration of                      *)
(* src/backend/functions.rs).                                              *)
(*                                                                         *)
(* A handle is a store identity, a slot and a generation.  A Store is Send *)
(* and not Sync, so the operations on one store do not overlap and each is *)
(* one action; creating a store reads and then increments one process-wide *)
(* counter without a lock, so it is two.                                   *)
(***************************************************************************)
EXTENDS Naturals, Sequences, FiniteSets, Functions, SequencesExt

CONSTANTS Threads,          \* threads that create stores
          StoreIds,         \* the stores the program creates
          Items,            \* values, each inserted at most once
          InitialCapacity,  \* slots of the first allocation; 4 in the code
          GenerationMax,    \* the greatest generation, UINTPTR_MAX
          IdentityMax,      \* the greatest store identity, UINTPTR_MAX
          None              \* no store, no item

Slots == [value : Items \cup {None}, generation : 1..GenerationMax,
          dense_index : Nat, occupied : BOOLEAN]
Tables == [identity : 1..IdentityMax, slots : Seq(Slots), live_slots : Seq(Nat)]
Creations == [store : StoreIds, identity : 1..IdentityMax]
Handles == [store : 1..IdentityMax, slot : Nat, generation : 1..GenerationMax]

ASSUME StoreAssumption ==
    /\ None \notin StoreIds \cup Items \cup Nat
    /\ None \notin Tables /\ None \notin Creations
    /\ InitialCapacity \in Nat \ {0}
    /\ GenerationMax \in Nat \ {0, 1} /\ IdentityMax \in Nat \ {0}

VARIABLES
    el_next_store_identity,
    stores,     \* per store: its fields, or None before and after its life
    cursor,     \* per store: how far a consuming loop is, None without one
    creating,   \* per thread: the store it creates and the identity it read
    issued,     \* the handles insert has returned: what each stands for
    order,      \* per store: its items in the order they were inserted
    fate        \* per item: who has it

vars == <<el_next_store_identity, stores, cursor, creating, issued, order, fate>>

TypeOK ==
    /\ el_next_store_identity \in 0..IdentityMax
    /\ stores \in [StoreIds -> Tables \cup {None}]
    /\ cursor \in [StoreIds -> Nat \cup {None}]
    /\ creating \in [Threads -> Creations \cup {None}]
    /\ issued \subseteq [handle : Handles, store : StoreIds, item : Items]
    /\ order \in [StoreIds -> Seq(Items)]
    /\ fate \in [Items -> {"owned", "stored", "moved", "dropped"}]

Init ==
    /\ el_next_store_identity = 1
    /\ stores = [s \in StoreIds |-> None]
    /\ cursor = [s \in StoreIds |-> None]
    /\ creating = [t \in Threads |-> None]
    /\ issued = {}
    /\ order = [s \in StoreIds |-> <<>>]
    /\ fate = [x \in Items |-> "owned"]

-----------------------------------------------------------------------------
(* StoreNew: el_next_store_identity++ is a read and a write, unsynchronised. *)

\* t may create s: a store that is new to the program.
MayCreate(t, s) ==
    /\ creating[t] = None /\ stores[s] = None /\ order[s] = <<>>
    /\ \A g \in issued : g.store # s
    /\ \A u \in Threads : creating[u] # None => creating[u].store # s

\* Faulty variant: the counter that has run over is not noticed.
StoreNewRead_Unchecked(t, s) ==
    /\ MayCreate(t, s)
    /\ creating' = [creating EXCEPT ![t] = [store |-> s, identity |-> el_next_store_identity]]
    /\ UNCHANGED <<el_next_store_identity, stores, cursor, issued, order, fate>>

StoreNewRead(t, s) ==
    /\ MayCreate(t, s)
    /\ el_next_store_identity # 0               \* el_out_of_memory otherwise
    /\ creating' = [creating EXCEPT ![t] = [store |-> s, identity |-> el_next_store_identity]]
    /\ UNCHANGED <<el_next_store_identity, stores, cursor, issued, order, fate>>

StoreNewWrite(t) ==
    /\ creating[t] # None
    /\ el_next_store_identity' = (creating[t].identity + 1) % (IdentityMax + 1)
    /\ stores' = [stores EXCEPT ![creating[t].store] =
                    [identity |-> creating[t].identity, slots |-> <<>>, live_slots |-> <<>>]]
    /\ creating' = [creating EXCEPT ![t] = None]
    /\ UNCHANGED <<cursor, issued, order, fate>>

-----------------------------------------------------------------------------
(* StoreInsert.  Slots are numbered from zero in a handle and in live_slots; *)
(* slot i is slots[i + 1].                                                   *)

EmptySlot == [value |-> None, generation |-> 1, dense_index |-> 0, occupied |-> FALSE]

\* Faulty variant: a slot is reused for ever.
Reusable_Always(slot) == ~slot.occupied

\* A slot may be reused unless its generation is used up.
Reusable(slot) == ~slot.occupied /\ slot.generation # GenerationMax

\* The allocation after growth, if no slot can be reused.
Grown(slots) ==
    IF \E i \in DOMAIN slots : Reusable(slots[i]) THEN slots
    ELSE slots \o [i \in 1..(IF slots = <<>> THEN InitialCapacity ELSE Len(slots)) |-> EmptySlot]

FirstReusable(slots) ==
    CHOOSE i \in DOMAIN slots :
        Reusable(slots[i]) /\ \A j \in 1..(i - 1) : ~Reusable(slots[j])

\* The program still holds the store: it is not consumed by a loop or a drop.
Held(s) == stores[s] # None /\ cursor[s] = None

\* The table with x in slot i of slots, which are the table's own or grown.
Inserted(st, slots, i, x) ==
    [identity |-> st.identity,
     slots |-> [slots EXCEPT ![i] =
                  [value |-> x, generation |-> @.generation,
                   dense_index |-> Len(st.live_slots), occupied |-> TRUE]],
     live_slots |-> Append(st.live_slots, i - 1)]

\* What insert returns for x in slot i of s, with x.
Entry(s, st, i, x) ==
    [handle |-> [store |-> st.identity, slot |-> i - 1, generation |-> st.slots[i].generation],
     store |-> s, item |-> x]

StoreInsert(s, x) ==
    /\ Held(s) /\ fate[x] = "owned"
    /\ LET slots == Grown(stores[s].slots)
           i == FirstReusable(slots)
           st == Inserted(stores[s], slots, i, x)
       IN  /\ stores' = [stores EXCEPT ![s] = st]
           /\ issued' = issued \cup {Entry(s, st, i, x)}
    /\ order' = [order EXCEPT ![s] = Append(@, x)]
    /\ fate' = [fate EXCEPT ![x] = "stored"]
    /\ UNCHANGED <<el_next_store_identity, cursor, creating>>

-----------------------------------------------------------------------------
(* Lookup, the test that get, get_var and remove share *)

Lookup(s, h) ==
    LET st == stores[s] IN
    CASE h.store # st.identity -> "E-RUN-WRONG-STORE"
      [] h.store = st.identity /\
         \/ h.slot >= Len(st.slots)
         \/ ~st.slots[h.slot + 1].occupied
         \/ st.slots[h.slot + 1].generation # h.generation -> "E-RUN-STALE"
      [] OTHER -> st.slots[h.slot + 1].value

Traps == {"E-RUN-WRONG-STORE", "E-RUN-STALE"}

\* The slot after its value is gone: the generation moves on, but stays at
\* its greatest value.
Vacate(slot) ==
    [slot EXCEPT !.occupied = FALSE,
                 !.generation = IF @ # GenerationMax THEN @ + 1 ELSE @]

\* Faulty variant: the slots keep the places they had.
Renumber_Skipped(slots, moved) == slots

\* The slots whose place in live_slots moved down by one.
Renumber(slots, moved) ==
    [j \in DOMAIN slots |->
        IF j - 1 \in moved THEN [slots[j] EXCEPT !.dense_index = @ - 1] ELSE slots[j]]

\* The table without the value in slot i: the gap in live_slots is closed, and
\* the slots behind it are renumbered.
Removed(st, i) ==
    LET d == st.slots[i].dense_index
        live == RemoveAt(st.live_slots, d + 1)
        slots == Renumber(st.slots, {live[k] : k \in (d + 1)..Len(live)})
    IN  [identity |-> st.identity, slots |-> [slots EXCEPT ![i] = Vacate(@)],
         live_slots |-> live]

\* A lookup that traps ends the process.
StoreRemove(s, h) ==
    /\ Held(s) /\ Lookup(s, h) \notin Traps
    /\ stores' = [stores EXCEPT ![s] = Removed(@, h.slot + 1)]
    /\ \E k \in DOMAIN order[s] :
          /\ order[s][k] = Lookup(s, h)
          /\ order' = [order EXCEPT ![s] = RemoveAt(@, k)]
    /\ fate' = [fate EXCEPT ![Lookup(s, h)] = "moved"]
    /\ UNCHANGED <<el_next_store_identity, cursor, creating, issued>>

-----------------------------------------------------------------------------
(* clear, the consuming loop, and the drop of the store.  compact copies     *)
(* both arrays unchanged and get only reads.                                 *)

Occupied(s) == {st \in Range(stores[s].slots) : st.occupied}

DropItems(xs) == fate' = [x \in Items |-> IF x \in xs THEN "dropped" ELSE fate[x]]

Cleared(st) ==
    [identity |-> st.identity,
     slots |-> [i \in DOMAIN st.slots |->
                  IF st.slots[i].occupied THEN Vacate(st.slots[i]) ELSE st.slots[i]],
     live_slots |-> <<>>]

StoreClear(s) ==
    /\ Held(s)
    /\ DropItems({slot.value : slot \in Occupied(s)})
    /\ stores' = [stores EXCEPT ![s] = Cleared(@)]
    /\ order' = [order EXCEPT ![s] = <<>>]
    /\ UNCHANGED <<el_next_store_identity, cursor, creating, issued>>

LoopStart(s) ==
    /\ Held(s)
    /\ cursor' = [cursor EXCEPT ![s] = 0]
    /\ UNCHANGED <<el_next_store_identity, stores, creating, issued, order, fate>>

\* Faulty variant: the element is copied out and its slot stays occupied.
LoopNext_Copies(s) ==
    /\ stores[s] # None /\ cursor[s] # None /\ cursor[s] < Len(stores[s].live_slots)
    /\ LET i == stores[s].live_slots[cursor[s] + 1] + 1 IN
          fate' = [fate EXCEPT ![stores[s].slots[i].value] = "moved"]
    /\ cursor' = [cursor EXCEPT ![s] = @ + 1]
    /\ order' = [order EXCEPT ![s] = Tail(@)]
    /\ UNCHANGED <<el_next_store_identity, stores, creating, issued>>

\* The table after the value in slot i was copied out.
Taken(st, i) == [st EXCEPT !.slots[i].occupied = FALSE]

\* The loop takes its next element out of the slot.
LoopNext(s) ==
    /\ stores[s] # None /\ cursor[s] # None /\ cursor[s] < Len(stores[s].live_slots)
    /\ LET i == stores[s].live_slots[cursor[s] + 1] + 1 IN
       /\ stores' = [stores EXCEPT ![s] = Taken(@, i)]
       /\ fate' = [fate EXCEPT ![stores[s].slots[i].value] = "moved"]
    /\ cursor' = [cursor EXCEPT ![s] = @ + 1]
    /\ order' = [order EXCEPT ![s] = Tail(@)]
    /\ UNCHANGED <<el_next_store_identity, creating, issued>>

\* The drop of a held store, or of the rest at the end of a loop or a break.
DropStore(s) ==
    /\ stores[s] # None
    /\ DropItems({slot.value : slot \in Occupied(s)})
    /\ stores' = [stores EXCEPT ![s] = None]
    /\ cursor' = [cursor EXCEPT ![s] = None]
    /\ order' = [order EXCEPT ![s] = <<>>]
    /\ UNCHANGED <<el_next_store_identity, creating, issued>>

-----------------------------------------------------------------------------
Next ==
    \/ \E t \in Threads : StoreNewWrite(t) \/ \E s \in StoreIds : StoreNewRead(t, s)
    \/ \E s \in StoreIds :
          \/ \E x \in Items : StoreInsert(s, x)
          \/ \E g \in issued : StoreRemove(s, g.handle)
          \/ StoreClear(s) \/ LoopStart(s) \/ LoopNext(s) \/ DropStore(s)

Spec == Init /\ [][Next]_vars

-----------------------------------------------------------------------------
(* Properties *)

\* A handle finds its own item, for as long as that is in its store, and
\* nothing else ever: a lookup in another store traps as such, and a lookup
\* after removal traps as stale however often the slot has been reused,
\* cleared or retired since.
LookupExact ==
    \A g \in issued, s \in StoreIds : Held(s) =>
        Lookup(s, g.handle) = IF g.store # s THEN "E-RUN-WRONG-STORE"
                              ELSE IF g.item \in Range(order[s]) THEN g.item
                              ELSE "E-RUN-STALE"

\* How far the loop over s has come.
Done(s) == IF cursor[s] = None THEN 0 ELSE cursor[s]

\* The elements in the order live_slots gives are those inserted and not yet
\* removed, in the order of their insertion, whatever was removed in between,
\* and the back index of each slot is its place in that order.  A consuming
\* loop has the rest of the order before it.
InsertionOrder ==
    \A s \in StoreIds : stores[s] # None =>
        LET st == stores[s]
            n == Len(st.live_slots)
        IN  /\ n <= Len(st.slots)
            /\ order[s] = [k \in 1..(n - Done(s)) |->
                              st.slots[st.live_slots[Done(s) + k] + 1].value]
            /\ \A k \in 1..n : st.slots[st.live_slots[k] + 1].dense_index = k - 1

\* The table stays consistent: its fields in range and its order exact.
TableConsistent == TypeOK /\ InsertionOrder

\* Slot i of the table st has x.
Has(st, i, x) ==
    st # None /\ i \in DOMAIN st.slots /\ st.slots[i].occupied /\ st.slots[i].value = x

\* An item is stored exactly while one store has it in an occupied slot, so
\* that removal, clear, loop and drop move it out or drop it once, and none is
\* left behind by a store that is gone.
ItemsOnce ==
    \A x \in Items :
        LET places == UNION {{s} \X {i \in DOMAIN stores[s].slots : Has(stores[s], i, x)}
                             : s \in {s \in StoreIds : stores[s] # None}}
        IN  /\ fate[x] = "stored" <=> places # {}
            /\ \A p, q \in places : p = q

\* The manual's rule that a lookup in the wrong store traps.
WrongStoreTraps ==
    \A g \in issued, s \in StoreIds :
        Held(s) /\ s # g.store => Lookup(s, g.handle) \in Traps

-----------------------------------------------------------------------------
(* The inductive invariant of StoreProofs *)

\* live_slots lists the slots that are or, before the loop came by, were
\* occupied, and each of them points back.
Dense(st, done) ==
    /\ done <= Len(st.live_slots)
    /\ \A k \in 1..Len(st.live_slots) :
          LET i == st.live_slots[k] + 1 IN
          /\ i \in DOMAIN st.slots
          /\ st.slots[i].dense_index = k - 1
          /\ st.slots[i].occupied <=> done < k
    /\ \A i \in DOMAIN st.slots : st.slots[i].occupied =>
          /\ st.slots[i].dense_index < Len(st.live_slots)
          /\ st.live_slots[st.slots[i].dense_index + 1] = i - 1

\* order has the values of the live slots that the loop has before it.
Ordered(st, done, ord) ==
    /\ Len(ord) = Len(st.live_slots) - done
    /\ \A k \in 1..Len(ord) : ord[k] = st.slots[st.live_slots[done + k] + 1].value

\* A handle of this table is from the slot's present or an earlier
\* generation; of the present one only while the slot has its item, or once
\* the slot can no longer be reused.
Aged(st, looping, g) ==
    /\ g.handle.store = st.identity
    /\ g.handle.slot < Len(st.slots)
    /\ LET slot == st.slots[g.handle.slot + 1] IN
       /\ g.handle.generation <= slot.generation
       /\ g.handle.generation = slot.generation =>
             \/ slot.occupied /\ slot.value = g.item
             \/ ~slot.occupied /\ (looping \/ slot.generation = GenerationMax)

\* The table of each store, its order and the handles to it.
TableOf(s) ==
    IF stores[s] = None THEN cursor[s] = None /\ order[s] = <<>>
    ELSE /\ Dense(stores[s], Done(s))
         /\ Ordered(stores[s], Done(s), order[s])
         /\ \A g \in issued : g.store = s => Aged(stores[s], cursor[s] # None, g)
         /\ \A i \in DOMAIN stores[s].slots : stores[s].slots[i].occupied =>
               Entry(s, stores[s], i, stores[s].slots[i].value) \in issued

TablesSound == \A s \in StoreIds : TableOf(s)

\* An item is inserted once, and stored while a slot has it.
ItemsPlaced ==
    /\ \A g, h \in issued : g.item = h.item => g = h
    /\ \A g \in issued : fate[g.item] # "owned"
    /\ \A x \in Items :
          fate[x] = "stored" <=> \E s \in StoreIds : stores[s] # None
                                    /\ \E i \in DOMAIN stores[s].slots : Has(stores[s], i, x)

\* A store that is being created is not there yet.
CreatesFresh ==
    \A t \in Threads : creating[t] # None =>
        /\ stores[creating[t].store] = None
        /\ \A g \in issued : g.store # creating[t].store
        /\ \A u \in Threads : creating[u] # None /\ creating[u].store = creating[t].store
                               => u = t

IInv == TypeOK /\ TablesSound /\ ItemsPlaced /\ CreatesFresh

\* No two threads are inside the creation of a store.  The runtime does not
\* see to it: it is what the identities need.
OneCreator ==
    \A t, u \in Threads : creating[t] # None /\ creating[u] # None => t = u

\* With one creator at a time an identity is given to one store, and the
\* counter is beyond those given unless it has run over.
IdentitiesUsed ==
    /\ \A s \in StoreIds : stores[s] # None =>
          /\ el_next_store_identity # 0 => stores[s].identity < el_next_store_identity
          /\ \A r \in StoreIds : stores[r] # None /\ stores[r].identity = stores[s].identity
                                    => r = s
          /\ \A g \in issued : g.handle.store = stores[s].identity => g.store = s
    /\ \A g \in issued : el_next_store_identity # 0 => g.handle.store < el_next_store_identity
    /\ \A t \in Threads : creating[t] # None =>
          el_next_store_identity # 0 /\ creating[t].identity = el_next_store_identity
=============================================================================
