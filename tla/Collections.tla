----------------------------- MODULE Collections -----------------------------
(***************************************************************************)
(* The Vec, Map and Set helpers the C backend emits for the owned value    *)
(* model (emit_vec_helpers, emit_map_helpers, emit_set_helpers, and the    *)
(* clone and drop helpers of the three types).                             *)
(*                                                                         *)
(* A block is the generated struct: length, capacity and the arrays keys   *)
(* and values, whose cells at and past length keep whatever was last       *)
(* written there.  A Vec has no keys and a Set keeps its elements in keys. *)
(* Cells hold resources, numbered in the order the program creates them;   *)
(* what[r] is the value of the resource r, and no two values that are not  *)
(* keys are the same, so that none can be exchanged unseen.  dropped counts*)
(* the calls of drop glue for each resource, out holds the resources a     *)
(* helper returned                                                         *)
(* to the program, and overwritten those a literal replaced.               *)
(***************************************************************************)
EXTENDS Integers, Sequences, FiniteSets

CONSTANTS Names, Keys, Literals, Absent, None, Indices,
          FirstCapacity,  \* 4 in the code: what the first reservation doubles from
          MaxWord,        \* UINTPTR_MAX, also the limit of an allocation in elements
          MaxEntries      \* bound on the entries a program creates

\* The helpers of the element types, which the collections call, and the value
\* of the nth resource that is not a key.
CONSTANTS Equals(_, _), HashOf(_), OrderOf(_, _), MeaningOf(_), ItemValue(_)

ASSUME CollectionsAssumption ==
    /\ MaxWord \in Nat /\ MaxEntries \in Nat
    /\ FirstCapacity \in 1..MaxWord
    /\ Literals \subseteq 0..MaxWord
    /\ Indices \subseteq Nat

VARIABLES kind,         \* which of the three types this program uses
          block,        \* the collection each name holds
          what, dropped, out, overwritten,
          answer,       \* what the last call returned
          aborted       \* el_trap or el_out_of_memory ended the process

vars == <<kind, block, what, dropped, out, overwritten, answer, aborted>>
history == <<what, dropped, out, overwritten>>

EmptyBlock == [length |-> 0, capacity |-> 0, keys |-> <<>>, values |-> <<>>]

Init ==
    /\ kind \in {"vec", "map", "set"}
    /\ block = [c \in Names |-> Absent]
    /\ what = <<>> /\ dropped = <<>> /\ out = {} /\ overwritten = {}
    /\ answer = None
    /\ aborted = FALSE

-----------------------------------------------------------------------------
(* el_vec_reserve, el_map_reserve and el_set_reserve.                      *)
Doubled(capacity, needed) ==
    LET from[n \in 1..MaxWord] == IF n >= needed THEN n
                                  ELSE IF n > MaxWord \div 2 THEN needed ELSE from[2 * n]
    IN  from[capacity]

NewCapacity(b, needed) ==
    IF b.capacity >= needed THEN b.capacity
    ELSE Doubled(IF b.capacity = 0 THEN FirstCapacity ELSE b.capacity, needed)

Resized(cells, n) == [i \in 1..n |-> IF i \in DOMAIN cells THEN cells[i] ELSE None]

(* memcpy of the cells in use into the replacement.                        *)
Reserve(b, needed) ==
    LET n == NewCapacity(b, needed)
    IN  IF b.capacity >= needed THEN b
        ELSE [b EXCEPT !.capacity = n,
                       !.keys = Resized(SubSeq(@, 1, b.length), n),
                       !.values = Resized(SubSeq(@, 1, b.length), n)]

CanReserve(b, needed) == NewCapacity(b, needed) <= MaxWord

(* memmove of the cells above i by one, up or down.                        *)
OpenGap(cells, i, n) ==
    [j \in DOMAIN cells |-> IF j > i + 1 /\ j <= n + 1 THEN cells[j - 1] ELSE cells[j]]

(* Faulty variant: the last cell is moved into the gap.                    *)
CloseGap_SwapRemove(cells, i, n) == [cells EXCEPT ![i + 1] = cells[n]]

CloseGap(cells, i, n) ==
    [j \in DOMAIN cells |-> IF j > i /\ j < n THEN cells[j + 1] ELSE cells[j]]

(* el_map_find and el_set_find: a scan in order of insertion.              *)
FindAmong(stored, b, key) ==
    LET found == {i \in 1..b.length : /\ HashOf(stored[b.keys[i]]) = HashOf(key)
                                      /\ Equals(stored[b.keys[i]], key)}
    IN  IF found = {} THEN -1 ELSE (CHOOSE i \in found : \A j \in found : i <= j) - 1

Find(b, key) == FindAmong(what, b, key)

-----------------------------------------------------------------------------
(* The program creates resources and passes them; the helper stores, drops *)
(* or returns them.                                                        *)
Fresh(n) == Len(what) + n
Value(n) == ItemValue(Fresh(n))
Create(values) ==
    /\ Len(what) + Len(values) <= (IF kind = "map" THEN 2 ELSE 1) * MaxEntries
    /\ what' = what \o values
Dropping(rs) == [r \in DOMAIN what' |->
                    (IF r \in DOMAIN dropped THEN dropped[r] ELSE 0)
                        + Cardinality({i \in DOMAIN rs : rs[i] = r})]

Returns(c, b, result) ==
    /\ block' = [block EXCEPT ![c] = b]
    /\ answer' = result
    /\ UNCHANGED <<kind, aborted>>

Abort == aborted' = TRUE /\ UNCHANGED <<kind, block, answer, history>>

Used(b) == SubSeq(b.keys, 1, IF kind = "vec" THEN 0 ELSE b.length)
             \o SubSeq(b.values, 1, IF kind = "set" THEN 0 ELSE b.length)

(* VecNew, MapNew, SetNew and the literal helpers.  A literal inserts its  *)
(* entries in order; a repeated key writes over the value in place, and    *)
(* neither the value it replaces nor its own key is dropped.               *)
AddEntry(state, k, v) ==
    LET b == state.b
        at == FindAmong(what', b, what'[k]) + 1
        grown == Reserve(b, b.length + 1)
    IN  IF at = 0
        THEN [state EXCEPT !.b = [grown EXCEPT !.length = @ + 1,
                                               !.keys[b.length + 1] = k,
                                               !.values[b.length + 1] = v]]
        ELSE [b |-> IF kind = "map" THEN [b EXCEPT !.values[at] = v] ELSE b,
              lost |-> state.lost \cup (IF kind = "map" THEN {k, b.values[at]} ELSE {k})]

Literal(c, keys) ==
    LET n == Len(keys)
        values == [i \in 1..n |-> Value(IF kind = "map" THEN n + i ELSE i)]
        key(i) == Fresh(i)
        value(i) == IF kind = "map" THEN Fresh(n + i) ELSE None
        made == CASE kind = "vec" -> values
                  [] kind = "set" -> keys
                  [] kind = "map" -> keys \o values
        after[i \in 0..n] == IF i = 0 THEN [b |-> EmptyBlock, lost |-> {}]
                             ELSE AddEntry(after[i - 1], key(i), value(i))
        end == after[n]
        vec == [length |-> n, capacity |-> n, keys |-> [i \in 1..n |-> None],
                values |-> [i \in 1..n |-> Fresh(i)]]
    IN  /\ block[c] = Absent
        /\ Create(made)
        /\ dropped' = Dropping(<<>>)
        /\ Returns(c, IF kind = "vec" THEN vec ELSE end.b, None)
        /\ overwritten' = IF kind = "vec" THEN overwritten ELSE overwritten \cup end.lost
        /\ UNCHANGED out

(* VecAppend (i = length) and VecInsert.                                   *)
VecInsert(c, i) ==
    LET b == block[c]
        grown == Reserve(b, b.length + 1)
    IN  /\ kind = "vec" /\ b # Absent
        /\ IF i > b.length \/ b.length = MaxWord \/ ~CanReserve(b, b.length + 1)
           THEN Abort
           ELSE /\ Create(<<Value(1)>>)
                /\ dropped' = Dropping(<<>>)
                /\ Returns(c, [grown EXCEPT !.length = @ + 1,
                        !.values = [OpenGap(@, i, b.length) EXCEPT ![i + 1] = Fresh(1)]],
                     None)
                /\ UNCHANGED <<out, overwritten>>

(* VecRemove.                                                              *)
VecRemove(c, i) ==
    LET b == block[c]
    IN  /\ kind = "vec" /\ b # Absent
        /\ IF i >= b.length THEN Abort
           ELSE /\ out' = out \cup {b.values[i + 1]}
                /\ Returns(c, [b EXCEPT !.length = @ - 1,
                                        !.values = CloseGap(@, i, b.length)],
                           <<"removed", MeaningOf(what[b.values[i + 1]])>>)
                /\ UNCHANGED <<what, dropped, overwritten>>

(* VecPop.                                                                 *)
VecPop(c) ==
    LET b == block[c]
    IN  /\ kind = "vec" /\ b # Absent
        /\ UNCHANGED <<what, dropped, overwritten>>
        /\ IF b.length = 0 THEN Returns(c, b, <<"removed", None>>) /\ UNCHANGED out
           ELSE /\ out' = out \cup {b.values[b.length]}
                /\ Returns(c, [b EXCEPT !.length = @ - 1],
                           <<"removed", MeaningOf(what[b.values[b.length]])>>)

(* Faulty variant: the key of an entry that is already present is kept.    *)
MapInsert_KeepsKey(c, key) ==
    LET b == block[c]
        i == Find(b, key)
        grown == Reserve(b, b.length + 1)
    IN  /\ kind = "map" /\ b # Absent
        /\ Create(<<key, Value(2)>>)
        /\ dropped' = Dropping(<<>>)
        /\ IF i >= 0
           THEN /\ out' = out \cup {b.values[i + 1]}
                /\ Returns(c, [b EXCEPT !.values[i + 1] = Fresh(2)],
                           <<"old", MeaningOf(what[b.values[i + 1]])>>)
           ELSE /\ Returns(c, [grown EXCEPT !.length = @ + 1,
                                   !.keys[b.length + 1] = Fresh(1),
                                   !.values[b.length + 1] = Fresh(2)], <<"old", None>>)
                /\ UNCHANGED out
        /\ UNCHANGED overwritten

(* MapInsert: the value of a present key is returned and the duplicate key *)
(* dropped; otherwise the entry is appended.                               *)
MapInsert(c, key) ==
    LET b == block[c]
        i == Find(b, key)
        grown == Reserve(b, b.length + 1)
    IN  /\ kind = "map" /\ b # Absent
        /\ IF i < 0 /\ (b.length = MaxWord \/ ~CanReserve(b, b.length + 1)) THEN Abort
           ELSE /\ Create(<<key, Value(2)>>)
                /\ IF i >= 0
                   THEN /\ dropped' = Dropping(<<Fresh(1)>>)
                        /\ out' = out \cup {b.values[i + 1]}
                        /\ Returns(c, [b EXCEPT !.values[i + 1] = Fresh(2)],
                                   <<"old", MeaningOf(what[b.values[i + 1]])>>)
                   ELSE /\ dropped' = Dropping(<<>>)
                        /\ Returns(c, [grown EXCEPT !.length = @ + 1,
                                           !.keys[b.length + 1] = Fresh(1),
                                           !.values[b.length + 1] = Fresh(2)],
                                   <<"old", None>>)
                        /\ UNCHANGED out
                /\ UNCHANGED overwritten

(* MapRemove: the stored key is dropped and both arrays close the gap.     *)
MapRemove(c, key) ==
    LET b == block[c]
        i == Find(b, key)
    IN  /\ kind = "map" /\ b # Absent
        /\ UNCHANGED <<what, overwritten>>
        /\ IF i < 0 THEN Returns(c, b, <<"removed", None>>) /\ UNCHANGED <<dropped, out>>
           ELSE /\ out' = out \cup {b.values[i + 1]}
                /\ dropped' = Dropping(<<b.keys[i + 1]>>)
                /\ Returns(c, [b EXCEPT !.length = @ - 1,
                                        !.keys = CloseGap(@, i, b.length),
                                        !.values = CloseGap(@, i, b.length)],
                           <<"removed", MeaningOf(what[b.values[i + 1]])>>)

(* SetInsert: a duplicate element is dropped.                              *)
SetInsert(c, element) ==
    LET b == block[c]
        i == Find(b, element)
        grown == Reserve(b, b.length + 1)
    IN  /\ kind = "set" /\ b # Absent
        /\ IF i < 0 /\ (b.length = MaxWord \/ ~CanReserve(b, b.length + 1)) THEN Abort
           ELSE /\ Create(<<element>>)
                /\ dropped' = Dropping(IF i >= 0 THEN <<Fresh(1)>> ELSE <<>>)
                /\ IF i >= 0 THEN Returns(c, b, <<"added", FALSE>>)
                   ELSE Returns(c, [grown EXCEPT !.length = @ + 1,
                                                 !.keys[b.length + 1] = Fresh(1)],
                                <<"added", TRUE>>)
                /\ UNCHANGED <<out, overwritten>>

(* SetRemove: the stored element is dropped.                               *)
SetRemove(c, element) ==
    LET b == block[c]
        i == Find(b, element)
    IN  /\ kind = "set" /\ b # Absent
        /\ UNCHANGED <<what, out, overwritten>>
        /\ IF i < 0 THEN Returns(c, b, <<"had", FALSE>>) /\ UNCHANGED dropped
           ELSE /\ dropped' = Dropping(<<b.keys[i + 1]>>)
                /\ Returns(c, [b EXCEPT !.length = @ - 1,
                                        !.keys = CloseGap(@, i, b.length)],
                           <<"had", TRUE>>)

(* VecClear, MapClear, SetClear: drop from the last cell to the first; the *)
(* capacity stays.                                                         *)
Clear(c) ==
    /\ block[c] # Absent
    /\ UNCHANGED <<what, out, overwritten>>
    /\ dropped' = Dropping(Used(block[c]))
    /\ Returns(c, [block[c] EXCEPT !.length = 0], None)

(* el_drop_tN of the collection: as Clear, then the arrays are freed.      *)
DropCollection(c) ==
    /\ block[c] # Absent
    /\ UNCHANGED <<what, out, overwritten>>
    /\ dropped' = Dropping(Used(block[c]))
    /\ Returns(c, Absent, None)

(* The clone helper: a new block of exactly the length, every cell cloned. *)
CloneCollection(c, d) ==
    LET b == block[c]
        old == Used(b)
        n == b.length
        keys == [i \in 1..n |-> IF kind = "vec" THEN None ELSE Fresh(i)]
        values == [i \in 1..n |-> IF kind = "set" THEN None
                                  ELSE Fresh(IF kind = "map" THEN n + i ELSE i)]
    IN  /\ b # Absent /\ block[d] = Absent
        /\ Create([i \in DOMAIN old |-> what[old[i]]])
        /\ dropped' = Dropping(<<>>)
        /\ Returns(d, [length |-> n, capacity |-> n, keys |-> keys, values |-> values], None)
        /\ UNCHANGED <<out, overwritten>>

(* el_concatenate: moves the cells of both operands into a new array.      *)
Concatenate(c, d) ==
    LET b == block[c]
        e == block[d]
        n == b.length + e.length
        cells(x) == SubSeq(x.values, 1, x.length)
    IN  /\ kind = "vec" /\ c # d /\ b # Absent /\ e # Absent
        /\ IF n > MaxWord THEN Abort
           ELSE /\ block' = [block EXCEPT ![d] = Absent,
                               ![c] = [length |-> n, capacity |-> n,
                                       keys |-> [i \in 1..n |-> None],
                                       values |-> cells(b) \o cells(e)]]
                /\ answer' = None
                /\ UNCHANGED <<kind, history, aborted>>

Answers(result) == answer' = result /\ UNCHANGED <<kind, block, history, aborted>>
ValueAt(b, i) == MeaningOf(what[b.values[i + 1]])

(* The readers, len and is_empty, get and get_var, contains, all asked.    *)
Read(c) ==
    LET b == block[c]
        At(i) == IF i < 0 \/ i >= b.length THEN None ELSE ValueAt(b, i)
    IN  /\ b # Absent
        /\ Answers(<<"read", b.length,
                     CASE kind = "vec" -> [i \in Indices |-> At(i)]
                       [] kind = "map" -> [k \in Keys |-> At(Find(b, k))]
                       [] kind = "set" -> [k \in Keys |-> Find(b, k) >= 0]>>)

AsValue(b) ==
    [t |-> kind,
     e |-> [i \in 1..b.length |->
              CASE kind = "vec" -> what[b.values[i]]
                [] kind = "set" -> what[b.keys[i]]
                [] kind = "map" -> <<what[b.keys[i]], what[b.values[i]]>>]]

(* == of two collections, and the ordering of two Vecs.                    *)
Compare(c, d) ==
    LET x == AsValue(block[c])
        y == AsValue(block[d])
    IN  /\ block[c] # Absent /\ block[d] # Absent
        /\ Answers(<<"compared", Equals(x, y), IF kind = "vec" THEN OrderOf(x, y) ELSE None>>)

Call(c) ==
    \/ \E n \in Literals : \E keys \in [1..n -> Keys] : Literal(c, keys)
    \/ \E i \in Indices : VecRemove(c, i) \/ VecInsert(c, i)
    \/ \E k \in Keys :
            MapInsert(c, k) \/ MapRemove(c, k) \/ SetInsert(c, k) \/ SetRemove(c, k)
    \/ VecPop(c) \/ Clear(c) \/ DropCollection(c) \/ Read(c)
    \/ \E d \in Names : CloneCollection(c, d) \/ Concatenate(c, d) \/ Compare(c, d)

(* The program has used what a call returned.                              *)
UseAnswer == answer # None /\ answer' = None /\ UNCHANGED <<kind, block, history, aborted>>

Next ==
    /\ ~aborted
    /\ \/ UseAnswer
       \/ answer = None /\ \E c \in Names : Call(c)

Spec == Init /\ [][Next]_vars

-----------------------------------------------------------------------------
Resources == DOMAIN what
Present == {c \in Names : block[c] # Absent}
Places(r) == {p \in Present \X (1..2 * MaxWord) :
                 p[2] \in DOMAIN Used(block[p[1]]) /\ Used(block[p[1]])[p[2]] = r}

(* Every resource the program hands to a collection has exactly one owner: *)
(* one cell in use of one collection, the program again, or nobody after   *)
(* its drop glue ran once.  Only the entries a literal repeats escape      *)
(* (emit_map_helpers and emit_set_helpers overwrite or skip them without a *)
(* drop).                                                                  *)
OwnedOnce ==
    \A r \in Resources :
        Cardinality(Places(r)) + dropped[r] + (IF r \in out THEN 1 ELSE 0)
            + (IF r \in overwritten THEN 1 ELSE 0) = 1

-----------------------------------------------------------------------------
(* The inductive invariant behind OwnedOnce.                               *)

(* The cells in use of an array, and that no two of them are the same.     *)
Column(cells, n) == {cells[i] : i \in 1..n}
Distinct(cells, n) == \A i, j \in 1..n : cells[i] = cells[j] => i = j

HasKeys == kind # "vec"
HasValues == kind # "set"
Owned(b) == (IF HasKeys THEN Column(b.keys, b.length) ELSE {})
              \cup (IF HasValues THEN Column(b.values, b.length) ELSE {})

Cells == Nat \cup {None}
Blocks == {b \in [length : 0..MaxWord, capacity : 0..MaxWord, keys : Seq(Cells),
                  values : Seq(Cells)] :
              /\ b.length <= b.capacity
              /\ Len(b.keys) = b.capacity /\ Len(b.values) = b.capacity}

ASSUME AbsentAssumption == Absent \notin Blocks

(* No resource is in two cells of a block.                                 *)
Separate(b) ==
    /\ HasKeys => Distinct(b.keys, b.length)
    /\ HasValues => Distinct(b.values, b.length)
    /\ HasKeys /\ HasValues => Column(b.keys, b.length) \cap Column(b.values, b.length) = {}

OwnedBy(c) == IF block[c] = Absent THEN {} ELSE Owned(block[c])
Dropped == {r \in Resources : dropped[r] = 1}
Held == UNION {OwnedBy(c) : c \in Names}

(* Every resource is held by one name, dropped, out or overwritten.        *)
Partition ==
    /\ \A c, d \in Names : c # d => OwnedBy(c) \cap OwnedBy(d) = {}
    /\ Held \cup Dropped \cup out \cup overwritten = Resources
    /\ Held \cap Dropped = {} /\ Held \cap out = {} /\ Held \cap overwritten = {}
    /\ Dropped \cap out = {} /\ Dropped \cap overwritten = {} /\ out \cap overwritten = {}

Things == Keys \cup {ItemValue(n) : n \in Nat}

IInv ==
    /\ kind \in {"vec", "map", "set"}
    /\ what \in Seq(Things)
    /\ dropped \in [Resources -> {0, 1}]
    /\ block \in [Names -> Blocks \cup {Absent}]
    /\ \A c \in Present : Separate(block[c])
    /\ Partition

-----------------------------------------------------------------------------
(* The generated helpers implement the collections docs/spec.md describes: *)
(* whatever the order of insertions, removals, growth, clones and drops,   *)
(* every answer is the one the abstract sequence, mapping or set gives.    *)
View(w, b) ==
    LET Key(i) == MeaningOf(w[b.keys[i]])
        Item(i) == MeaningOf(w[b.values[i]])
        Has == {Key(i) : i \in 1..b.length}
    IN  CASE kind = "vec" -> [i \in 1..b.length |-> Item(i)]
          [] kind = "set" -> [m \in Has |-> TRUE]
          [] kind = "map" -> [m \in Has |-> Item(CHOOSE i \in 1..b.length : Key(i) = m)]

Contents(c) == IF block[c] = Absent THEN Absent ELSE View(what, block[c])

Items == {ItemValue(r) : r \in 1..2 * MaxEntries}

Abstract == INSTANCE CollectionSpec WITH
                contents <- [c \in Names |-> Contents(c)],
                Values <- Items

ImplementsCollections == Abstract!Spec

-----------------------------------------------------------------------------
(* The refinement holds for elements whose helpers compare what they mean  *)
(* (floating point, with its NaN, does not) and lead to the helpers of the *)
(* collections that el_eq_tN and el_order_tN are: by element, and without  *)
(* regard to the order of a Map's or a Set's cells.                        *)
Short(S) == UNION {[1..n -> S] : n \in 0..MaxWord}
Same(x, y) == Equals(x, y) <=> MeaningOf(x) = MeaningOf(y)

ElementsAgree ==
    /\ \A k, l \in Keys : Same(k, l) /\ (Equals(k, l) => HashOf(k) = HashOf(l))
    /\ \A x, y \in Items :
          /\ Same(x, y)
          /\ OrderOf(x, y) = IF MeaningOf(x) = MeaningOf(y) THEN 0
                             ELSE IF MeaningOf(x)[2] < MeaningOf(y)[2] THEN -1 ELSE 1

VecsAgree ==
    \A x, y \in Short(Items) :
        LET at(e) == [t |-> "vec", e |-> e]
            differ == {i \in DOMAIN x \cap DOMAIN y : OrderOf(x[i], y[i]) # 0}
            first == CHOOSE i \in differ : \A j \in differ : i <= j
        IN  /\ Equals(at(x), at(y)) =
                  (Len(x) = Len(y) /\ \A i \in DOMAIN x : Equals(x[i], y[i]))
            /\ OrderOf(at(x), at(y)) =
                  IF differ # {} THEN OrderOf(x[first], y[first])
                  ELSE IF Len(x) < Len(y) THEN -1 ELSE IF Len(x) > Len(y) THEN 1 ELSE 0

SetsAgree ==
    LET Stored == {x \in Short(Keys) : \A i, j \in DOMAIN x : Equals(x[i], x[j]) => i = j}
    IN  \A x, y \in Stored :
            Equals([t |-> "set", e |-> x], [t |-> "set", e |-> y]) =
                (Len(x) = Len(y) /\ \A i \in DOMAIN x : \E j \in DOMAIN y : Equals(x[i], y[j]))

MapsAgree ==
    LET Stored == {x \in Short(Keys \X Items) :
                      \A i, j \in DOMAIN x : Equals(x[i][1], x[j][1]) => i = j}
    IN  \A x, y \in Stored :
            Equals([t |-> "map", e |-> x], [t |-> "map", e |-> y]) =
                (/\ Len(x) = Len(y)
                 /\ \A i \in DOMAIN x : \E j \in DOMAIN y :
                        Equals(x[i][1], y[j][1]) /\ Equals(x[i][2], y[j][2]))

(* What a name without a collection and a call without an answer are, no   *)
(* collection and no element is.                                           *)
NamesAgree ==
    LET Meanings == {MeaningOf(x) : x \in Keys \cup Items}
    IN  /\ None # TRUE
        /\ Absent \notin Short(Meanings)
        /\ \A S \in SUBSET Meanings : Absent \notin [S -> Meanings] \cup [S -> {TRUE}]

HelpersAgree == ElementsAgree /\ VecsAgree /\ SetsAgree /\ MapsAgree /\ NamesAgree

(* The invariant behind the refinement: besides the ownership of the cells,*)
(* that those in use hold keys and items and no two keys of a Map or a Set *)
(* mean the same.                                                          *)
Filled(w, b) ==
    /\ HasKeys => /\ \A i \in 1..b.length : w[b.keys[i]] \in Keys
                  /\ \A i, j \in 1..b.length :
                        MeaningOf(w[b.keys[i]]) = MeaningOf(w[b.keys[j]]) => i = j
    /\ HasValues => \A i \in 1..b.length : w[b.values[i]] \in Items

RInv == IInv /\ \A c \in Present : Filled(what, block[c])
=============================================================================
