---------------------------- MODULE StoreProofs ----------------------------
(***************************************************************************)
(* Stores of every size, with every number of handles: the table stays     *)
(* dense and in order, an item is in one place, and, as long as no two     *)
(* threads create stores at the same time, a handle finds its item or      *)
(* traps.                                                                  *)
(***************************************************************************)
EXTENDS Store, CommonLemmas, FiniteSetTheorems, SequenceTheorems, TLAPS

-----------------------------------------------------------------------------
(* The operations on a table *)

\* The fields of a slot.
LEMMA SlotFields ==
    ASSUME NEW slot \in Slots
    PROVE  /\ slot.value \in Items \cup {None} /\ slot.generation \in 1..GenerationMax
           /\ slot.dense_index \in Nat /\ slot.occupied \in BOOLEAN
BY DEF Slots

\* The fields of a table, its slots numbered from one.
LEMMA TableFields ==
    ASSUME NEW st \in Tables
    PROVE  /\ st.identity \in 1..IdentityMax
           /\ st.slots \in Seq(Slots) /\ st.live_slots \in Seq(Nat)
           /\ Len(st.slots) \in Nat /\ DOMAIN st.slots = 1..Len(st.slots)
           /\ Len(st.live_slots) \in Nat /\ DOMAIN st.live_slots = 1..Len(st.live_slots)
           /\ \A i \in DOMAIN st.slots : st.slots[i] \in Slots
           /\ \A k \in 1..Len(st.live_slots) : st.live_slots[k] \in Nat
BY LenProperties, ElementOfSeq DEF Tables

\* Growth adds empty slots behind those there are, if it adds any, and then
\* there is a slot to reuse.
LEMMA GrownSlots ==
    ASSUME NEW slots \in Seq(Slots)
    PROVE  /\ Grown(slots) \in Seq(Slots)
           /\ Len(slots) <= Len(Grown(slots))
           /\ \A j \in 1..Len(slots) : Grown(slots)[j] = slots[j]
           /\ \A j \in 1..Len(Grown(slots)) : j \notin 1..Len(slots) => ~Grown(slots)[j].occupied
           /\ \E j \in DOMAIN Grown(slots) : Reusable(Grown(slots)[j])
<1>1. Len(slots) \in Nat /\ DOMAIN slots = 1..Len(slots)
  BY LenProperties
<1>2. CASE \E i \in DOMAIN slots : Reusable(slots[i])
  BY <1>1, <1>2 DEF Grown
<1>3. CASE ~\E i \in DOMAIN slots : Reusable(slots[i])
  <2> DEFINE n == IF slots = <<>> THEN InitialCapacity ELSE Len(slots)
             more == [i \in 1..n |-> EmptySlot]
  <2>1. n \in Nat \ {0}
    BY <1>1, StoreAssumption, EmptySeq
  <2>2. EmptySlot \in Slots /\ Reusable(EmptySlot)
    BY StoreAssumption DEF EmptySlot, Slots, Reusable
  <2>3. more \in Seq(Slots) /\ Len(more) = n /\ \A j \in 1..n : more[j] = EmptySlot
    <3> HIDE DEF n
    <3>1. more \in [1..n -> Slots]
      BY <2>2
    <3> QED
      BY <2>1, <3>1, SeqDef
  <2>4. Grown(slots) = slots \o more
    BY <1>3 DEF Grown
  <2> HIDE DEF n, more
  <2>5. /\ Grown(slots) \in Seq(Slots) /\ Len(Grown(slots)) = Len(slots) + n
        /\ \A j \in 1..(Len(slots) + n) :
              Grown(slots)[j] = IF j <= Len(slots) THEN slots[j] ELSE more[j - Len(slots)]
    <3>1. /\ slots \o more \in Seq(Slots) /\ Len(slots \o more) = Len(slots) + Len(more)
          /\ \A j \in 1..(Len(slots) + Len(more)) :
                (slots \o more)[j] = IF j <= Len(slots) THEN slots[j] ELSE more[j - Len(slots)]
      BY <2>3, ConcatProperties
    <3> QED
      BY <2>3, <2>4, <3>1
  <2>6. DOMAIN Grown(slots) = 1..(Len(slots) + n)
    BY <2>5, LenProperties
  <2>7. \A j \in 1..(Len(slots) + n) :
            j \notin 1..Len(slots) => Grown(slots)[j] = EmptySlot
    BY <1>1, <2>1, <2>3, <2>5
  <2>8. Len(slots) + 1 \in 1..(Len(slots) + n)
    BY <1>1, <2>1
  <2>9. Reusable(Grown(slots)[Len(slots) + 1])
    BY <1>1, <2>2, <2>7, <2>8
  <2>10. ~EmptySlot.occupied
    BY DEF EmptySlot
  <2>11. Len(slots) <= Len(slots) + n /\ \A j \in 1..Len(slots) : j \in 1..(Len(slots) + n)
    BY <1>1, <2>1
  <2>12. \A j \in 1..Len(slots) : Grown(slots)[j] = slots[j]
    BY <1>1, <2>5, <2>11
  <2>13. \A j \in 1..Len(Grown(slots)) : j \notin 1..Len(slots) => ~Grown(slots)[j].occupied
    BY <2>5, <2>7, <2>10
  <2>14. \E j \in DOMAIN Grown(slots) : Reusable(Grown(slots)[j])
    BY <2>6, <2>8, <2>9
  <2> QED
    BY <2>5, <2>11, <2>12, <2>13, <2>14
<1> QED
  BY <1>2, <1>3

\* The slot insert takes is one it may reuse.
LEMMA ReusedSlot ==
    ASSUME NEW slots \in Seq(Slots), \E j \in DOMAIN slots : Reusable(slots[j])
    PROVE  FirstReusable(slots) \in DOMAIN slots /\ Reusable(slots[FirstReusable(slots)])
<1> DEFINE S == {j \in DOMAIN slots : Reusable(slots[j])}
<1>1. Len(slots) \in Nat /\ DOMAIN slots = 1..Len(slots)
  BY LenProperties
<1>2. S \subseteq Nat /\ S # {}
  BY <1>1
<1>3. PICK i \in S : \A j \in S : i <= j
  <2> HIDE DEF S
  <2> QED
    BY <1>2, FirstIndex
<1>4. \A j \in 1..(i - 1) : ~Reusable(slots[j])
  BY <1>1, <1>3
<1>5. \E k \in DOMAIN slots : Reusable(slots[k]) /\ \A j \in 1..(k - 1) : ~Reusable(slots[j])
  BY <1>3, <1>4
<1> QED
  BY <1>5 DEF FirstReusable

\* insert: the other slots are as they were, and the new one comes last.
LEMMA InsertedTable ==
    ASSUME NEW st \in Tables, Dense(st, 0), NEW x \in Items,
           NEW slots \in Seq(Slots), Len(st.slots) <= Len(slots),
           \A j \in 1..Len(st.slots) : slots[j] = st.slots[j],
           \A j \in 1..Len(slots) : j \notin 1..Len(st.slots) => ~slots[j].occupied,
           NEW i \in 1..Len(slots), ~slots[i].occupied
    PROVE  LET new == Inserted(st, slots, i, x) IN
           /\ new \in Tables /\ new.identity = st.identity
           /\ Len(new.slots) = Len(slots)
           /\ \A j \in 1..Len(slots) : j # i => new.slots[j] = slots[j]
           /\ new.slots[i].value = x /\ new.slots[i].occupied
           /\ new.slots[i].generation = slots[i].generation
           /\ Len(new.live_slots) = Len(st.live_slots) + 1
           /\ \A k \in 1..Len(st.live_slots) : new.live_slots[k] = st.live_slots[k]
           /\ new.live_slots[Len(st.live_slots) + 1] = i - 1
           /\ Dense(new, 0)
<1> DEFINE new == Inserted(st, slots, i, x)
           n == Len(st.live_slots)
           slot == [value |-> x, generation |-> slots[i].generation, dense_index |-> n,
                    occupied |-> TRUE]
<1>1. /\ st.slots \in Seq(Slots) /\ st.live_slots \in Seq(Nat) /\ n \in Nat
      /\ Len(st.slots) \in Nat /\ DOMAIN st.slots = 1..Len(st.slots)
      /\ \A k \in 1..n : st.live_slots[k] \in Nat
  BY TableFields
<1>2. Len(slots) \in Nat /\ DOMAIN slots = 1..Len(slots) /\ slots[i] \in Slots
  BY LenProperties, ElementOfSeq
<1>3. /\ slot \in Slots /\ slot.value = x /\ slot.occupied = TRUE /\ slot.dense_index = n
      /\ slot.generation = slots[i].generation
  BY <1>1, <1>2 DEF Slots
<1>4. new = [identity |-> st.identity, slots |-> [slots EXCEPT ![i] = slot],
             live_slots |-> Append(st.live_slots, i - 1)]
  BY DEF Inserted
<1> HIDE DEF new, slot
<1>5. /\ new.slots \in Seq(Slots) /\ Len(new.slots) = Len(slots)
      /\ \A j \in 1..Len(slots) : new.slots[j] = IF j = i THEN slot ELSE slots[j]
  BY <1>3, <1>4, ExceptSeq
<1> HIDE DEF n
<1>6. i - 1 \in Nat
  BY <1>2
<1>7. /\ new.live_slots \in Seq(Nat) /\ Len(new.live_slots) = n + 1
      /\ \A k \in 1..n : new.live_slots[k] = st.live_slots[k]
      /\ new.live_slots[n + 1] = i - 1
  BY <1>1, <1>4, <1>6, AppendProperties DEF n
<1>8. new \in Tables
  BY <1>4, <1>5, <1>7 DEF Tables
<1>9. DOMAIN new.slots = 1..Len(slots)
  BY <1>5, LenProperties
<1>10. Dense(new, 0)
  <2>1. \A k \in 1..n : /\ st.live_slots[k] + 1 \in 1..Len(st.slots)
                        /\ st.slots[st.live_slots[k] + 1].dense_index = k - 1
                        /\ st.slots[st.live_slots[k] + 1].occupied
    <3>1. n = Len(st.live_slots)
      BY DEF n
    <3> SUFFICES ASSUME NEW k \in 1..n
                 PROVE  /\ st.live_slots[k] + 1 \in 1..Len(st.slots)
                        /\ st.slots[st.live_slots[k] + 1].dense_index = k - 1
                        /\ st.slots[st.live_slots[k] + 1].occupied
      OBVIOUS
    <3>2. 0 < k /\ DOMAIN st.slots = 1..Len(st.slots)
      BY <1>1
    <3> QED
      BY <3>1, <3>2 DEF Dense
  <2>2. ASSUME NEW k \in 1..(n + 1)
        PROVE  LET j == new.live_slots[k] + 1 IN
               /\ j \in DOMAIN new.slots /\ new.slots[j].dense_index = k - 1
               /\ new.slots[j].occupied <=> 0 < k
    <3>1. CASE k \in 1..n
      <4>1. PICK j \in 1..Len(st.slots) : j = st.live_slots[k] + 1
        BY <2>1, <3>1
      <4>2. j \in 1..Len(slots) /\ slots[j] = st.slots[j] /\ j # i
        BY <1>1, <1>2, <2>1, <3>1, <4>1, SMTT(30)
      <4>3. new.live_slots[k] + 1 = j /\ new.slots[j] = st.slots[j]
        BY <1>5, <1>7, <3>1, <4>1, <4>2
      <4>4. j \in DOMAIN new.slots /\ new.slots[j].dense_index = k - 1
        BY <1>9, <2>1, <3>1, <4>1, <4>2, <4>3
      <4>5. new.slots[j].occupied
        BY <2>1, <3>1, <4>1, <4>3
      <4>6. 0 < k
        BY <3>1
      <4> QED
        BY <4>3, <4>4, <4>5, <4>6
    <3>2. CASE k = n + 1
      <4>1. new.live_slots[k] + 1 = i
        BY <1>2, <1>7, <3>2
      <4>2. new.slots[i] = slot
        BY <1>5
      <4> QED
        BY <1>1, <1>3, <1>9, <3>2, <4>1, <4>2
    <3> QED
      BY <1>1, <3>1, <3>2
  <2>3. ASSUME NEW j \in 1..Len(slots), new.slots[j].occupied
        PROVE  /\ new.slots[j].dense_index < n + 1
               /\ new.live_slots[new.slots[j].dense_index + 1] = j - 1
    <3>1. CASE j = i
      BY <1>1, <1>3, <1>5, <1>7, <3>1
    <3>2. CASE j # i
      <4>1. new.slots[j] = slots[j] /\ slots[j] = st.slots[j] /\ j \in 1..Len(st.slots)
        BY <1>5, <2>3, <3>2
      <4>2. /\ st.slots[j].dense_index < n
            /\ st.live_slots[st.slots[j].dense_index + 1] = j - 1
        BY <1>1, <2>3, <4>1 DEF Dense, n
      <4>3. st.slots[j].dense_index \in Nat
        BY <4>1, TableFields, SlotFields
      <4>9. n \in Nat
        BY <1>1
      <4>4. new.slots[j].dense_index = st.slots[j].dense_index
        BY <4>1
      <4>5. st.slots[j].dense_index + 1 \in 1..n /\ st.slots[j].dense_index < n + 1
        BY <4>9, <4>2, <4>3, SMTT(30)
      <4>6. new.live_slots[st.slots[j].dense_index + 1] = j - 1
        BY <1>7, <4>2, <4>5
      <4> QED
        BY <4>4, <4>5, <4>6
    <3> QED
      BY <3>1, <3>2
  <2>4. 0 <= n + 1
    BY <1>1
  <2> QED
    BY <1>7, <1>9, <2>2, <2>3, <2>4 DEF Dense
<1> QED
  BY <1>3, <1>4, <1>5, <1>7, <1>8, <1>10 DEF new, n

\* The shift of the entries behind a removed one.
LEMMA RemovedAt ==
    ASSUME NEW S, NEW s \in Seq(S), NEW p \in 1..Len(s)
    PROVE  /\ RemoveAt(s, p) \in Seq(S) /\ Len(RemoveAt(s, p)) = Len(s) - 1
           /\ \A k \in 1..(Len(s) - 1) : RemoveAt(s, p)[k] = s[IF k < p THEN k ELSE k + 1]
<1> DEFINE a == SubSeq(s, 1, p - 1)
           b == SubSeq(s, p + 1, Len(s))
<1>1. Len(s) \in Nat /\ \A k \in 1..Len(s) : s[k] \in S
  BY LenProperties, ElementOfSeq
<1>2. a \in Seq(S) /\ Len(a) = p - 1 /\ \A k \in 1..(p - 1) : a[k] = s[k]
  <2>1. \A k \in 1..(p - 1) : s[k] \in S
    BY <1>1
  <2>2. /\ a \in Seq(S) /\ Len(a) = IF 1 <= p - 1 THEN p - 1 - 1 + 1 ELSE 0
        /\ \A k \in 1..(p - 1 - 1 + 1) : a[k] = s[1 + k - 1]
    BY <1>1, <2>1, SubSeqProperties
  <2> QED
    BY <1>1, <2>2
<1>3. b \in Seq(S) /\ Len(b) = Len(s) - p /\ \A k \in 1..(Len(s) - p) : b[k] = s[p + k]
  <2>1. \A k \in (p + 1)..Len(s) : s[k] \in S
    BY <1>1
  <2>2. /\ b \in Seq(S) /\ Len(b) = IF p + 1 <= Len(s) THEN Len(s) - (p + 1) + 1 ELSE 0
        /\ \A k \in 1..(Len(s) - (p + 1) + 1) : b[k] = s[p + 1 + k - 1]
    BY <1>1, <2>1, SubSeqProperties
  <2> QED
    BY <1>1, <2>2
<1>4. RemoveAt(s, p) = a \o b
  BY DEF RemoveAt
<1> HIDE DEF a, b
<1>5. /\ a \o b \in Seq(S) /\ Len(a \o b) = Len(a) + Len(b)
      /\ \A k \in 1..(Len(a) + Len(b)) : (a \o b)[k] = IF k <= Len(a) THEN a[k] ELSE b[k - Len(a)]
  BY <1>2, <1>3, ConcatProperties
<1>6. Len(a) + Len(b) = Len(s) - 1
  BY <1>1, <1>2, <1>3
<1>7. ASSUME NEW k \in 1..(Len(s) - 1) PROVE (a \o b)[k] = s[IF k < p THEN k ELSE k + 1]
  <2>1. CASE k < p
    BY <1>1, <1>2, <1>5, <1>6, <2>1
  <2>2. CASE ~(k < p)
    <3>1. k - Len(a) \in 1..(Len(s) - p) /\ ~(k <= Len(a)) /\ p + (k - Len(a)) = k + 1
      BY <1>1, <1>2, <2>2
    <3>2. (a \o b)[k] = b[k - Len(a)]
      BY <1>5, <1>6, <3>1
    <3> QED
      BY <1>3, <2>2, <3>1, <3>2
  <2> QED
    BY <2>1, <2>2
<1> QED
  BY <1>4, <1>5, <1>6, <1>7

\* The generation of a slot that is given up moves on, unless it is the last.
LEMMA VacatedSlot ==
    ASSUME NEW slot \in Slots
    PROVE  /\ Vacate(slot) \in Slots /\ ~Vacate(slot).occupied
           /\ Vacate(slot).value = slot.value /\ Vacate(slot).dense_index = slot.dense_index
           /\ slot.generation <= Vacate(slot).generation
           /\ Vacate(slot).generation = slot.generation => slot.generation = GenerationMax
<1>1. /\ slot.generation \in 1..GenerationMax
      /\ slot.generation # GenerationMax => slot.generation + 1 \in 1..GenerationMax
  BY StoreAssumption DEF Slots
<1> DEFINE g == IF slot.generation # GenerationMax THEN slot.generation + 1 ELSE slot.generation
<1>2. /\ g \in 1..GenerationMax /\ slot.generation <= g
      /\ g = slot.generation => slot.generation = GenerationMax
  BY <1>1, StoreAssumption
<1>3. Vacate(slot) = [value |-> slot.value, generation |-> g, dense_index |-> slot.dense_index,
                      occupied |-> FALSE]
  <2>1. Vacate(slot) = [[slot EXCEPT !.occupied = FALSE] EXCEPT !.generation = g]
    BY DEF Vacate, Slots
  <2> HIDE DEF g
  <2> QED
    BY <2>1 DEF Slots
<1> HIDE DEF g
<1> QED
  BY <1>2, <1>3 DEF Slots

\* remove: the gap in the order is closed, each slot behind it is told its new
\* place, and nothing else changes.
LEMMA RemovedTable ==
    ASSUME NEW st \in Tables, Dense(st, 0),
           NEW i \in 1..Len(st.slots), st.slots[i].occupied
    PROVE  LET new == Removed(st, i)
               d == st.slots[i].dense_index
           IN  /\ new \in Tables /\ new.identity = st.identity
               /\ Len(new.slots) = Len(st.slots)
               /\ \A j \in 1..Len(st.slots) : j # i =>
                     /\ new.slots[j].value = st.slots[j].value
                     /\ new.slots[j].occupied = st.slots[j].occupied
                     /\ new.slots[j].generation = st.slots[j].generation
               /\ ~new.slots[i].occupied
               /\ st.slots[i].generation <= new.slots[i].generation
               /\ new.slots[i].generation = st.slots[i].generation =>
                     st.slots[i].generation = GenerationMax
               /\ d \in 0..(Len(st.live_slots) - 1) /\ st.live_slots[d + 1] = i - 1
               /\ Len(new.live_slots) = Len(st.live_slots) - 1
               /\ \A k \in 1..(Len(st.live_slots) - 1) :
                     new.live_slots[k] = st.live_slots[IF k < d + 1 THEN k ELSE k + 1]
               /\ Dense(new, 0)
<1> DEFINE new == Removed(st, i)
           n == Len(st.live_slots)
           m == Len(st.slots)
           d == st.slots[i].dense_index
           live == RemoveAt(st.live_slots, d + 1)
           moved == {live[k] : k \in (d + 1)..Len(live)}
           slots == Renumber(st.slots, moved)
<1>1. /\ st.slots \in Seq(Slots) /\ st.live_slots \in Seq(Nat) /\ n \in Nat
      /\ m \in Nat /\ DOMAIN st.slots = 1..m
      /\ \A k \in 1..n : st.live_slots[k] \in Nat
      /\ \A j \in 1..m : st.slots[j] \in Slots
      /\ st.identity \in 1..IdentityMax
  BY TableFields
<1>2. \A k \in 1..n : /\ st.live_slots[k] + 1 \in 1..m
                      /\ st.slots[st.live_slots[k] + 1].dense_index = k - 1
                      /\ st.slots[st.live_slots[k] + 1].occupied
  BY <1>1 DEF Dense
<1>3. \A j \in 1..m : st.slots[j].occupied =>
            /\ st.slots[j].dense_index < n
            /\ st.live_slots[st.slots[j].dense_index + 1] = j - 1
  BY <1>1 DEF Dense
<1>4. \A j \in 1..m : st.slots[j].dense_index \in Nat /\ st.slots[j].occupied \in BOOLEAN
  BY <1>1, SlotFields
<1>5. d \in Nat /\ d < n /\ d + 1 \in 1..n /\ st.live_slots[d + 1] = i - 1
  <2>1. d \in Nat /\ d < n /\ st.live_slots[d + 1] = i - 1 /\ n \in Nat
    BY <1>1, <1>3, <1>4
  <2> QED
    BY <2>1
<1>6. new = [identity |-> st.identity, slots |-> [slots EXCEPT ![i] = Vacate(slots[i])],
             live_slots |-> live]
  BY DEF Removed
<1> HIDE DEF n, m, d
<1>7. /\ live \in Seq(Nat) /\ Len(live) = n - 1
      /\ \A k \in 1..(n - 1) : live[k] = st.live_slots[IF k < d + 1 THEN k ELSE k + 1]
  <2>1. st.live_slots \in Seq(Nat) /\ d + 1 \in 1..Len(st.live_slots)
    BY <1>1, <1>5 DEF n
  <2> QED
    BY <2>1, RemovedAt DEF n
<1>8. \A j \in 1..m : j - 1 \in moved =>
            d < st.slots[j].dense_index /\ 1 <= st.slots[j].dense_index
  <2> SUFFICES ASSUME NEW j \in 1..m, j - 1 \in moved
               PROVE  d < st.slots[j].dense_index /\ 1 <= st.slots[j].dense_index
    OBVIOUS
  <2>1. PICK k \in (d + 1)..Len(live) : j - 1 = live[k]
    OBVIOUS
  <2>2. k \in 1..(n - 1) /\ ~(k < d + 1) /\ k + 1 \in 1..n
    <3>1. Len(live) = n - 1 /\ d \in Nat /\ n \in Nat
      BY <1>1, <1>5, <1>7
    <3> QED
      BY <2>1, <3>1
  <2>3. live[k] = st.live_slots[k + 1]
    BY <1>7, <2>2
  <2>4. st.live_slots[k + 1] + 1 = j
    BY <1>1, <2>1, <2>3
  <2>5. st.slots[j].dense_index = k + 1 - 1
    BY <1>2, <2>2, <2>4, SMTT(30)
  <2> QED
    BY <1>5, <2>2, <2>5
<1>9. \A j \in 1..m : st.slots[j].occupied /\ d < st.slots[j].dense_index => j - 1 \in moved
  <2> SUFFICES ASSUME NEW j \in 1..m, st.slots[j].occupied, d < st.slots[j].dense_index
               PROVE  j - 1 \in moved
    OBVIOUS
  <2>1. PICK k \in Nat : k = st.slots[j].dense_index
    BY <1>4
  <2>2. k < n /\ st.live_slots[k + 1] = j - 1 /\ d < k
    BY <1>3, <2>1
  <2>3. k \in 1..(n - 1) /\ ~(k < d + 1) /\ k \in (d + 1)..Len(live)
    <3>1. Len(live) = n - 1 /\ d \in Nat /\ n \in Nat /\ k < n /\ d < k
      BY <1>1, <1>5, <1>7, <2>2
    <3> QED
      BY <2>1, <3>1, SMTT(30)
  <2>4. live[k] = j - 1
    BY <1>7, <2>2, <2>3
  <2> QED
    BY <2>3, <2>4
<1> HIDE DEF live, moved
<1>10. /\ slots \in [1..m -> Slots]
       /\ \A j \in 1..m : /\ slots[j].value = st.slots[j].value
                          /\ slots[j].occupied = st.slots[j].occupied
                          /\ slots[j].generation = st.slots[j].generation
                          /\ slots[j].dense_index =
                                IF j - 1 \in moved THEN st.slots[j].dense_index - 1
                                ELSE st.slots[j].dense_index
  <2>1. slots = [j \in 1..m |-> IF j - 1 \in moved
                                THEN [st.slots[j] EXCEPT !.dense_index = @ - 1]
                                ELSE st.slots[j]]
    BY <1>1 DEF Renumber
  <2> HIDE DEF slots
  <2>2. ASSUME NEW j \in 1..m
        PROVE  /\ slots[j] \in Slots
               /\ slots[j].value = st.slots[j].value
               /\ slots[j].occupied = st.slots[j].occupied
               /\ slots[j].generation = st.slots[j].generation
               /\ slots[j].dense_index = IF j - 1 \in moved THEN st.slots[j].dense_index - 1
                                         ELSE st.slots[j].dense_index
    <3>1. CASE j - 1 \in moved
      <4>1. slots[j] = [st.slots[j] EXCEPT !.dense_index = @ - 1]
        BY <2>1, <3>1
      <4>2. st.slots[j].dense_index - 1 \in Nat
        BY <1>4, <1>8, <3>1
      <4> QED
        BY <1>1, <3>1, <4>1, <4>2, ZenonT(60) DEF Slots
    <3>2. CASE j - 1 \notin moved
      BY <1>1, <2>1, <3>2
    <3> QED
      BY <3>1, <3>2
  <2> QED
    BY <2>1, <2>2
<1> HIDE DEF slots
<1>11. /\ slots \in Seq(Slots) /\ Len(slots) = m /\ slots[i] \in Slots
  <2>1. m \in Nat /\ i \in 1..m
    BY <1>1 DEF m
  <2>2. slots \in [1..m -> Slots]
    BY <1>10
  <2> QED
    BY <2>1, <2>2, SeqDef
<1>12. /\ new.slots = [slots EXCEPT ![i] = Vacate(slots[i])]
       /\ new.live_slots = live /\ new.identity = st.identity
  BY <1>6
<1> HIDE DEF new
<1>13. Vacate(slots[i]) \in Slots
  BY <1>11, VacatedSlot
<1>14. /\ new.slots \in Seq(Slots) /\ Len(new.slots) = m
       /\ \A j \in 1..m : new.slots[j] = IF j = i THEN Vacate(slots[i]) ELSE slots[j]
  BY <1>11, <1>12, <1>13, ExceptSeq DEF m
<1>15. new \in Tables
  BY <1>1, <1>6, <1>7, <1>12, <1>14 DEF Tables
<1>16. DOMAIN new.slots = 1..m
  BY <1>14, LenProperties
<1>17. Dense(new, 0)
  <2>1. ASSUME NEW k \in 1..(n - 1)
        PROVE  LET j == new.live_slots[k] + 1 IN
               /\ j \in DOMAIN new.slots /\ new.slots[j].dense_index = k - 1
               /\ new.slots[j].occupied
    <3>1. PICK q \in 1..n : q = IF k < d + 1 THEN k ELSE k + 1
      BY <1>1, <1>5
    <3>2. PICK j \in 1..m : j = st.live_slots[q] + 1
      BY <1>2
    <3>3. new.live_slots[k] = st.live_slots[q]
      BY <1>7, <1>12, <3>1
    <3>4. st.slots[j].dense_index = q - 1 /\ st.slots[j].occupied
      BY <1>2, <3>2
    <3>5. q # d + 1
      BY <1>5, <3>1
    <3>6. j # i
      BY <1>5, <3>4, <3>5 DEF d
    <3>7. new.slots[j] = slots[j]
      BY <1>14, <3>6
    <3>8. slots[j].dense_index = k - 1
      <4>1. CASE k < d + 1
        <5>1. j - 1 \notin moved
          BY <1>5, <1>8, <3>1, <3>4, <4>1
        <5> QED
          BY <1>10, <3>1, <3>4, <4>1, <5>1
      <4>2. CASE ~(k < d + 1)
        <5>1. j - 1 \in moved
          BY <1>5, <1>9, <3>1, <3>4, <4>2, SMTT(30)
        <5> QED
          BY <1>10, <3>1, <3>4, <4>2, <5>1
      <4> QED
        BY <4>1, <4>2
    <3>9. slots[j].occupied
      BY <1>10, <3>4
    <3> QED
      BY <1>16, <3>2, <3>3, <3>7, <3>8, <3>9
  <2>2. ASSUME NEW j \in 1..m, new.slots[j].occupied
        PROVE  /\ new.slots[j].dense_index < n - 1
               /\ new.live_slots[new.slots[j].dense_index + 1] = j - 1
    <3>1. j # i /\ new.slots[j] = slots[j]
      BY <1>11, <1>14, <2>2, VacatedSlot
    <3>2. st.slots[j].occupied
      BY <1>10, <2>2, <3>1
    <3>3. PICK e \in Nat : e = st.slots[j].dense_index
      BY <1>4
    <3>4. e < n /\ st.live_slots[e + 1] = j - 1 /\ e # d
      <4>1. e < n /\ st.live_slots[e + 1] = j - 1
        BY <1>3, <3>2, <3>3
      <4>2. j \in Nat /\ i \in Nat /\ m \in Nat
        BY <1>1 DEF m
      <4>3. e = d => i - 1 = j - 1
        BY <1>5, <4>1
      <4> QED
        BY <3>1, <4>1, <4>2, <4>3
    <3>5. CASE e < d
      <4>1. j - 1 \notin moved
        BY <1>5, <1>8, <3>3, <3>5
      <4>2. new.slots[j].dense_index = e
        BY <1>10, <3>1, <3>3, <4>1
      <4>3. e + 1 \in 1..(n - 1) /\ e + 1 < d + 1 /\ e < n - 1
        BY <1>1, <1>5, <3>4, <3>5
      <4>4. new.live_slots[e + 1] = j - 1
        BY <1>7, <1>12, <3>4, <4>3
      <4> QED
        BY <4>2, <4>3, <4>4
    <3>6. CASE d < e
      <4>1. j - 1 \in moved
        BY <1>9, <3>2, <3>3, <3>6
      <4>2. new.slots[j].dense_index = e - 1
        BY <1>10, <3>1, <3>3, <4>1
      <4>3. e \in 1..(n - 1) /\ ~(e < d + 1) /\ e - 1 < n - 1 /\ e - 1 + 1 = e
        BY <1>1, <1>5, <3>4, <3>6
      <4>4. new.live_slots[e] = j - 1
        BY <1>7, <1>12, <3>4, <4>3
      <4> QED
        BY <4>2, <4>3, <4>4
    <3> QED
      BY <1>5, <3>4, <3>5, <3>6
  <2>3. Len(new.live_slots) = n - 1 /\ 0 <= n - 1 /\ \A k \in 1..(n - 1) : 0 < k
    BY <1>1, <1>5, <1>7, <1>12
  <2> QED
    BY <1>16, <2>1, <2>2, <2>3 DEF Dense
<1>18. /\ \A j \in 1..m : j # i =>
              /\ new.slots[j].value = st.slots[j].value
              /\ new.slots[j].occupied = st.slots[j].occupied
              /\ new.slots[j].generation = st.slots[j].generation
       /\ ~new.slots[i].occupied
       /\ st.slots[i].generation <= new.slots[i].generation
       /\ new.slots[i].generation = st.slots[i].generation =>
             st.slots[i].generation = GenerationMax
  <2>1. i \in 1..m
    BY DEF m
  <2>2. new.slots[i] = Vacate(slots[i]) /\ slots[i].generation = st.slots[i].generation
    BY <1>10, <1>14, <2>1
  <2>3. /\ ~Vacate(slots[i]).occupied /\ slots[i].generation <= Vacate(slots[i]).generation
        /\ Vacate(slots[i]).generation = slots[i].generation =>
              slots[i].generation = GenerationMax
    BY <1>11, VacatedSlot
  <2> QED
    BY <1>10, <1>14, <2>2, <2>3
<1>19. d \in 0..(n - 1)
  BY <1>1, <1>5
<1> QED
  BY <1>5, <1>7, <1>12, <1>14, <1>15, <1>17, <1>18, <1>19 DEF new, n, m, d

\* clear: no slot is occupied any more.
LEMMA ClearedTable ==
    ASSUME NEW st \in Tables
    PROVE  LET new == Cleared(st) IN
           /\ new \in Tables /\ new.identity = st.identity
           /\ Len(new.slots) = Len(st.slots)
           /\ \A j \in 1..Len(st.slots) :
                 /\ ~new.slots[j].occupied
                 /\ st.slots[j].generation <= new.slots[j].generation
                 /\ new.slots[j].generation = st.slots[j].generation =>
                       \/ new.slots[j] = st.slots[j]
                       \/ st.slots[j].generation = GenerationMax
           /\ Len(new.live_slots) = 0
           /\ Dense(new, 0)
<1> DEFINE new == Cleared(st)
           m == Len(st.slots)
           slots == [j \in 1..m |-> IF st.slots[j].occupied THEN Vacate(st.slots[j])
                                    ELSE st.slots[j]]
<1>1. m \in Nat /\ DOMAIN st.slots = 1..m /\ \A j \in 1..m : st.slots[j] \in Slots
  BY TableFields
<1>2. new = [identity |-> st.identity, slots |-> slots, live_slots |-> <<>>]
  BY <1>1 DEF Cleared
<1> HIDE DEF m
<1>3. ASSUME NEW j \in 1..m
      PROVE  /\ slots[j] \in Slots /\ ~slots[j].occupied
             /\ st.slots[j].generation <= slots[j].generation
             /\ slots[j].generation = st.slots[j].generation =>
                   slots[j] = st.slots[j] \/ st.slots[j].generation = GenerationMax
  <2>1. CASE st.slots[j].occupied
    <3>1. slots[j] = Vacate(st.slots[j])
      BY <2>1
    <3> QED
      BY <1>1, <3>1, VacatedSlot
  <2>2. CASE ~st.slots[j].occupied
    <3>1. slots[j] = st.slots[j] /\ st.slots[j] \in Slots
      BY <1>1, <2>2
    <3>2. st.slots[j].generation \in 1..GenerationMax
      BY <3>1, SlotFields
    <3>3. st.slots[j].generation <= st.slots[j].generation
      BY <3>2, StoreAssumption
    <3> QED
      BY <2>2, <3>1, <3>3
  <2> QED
    BY <2>1, <2>2
<1>4. slots \in [1..m -> Slots]
  BY <1>3
<1> HIDE DEF slots
<1>5. slots \in Seq(Slots) /\ Len(slots) = m /\ DOMAIN slots = 1..m
  BY <1>1, <1>4, SeqDef
<1>6. new.slots = slots /\ new.live_slots = <<>> /\ new.identity = st.identity
  BY <1>2
<1>7. <<>> \in Seq(Nat) /\ Len(<<>>) = 0
  OBVIOUS
<1>8. new \in Tables
  BY <1>2, <1>5, <1>7, TableFields DEF Tables
<1> HIDE DEF new
<1>9. Dense(new, 0)
  BY <1>3, <1>5, <1>6, <1>7 DEF Dense
<1> QED
  BY <1>3, <1>5, <1>6, <1>7, <1>8, <1>9 DEF new, m

\* The slot a consuming loop leaves behind keeps all but its occupied flag.
LEMMA EmptiedSlot ==
    ASSUME NEW slot \in Slots
    PROVE  [slot EXCEPT !.occupied = FALSE] =
               [value |-> slot.value, generation |-> slot.generation,
                dense_index |-> slot.dense_index, occupied |-> FALSE]
<1> DEFINE no == FALSE
<1>1. [slot EXCEPT !.occupied = no] =
          [value |-> slot.value, generation |-> slot.generation,
           dense_index |-> slot.dense_index, occupied |-> no]
  <2> HIDE DEF no
  <2> QED
    BY DEF Slots
<1> QED
  BY <1>1

\* A step of the consuming loop: the next live slot is given up and stays in
\* its place.
LEMMA TakenTable ==
    ASSUME NEW st \in Tables, NEW done \in Nat, Dense(st, done), done < Len(st.live_slots)
    PROVE  LET i == st.live_slots[done + 1] + 1
               new == Taken(st, i)
           IN  /\ i \in 1..Len(st.slots) /\ st.slots[i].occupied
               /\ new \in Tables /\ new.identity = st.identity
               /\ Len(new.slots) = Len(st.slots)
               /\ \A j \in 1..Len(st.slots) :
                     /\ new.slots[j].value = st.slots[j].value
                     /\ new.slots[j].generation = st.slots[j].generation
                     /\ j # i => new.slots[j].occupied = st.slots[j].occupied
               /\ ~new.slots[i].occupied
               /\ new.live_slots = st.live_slots
               /\ Dense(new, done + 1)
<1> DEFINE n == Len(st.live_slots)
           m == Len(st.slots)
           i == st.live_slots[done + 1] + 1
           new == Taken(st, i)
           slot == [value |-> st.slots[i].value, generation |-> st.slots[i].generation,
                    dense_index |-> st.slots[i].dense_index, occupied |-> FALSE]
<1>1. /\ st.slots \in Seq(Slots) /\ st.live_slots \in Seq(Nat) /\ n \in Nat
      /\ m \in Nat /\ DOMAIN st.slots = 1..m
      /\ \A j \in 1..m : st.slots[j] \in Slots
      /\ st.identity \in 1..IdentityMax
  BY TableFields
<1>2. \A k \in 1..n : /\ st.live_slots[k] + 1 \in 1..m
                      /\ st.slots[st.live_slots[k] + 1].dense_index = k - 1
                      /\ st.slots[st.live_slots[k] + 1].occupied <=> done < k
  BY <1>1 DEF Dense
<1>3. \A j \in 1..m : st.slots[j].occupied =>
            /\ st.slots[j].dense_index < n
            /\ st.live_slots[st.slots[j].dense_index + 1] = j - 1
  BY <1>1 DEF Dense
<1>4. done + 1 \in 1..n /\ done < done + 1 /\ done + 1 <= n /\ done + 1 \in Nat
  BY <1>1
<1> HIDE DEF n, m
<1>5. i \in 1..m /\ st.slots[i].dense_index = done /\ st.slots[i].occupied
  <2>1. st.slots[i].dense_index = done + 1 - 1
    BY <1>2, <1>4
  <2> QED
    BY <1>2, <1>4, <2>1
<1> HIDE DEF i
<1>6. slot \in Slots
  BY <1>1, <1>5 DEF Slots
<1>7. new = [identity |-> st.identity, slots |-> [st.slots EXCEPT ![i] = slot],
             live_slots |-> st.live_slots]
  <2>3. PICK o \in Slots : o = st.slots[i]
    BY <1>1, <1>5
  <2>1. [o EXCEPT !.occupied = FALSE] =
            [value |-> o.value, generation |-> o.generation,
             dense_index |-> o.dense_index, occupied |-> FALSE]
    BY EmptiedSlot
  <2>4. slot = [st.slots[i] EXCEPT !.occupied = FALSE]
    BY <2>1, <2>3
  <2>2. new = [st EXCEPT !.slots = [st.slots EXCEPT ![i] = slot]]
    BY <2>4 DEF Taken
  <2> HIDE DEF slot
  <2> QED
    BY <2>2 DEF Tables
<1> HIDE DEF slot
<1>8. /\ new.slots = [st.slots EXCEPT ![i] = slot]
      /\ new.live_slots = st.live_slots /\ new.identity = st.identity
  BY <1>7
<1> HIDE DEF new
<1>9. /\ new.slots \in Seq(Slots) /\ Len(new.slots) = m
      /\ \A j \in 1..m : new.slots[j] = IF j = i THEN slot ELSE st.slots[j]
  BY <1>1, <1>5, <1>6, <1>8, ExceptSeq DEF m
<1>10. new \in Tables
  BY <1>1, <1>7, <1>8, <1>9 DEF Tables
<1>11. DOMAIN new.slots = 1..m
  BY <1>9, LenProperties
<1>12. ASSUME NEW j \in 1..m
       PROVE  /\ new.slots[j].value = st.slots[j].value
              /\ new.slots[j].generation = st.slots[j].generation
              /\ new.slots[j].dense_index = st.slots[j].dense_index
              /\ j # i => new.slots[j].occupied = st.slots[j].occupied
  <2>1. CASE j = i
    BY <1>9, <2>1 DEF slot
  <2>2. CASE j # i
    BY <1>9, <2>2
  <2> QED
    BY <2>1, <2>2
<1>13. ~new.slots[i].occupied
  BY <1>5, <1>9 DEF slot
<1>14. Dense(new, done + 1)
  <2>1. ASSUME NEW k \in 1..n
        PROVE  LET j == new.live_slots[k] + 1 IN
               /\ j \in DOMAIN new.slots /\ new.slots[j].dense_index = k - 1
               /\ new.slots[j].occupied <=> done + 1 < k
    <3>1. PICK j \in 1..m : j = st.live_slots[k] + 1
      BY <1>2
    <3>2. j \in DOMAIN new.slots /\ new.slots[j].dense_index = k - 1
      BY <1>2, <1>11, <1>12, <3>1
    <3>3. CASE k = done + 1
      <4>1. j = i /\ ~(done + 1 < k)
        BY <1>4, <3>1, <3>3 DEF i
      <4> QED
        BY <1>8, <1>13, <3>1, <3>2, <4>1
    <3>4. CASE k # done + 1
      <4>1. j # i
        <5>1. st.slots[j].dense_index = k - 1
          BY <1>2, <3>1
        <5> QED
          BY <1>4, <1>5, <3>4, <5>1
      <4>2. done < k <=> done + 1 < k
        BY <3>4
      <4> QED
        BY <1>2, <1>8, <1>12, <3>1, <3>2, <4>1, <4>2
    <3> QED
      BY <3>3, <3>4
  <2>2. ASSUME NEW j \in 1..m, new.slots[j].occupied
        PROVE  /\ new.slots[j].dense_index < n
               /\ new.live_slots[new.slots[j].dense_index + 1] = j - 1
    BY <1>3, <1>8, <1>12, <1>13, <2>2
  <2> QED
    BY <1>4, <1>8, <1>11, <2>1, <2>2 DEF Dense, n
<1> QED
  BY <1>5, <1>8, <1>9, <1>10, <1>12, <1>13, <1>14 DEF new, m, n, i

\* A slot that keeps its value, or gives it up for good or in a later
\* generation, or is reused in a generation no handle has, leaves its handles
\* as they were.
LEMMA AgedKept ==
    ASSUME NEW st \in Tables, NEW new \in Tables, NEW loop \in BOOLEAN, NEW loop2 \in BOOLEAN,
           NEW g, g.handle \in Handles, Aged(st, loop, g),
           new.identity = st.identity, Len(st.slots) <= Len(new.slots),
           LET o == st.slots[g.handle.slot + 1]
               w == new.slots[g.handle.slot + 1]
           IN  /\ o.generation <= w.generation
               /\ w.generation = o.generation =>
                     \/ w.value = o.value /\ w.occupied = o.occupied /\ (loop => loop2)
                     \/ ~w.occupied /\ (loop2 \/ w.generation = GenerationMax)
                     \/ ~o.occupied /\ ~loop /\ o.generation # GenerationMax
    PROVE  Aged(new, loop2, g)
<1> DEFINE h == g.handle
           i == g.handle.slot + 1
<1>1. h.slot \in Nat /\ h.generation \in Nat
  BY StoreAssumption DEF Handles
<1>2. /\ Len(st.slots) \in Nat /\ DOMAIN st.slots = 1..Len(st.slots)
      /\ Len(new.slots) \in Nat /\ DOMAIN new.slots = 1..Len(new.slots)
      /\ \A j \in DOMAIN st.slots : st.slots[j] \in Slots
      /\ \A j \in DOMAIN new.slots : new.slots[j] \in Slots
  BY TableFields
<1>3. h.store = st.identity /\ h.slot < Len(st.slots) /\ h.generation <= st.slots[i].generation
  BY DEF Aged
<1>4. h.slot < Len(new.slots) /\ i \in DOMAIN st.slots /\ i \in DOMAIN new.slots
  BY <1>1, <1>2, <1>3
<1>5. st.slots[i].generation \in Nat /\ new.slots[i].generation \in Nat
  <2>1. st.slots[i].generation \in 1..GenerationMax /\ new.slots[i].generation \in 1..GenerationMax
    BY <1>2, <1>4, SlotFields
  <2> QED
    BY <2>1, StoreAssumption, SMTT(30)
<1>6. st.slots[i].generation <= new.slots[i].generation
  OBVIOUS
<1>7. h.generation <= new.slots[i].generation
  BY <1>1, <1>3, <1>5, <1>6
<1>8. ASSUME h.generation = new.slots[i].generation
      PROVE  \/ new.slots[i].occupied /\ new.slots[i].value = g.item
             \/ ~new.slots[i].occupied /\ (loop2 \/ new.slots[i].generation = GenerationMax)
  <2>1. h.generation = st.slots[i].generation /\ new.slots[i].generation = st.slots[i].generation
    BY <1>1, <1>3, <1>5, <1>6, <1>8, SMTT(30)
  <2>2. \/ st.slots[i].occupied /\ st.slots[i].value = g.item
        \/ ~st.slots[i].occupied /\ (loop \/ st.slots[i].generation = GenerationMax)
    BY <2>1 DEF Aged
  <2> QED
    BY <2>1, <2>2
<1> QED
  BY <1>3, <1>4, <1>7, <1>8 DEF Aged

-----------------------------------------------------------------------------
(* The state *)

\* A held table with all that the invariant says of it.
LEMMA TableThere ==
    ASSUME TypeOK, TablesSound, NEW s \in StoreIds, stores[s] # None
    PROVE  /\ stores[s] \in Tables
           /\ Dense(stores[s], Done(s)) /\ Ordered(stores[s], Done(s), order[s])
           /\ \A g \in issued : g.store = s => Aged(stores[s], cursor[s] # None, g)
           /\ \A i \in DOMAIN stores[s].slots : stores[s].slots[i].occupied =>
                 Entry(s, stores[s], i, stores[s].slots[i].value) \in issued
BY DEF TypeOK, TablesSound, TableOf

\* What insert has returned, taken apart.
LEMMA IssuedFields ==
    ASSUME TypeOK, NEW g \in issued
    PROVE  g.handle \in Handles /\ g.store \in StoreIds /\ g.item \in Items
BY DEF TypeOK

\* The value of an occupied slot is an item that is stored, and no other
\* occupied slot of any store has it: both have the item's one handle.
LEMMA OccupiedOnce ==
    ASSUME TypeOK, TablesSound, ItemsPlaced,
           NEW s \in StoreIds, stores[s] # None,
           NEW i \in DOMAIN stores[s].slots, stores[s].slots[i].occupied
    PROVE  /\ stores[s].slots[i].value \in Items /\ fate[stores[s].slots[i].value] = "stored"
           /\ \A r \in StoreIds : stores[r] # None =>
                 \A j \in DOMAIN stores[r].slots :
                    Has(stores[r], j, stores[s].slots[i].value) => r = s /\ j = i
<1> DEFINE x == stores[s].slots[i].value
           g == Entry(s, stores[s], i, x)
<1>1. g \in issued
  BY TableThere
<1>2. x \in Items
  <2>1. g.item = x
    BY DEF Entry
  <2> QED
    BY <1>1, <2>1, IssuedFields
<1>3. fate[x] = "stored"
  <2>1. Has(stores[s], i, x)
    BY DEF Has
  <2> QED
    BY <1>2, <2>1 DEF ItemsPlaced
<1>4. ASSUME NEW r \in StoreIds, stores[r] # None, NEW j \in DOMAIN stores[r].slots,
             Has(stores[r], j, x)
      PROVE  r = s /\ j = i
  <2> DEFINE h == Entry(r, stores[r], j, x)
  <2>1. h \in issued
    BY <1>4, TableThere DEF Has
  <2>2. g.item = h.item
    BY DEF Entry
  <2>3. g = h
    BY <1>1, <2>1, <2>2 DEF ItemsPlaced
  <2>4. g.store = s /\ h.store = r /\ g.handle.slot = i - 1 /\ h.handle.slot = j - 1
    BY DEF Entry
  <2>5. i \in Int /\ j \in Int
    <3>1. stores[s] \in Tables /\ stores[r] \in Tables
      BY <1>4, TableThere
    <3>2. DOMAIN stores[s].slots = 1..Len(stores[s].slots)
          /\ DOMAIN stores[r].slots = 1..Len(stores[r].slots)
      BY <3>1, TableFields
    <3> QED
      BY <3>2
  <2> QED
    BY <2>3, <2>4, <2>5
<1> QED
  BY <1>2, <1>3, <1>4

\* A step that leaves a store and its handles alone.
LEMMA OtherStore ==
    ASSUME NEW s \in StoreIds, TableOf(s),
           stores'[s] = stores[s], cursor'[s] = cursor[s], order'[s] = order[s],
           issued \subseteq issued', \A g \in issued' : g \in issued \/ g.store # s
    PROVE  TableOf(s)'
<1>1. CASE stores[s] = None
  BY <1>1 DEF TableOf
<1>2. CASE stores[s] # None
  <2>1. stores'[s] # None /\ Done(s)' = Done(s)
    BY <1>2 DEF Done
  <2>2. Dense(stores[s], Done(s)) /\ Ordered(stores[s], Done(s), order[s])
    BY <1>2 DEF TableOf
  <2>3. Dense(stores'[s], Done(s)') /\ Ordered(stores'[s], Done(s)', order'[s])
    BY <2>1, <2>2
  <2>4. \A g \in issued' : g.store = s => Aged(stores'[s], cursor'[s] # None, g)
    BY <1>2 DEF TableOf
  <2>5. \A i \in DOMAIN stores'[s].slots : stores'[s].slots[i].occupied =>
            Entry(s, stores'[s], i, stores'[s].slots[i].value) \in issued'
    BY <1>2 DEF TableOf
  <2> QED
    BY <2>1, <2>3, <2>4, <2>5 DEF TableOf
<1> QED
  BY <1>1, <1>2

\* One value leaves its slot.
LEMMA MovedOut ==
    ASSUME TypeOK, TablesSound, ItemsPlaced,
           NEW s \in StoreIds, stores[s] # None,
           NEW i \in DOMAIN stores[s].slots, stores[s].slots[i].occupied,
           NEW new \in Tables, stores' = [stores EXCEPT ![s] = new],
           Len(new.slots) = Len(stores[s].slots), ~new.slots[i].occupied,
           \A j \in 1..Len(stores[s].slots) : j # i =>
              /\ new.slots[j].value = stores[s].slots[j].value
              /\ new.slots[j].occupied = stores[s].slots[j].occupied,
           fate' = [fate EXCEPT ![stores[s].slots[i].value] = "moved"],
           UNCHANGED issued
    PROVE  ItemsPlaced'
<1> DEFINE v == stores[s].slots[i].value
<1>1. /\ v \in Items /\ fate[v] = "stored"
      /\ \A r \in StoreIds : stores[r] # None =>
            \A j \in DOMAIN stores[r].slots : Has(stores[r], j, v) => r = s /\ j = i
  BY OccupiedOnce
<1>2. /\ DOMAIN stores[s].slots = 1..Len(stores[s].slots)
      /\ DOMAIN new.slots = 1..Len(stores[s].slots)
  BY TableThere, TableFields
<1>3. new # None /\ stores'[s] = new /\ \A r \in StoreIds : r # s => stores'[r] = stores[r]
  BY StoreAssumption DEF TypeOK
<1>4. fate' \in [Items -> {"owned", "stored", "moved", "dropped"}]
      /\ fate'[v] = "moved" /\ \A x \in Items : x # v => fate'[x] = fate[x]
  BY <1>1 DEF TypeOK
<1> HIDE DEF v
<1>5. \A g \in issued' : fate'[g.item] # "owned"
  BY <1>1, <1>4, IssuedFields DEF ItemsPlaced
<1>6. ASSUME NEW x \in Items, NEW r \in StoreIds, NEW j
      PROVE  (stores'[r] # None /\ j \in DOMAIN stores'[r].slots /\ Has(stores'[r], j, x))
             <=> (stores[r] # None /\ j \in DOMAIN stores[r].slots /\ Has(stores[r], j, x)
                  /\ x # v)
  <2>1. CASE r # s
    BY <1>1, <1>3, <2>1
  <2>2. CASE r = s /\ j = i
    BY <1>3, <2>2 DEF Has, v
  <2>3. CASE r = s /\ j # i
    BY <1>1, <1>2, <1>3, <2>3 DEF Has
  <2> QED
    BY <2>1, <2>2, <2>3
<1>7. ASSUME NEW x \in Items
      PROVE  fate'[x] = "stored" <=> \E r \in StoreIds : stores'[r] # None
                                        /\ \E j \in DOMAIN stores'[r].slots : Has(stores'[r], j, x)
  <2>1. CASE x = v
    BY <1>4, <1>6, <2>1
  <2>2. CASE x # v
    <3>1. fate[x] = "stored" <=> \E r \in StoreIds : stores[r] # None
                                    /\ \E j \in DOMAIN stores[r].slots : Has(stores[r], j, x)
      BY DEF ItemsPlaced
    <3> QED
      BY <1>4, <1>6, <2>2, <3>1
  <2> QED
    BY <2>1, <2>2
<1> QED
  BY <1>5, <1>7 DEF ItemsPlaced

\* All the values of a store are dropped.
LEMMA AllDropped ==
    ASSUME TypeOK, TablesSound, ItemsPlaced,
           NEW s \in StoreIds, stores[s] # None,
           DropItems({slot.value : slot \in Occupied(s)}),
           NEW new, stores' = [stores EXCEPT ![s] = new],
           new = None \/ \A j \in DOMAIN new.slots : ~new.slots[j].occupied,
           UNCHANGED issued
    PROVE  /\ ItemsPlaced'
           /\ fate' \in [Items -> {"owned", "stored", "moved", "dropped"}]
<1> DEFINE xs == {slot.value : slot \in Occupied(s)}
<1>1. \A x : x \in xs <=> \E j \in DOMAIN stores[s].slots : Has(stores[s], j, x)
  BY DEF Occupied, Range, Has
<1>2. fate' = [x \in Items |-> IF x \in xs THEN "dropped" ELSE fate[x]]
  BY DEF DropItems
<1> HIDE DEF xs
<1>3. stores'[s] = new /\ \A r \in StoreIds : r # s => stores'[r] = stores[r]
  BY DEF TypeOK
<1>4. \A x \in Items : fate'[x] = IF x \in xs THEN "dropped" ELSE fate[x]
  BY <1>2
<1>5. \A g \in issued' : fate'[g.item] # "owned"
  BY <1>4, IssuedFields DEF ItemsPlaced
<1>6. ASSUME NEW x \in Items, NEW r \in StoreIds, NEW j
      PROVE  (stores'[r] # None /\ j \in DOMAIN stores'[r].slots /\ Has(stores'[r], j, x))
             <=> (stores[r] # None /\ j \in DOMAIN stores[r].slots /\ Has(stores[r], j, x)
                  /\ x \notin xs)
  <2>1. CASE r # s
    <3>1. ASSUME stores[r] # None, j \in DOMAIN stores[r].slots, Has(stores[r], j, x), x \in xs
          PROVE  FALSE
      <4>1. PICK i \in DOMAIN stores[s].slots : Has(stores[s], i, x)
        BY <1>1, <3>1
      <4>2. stores[s].slots[i].occupied /\ stores[s].slots[i].value = x
        BY <4>1 DEF Has
      <4> QED
        BY <2>1, <3>1, <4>2, OccupiedOnce
    <3> QED
      BY <1>3, <2>1, <3>1
  <2>2. CASE r = s
    BY <1>1, <1>3, <2>2 DEF Has
  <2> QED
    BY <2>1, <2>2
<1>7. ASSUME NEW x \in Items
      PROVE  fate'[x] = "stored" <=> \E r \in StoreIds : stores'[r] # None
                                        /\ \E j \in DOMAIN stores'[r].slots : Has(stores'[r], j, x)
  <2>1. CASE x \in xs
    BY <1>4, <1>6, <2>1
  <2>2. CASE x \notin xs
    <3>1. fate[x] = "stored" <=> \E r \in StoreIds : stores[r] # None
                                    /\ \E j \in DOMAIN stores[r].slots : Has(stores[r], j, x)
      BY DEF ItemsPlaced
    <3> QED
      BY <1>4, <1>6, <2>2, <3>1
  <2> QED
    BY <2>1, <2>2
<1>8. fate' \in [Items -> {"owned", "stored", "moved", "dropped"}]
  BY <1>2 DEF TypeOK
<1> QED
  BY <1>5, <1>7, <1>8 DEF ItemsPlaced

\* The lookup of get and remove.
LEMMA LookupResult ==
    ASSUME NEW s \in StoreIds, stores[s] \in Tables, NEW h \in Handles
    PROVE  LET st == stores[s]
               found == h.slot < Len(st.slots) /\ st.slots[h.slot + 1].occupied
                        /\ st.slots[h.slot + 1].generation = h.generation
           IN  /\ h.store # st.identity => Lookup(s, h) = "E-RUN-WRONG-STORE"
               /\ h.store = st.identity /\ ~found => Lookup(s, h) = "E-RUN-STALE"
               /\ h.store = st.identity /\ found => Lookup(s, h) = st.slots[h.slot + 1].value
<1>1. h.slot \in Nat /\ Len(stores[s].slots) \in Nat
  BY TableFields DEF Handles
<1>2. h.slot >= Len(stores[s].slots) <=> ~(h.slot < Len(stores[s].slots))
  BY <1>1
<1> QED
  BY <1>2 DEF Lookup

-----------------------------------------------------------------------------
(* The steps *)

\* The start is an empty program.
LEMMA InitIInv == Init => IInv
<1> SUFFICES ASSUME Init PROVE IInv
  OBVIOUS
<1>1. TypeOK
  BY StoreAssumption DEF Init, TypeOK
<1>2. TablesSound
  BY DEF Init, TablesSound, TableOf
<1>3. ItemsPlaced
  BY DEF Init, ItemsPlaced
<1>4. CreatesFresh
  BY DEF Init, CreatesFresh
<1> QED
  BY <1>1, <1>2, <1>3, <1>4 DEF IInv

\* The first half of a creation touches no store.
LEMMA StoreNewReadStep ==
    ASSUME IInv, NEW t \in Threads, NEW s \in StoreIds, StoreNewRead(t, s)
    PROVE  IInv'
<1> DEFINE c == [store |-> s, identity |-> el_next_store_identity]
<1>1. /\ creating' = [creating EXCEPT ![t] = c]
      /\ UNCHANGED <<el_next_store_identity, stores, cursor, issued, order, fate>>
      /\ MayCreate(t, s) /\ el_next_store_identity # 0
  BY DEF StoreNewRead
<1>2. c \in Creations
  BY <1>1, StoreAssumption DEF IInv, TypeOK, Creations
<1>3. TypeOK'
  BY <1>1, <1>2 DEF IInv, TypeOK
<1>4. TablesSound'
  BY <1>1, OtherStore DEF IInv, TablesSound
<1>5. ItemsPlaced'
  BY <1>1 DEF IInv, ItemsPlaced
<1>6. CreatesFresh'
  <2>1. creating'[t] = c /\ c.store = s /\ \A u \in Threads : u # t => creating'[u] = creating[u]
    BY <1>1 DEF IInv, TypeOK
  <2> HIDE DEF c
  <2>2. /\ stores[s] = None /\ \A g \in issued : g.store # s
        /\ \A u \in Threads : creating[u] # None => creating[u].store # s
    BY <1>1 DEF MayCreate
  <2>3. SUFFICES ASSUME NEW u \in Threads, creating'[u] # None
                 PROVE  /\ stores[creating'[u].store] = None
                        /\ \A g \in issued : g.store # creating'[u].store
                        /\ \A w \in Threads :
                              creating'[w] # None /\ creating'[w].store = creating'[u].store
                              => w = u
    BY <1>1 DEF CreatesFresh
  <2>4. CASE u = t
    BY <2>1, <2>2, <2>4
  <2>5. CASE u # t
    BY <2>1, <2>2, <2>3, <2>5 DEF IInv, CreatesFresh
  <2> QED
    BY <2>4, <2>5
<1> QED
  BY <1>3, <1>4, <1>5, <1>6 DEF IInv

\* A number that does not run over, and the one that does.
LEMMA NextIdentity ==
    ASSUME NEW n \in 1..IdentityMax
    PROVE  /\ (n + 1) % (IdentityMax + 1) \in 0..IdentityMax
           /\ (n + 1) % (IdentityMax + 1) = n + 1 \/ (n + 1) % (IdentityMax + 1) = 0
<1>1. IdentityMax \in Nat
  BY StoreAssumption
<1>2. CASE n < IdentityMax
  <2>1. PICK a \in Nat, b \in Nat \ {0} : a = n + 1 /\ b = IdentityMax + 1 /\ a < b
    BY <1>1, <1>2
  <2>2. a % b = a
    BY <2>1
  <2> QED
    BY <1>1, <2>1, <2>2
<1>3. CASE n = IdentityMax
  <2>1. PICK b \in Nat \ {0} : b = IdentityMax + 1
    BY <1>1
  <2>2. b % b = 0
    OBVIOUS
  <2> QED
    BY <1>1, <1>3, <2>1, <2>2
<1> QED
  BY <1>1, <1>2, <1>3

\* A new store is empty, and no handle names it.
LEMMA StoreNewWriteStep ==
    ASSUME IInv, NEW t \in Threads, StoreNewWrite(t)
    PROVE  IInv'
<1>1. creating[t] # None /\ creating[t] \in Creations
  BY DEF StoreNewWrite, IInv, TypeOK
<1>11. PICK s \in StoreIds, n \in 1..IdentityMax :
            s = creating[t].store /\ n = creating[t].identity
  BY <1>1 DEF Creations
<1> DEFINE new == [identity |-> n, slots |-> <<>>, live_slots |-> <<>>]
<1>2. /\ s \in StoreIds /\ n \in 1..IdentityMax
      /\ stores[s] = None /\ \A g \in issued : g.store # s
  BY <1>1, <1>11 DEF IInv, CreatesFresh
<1>3. /\ stores' = [stores EXCEPT ![s] = new]
      /\ creating' = [creating EXCEPT ![t] = None]
      /\ el_next_store_identity' = (n + 1) % (IdentityMax + 1)
      /\ UNCHANGED <<cursor, issued, order, fate>>
  BY <1>11 DEF StoreNewWrite
<1>4. new \in Tables /\ new.slots = <<>> /\ new.live_slots = <<>>
  BY <1>2 DEF Tables
<1>5. new # None
  BY <1>4, StoreAssumption
<1> HIDE DEF new
<1>6. TypeOK'
  <2>1. el_next_store_identity' \in 0..IdentityMax
    BY <1>2, <1>3, NextIdentity
  <2>2. stores' \in [StoreIds -> Tables \cup {None}]
    BY <1>3, <1>4 DEF IInv, TypeOK
  <2>3. creating' \in [Threads -> Creations \cup {None}]
    BY <1>3 DEF IInv, TypeOK
  <2> QED
    BY <1>3, <2>1, <2>2, <2>3 DEF IInv, TypeOK
<1>7. stores'[s] = new /\ \A r \in StoreIds : r # s => stores'[r] = stores[r]
  BY <1>2, <1>3 DEF IInv, TypeOK
<1>8. TablesSound'
  <2> SUFFICES ASSUME NEW r \in StoreIds PROVE TableOf(r)'
    BY DEF TablesSound
  <2>1. CASE r # s
    BY <1>3, <1>7, <2>1, OtherStore DEF IInv, TablesSound
  <2>2. CASE r = s
    <3>1. cursor[s] = None /\ order[s] = <<>>
      BY <1>2 DEF IInv, TablesSound, TableOf
    <3>2. Done(s)' = 0 /\ order'[s] = <<>>
      BY <1>3, <3>1 DEF Done
    <3>3. Dense(new, 0) /\ Ordered(new, 0, <<>>)
      BY <1>4 DEF Dense, Ordered
    <3>4. \A i \in DOMAIN new.slots : FALSE
      BY <1>4
    <3>5. Dense(stores'[s], Done(s)') /\ Ordered(stores'[s], Done(s)', order'[s])
      BY <1>7, <3>2, <3>3
    <3>6. TableOf(s)'
      BY <1>2, <1>3, <1>5, <1>7, <3>4, <3>5 DEF TableOf
    <3> QED
      BY <2>2, <3>6
  <2> QED
    BY <2>1, <2>2
<1>9. ItemsPlaced'
  <2>1. ASSUME NEW x \in Items, NEW r \in StoreIds, NEW j
        PROVE  (stores'[r] # None /\ j \in DOMAIN stores'[r].slots /\ Has(stores'[r], j, x))
               <=> (stores[r] # None /\ j \in DOMAIN stores[r].slots /\ Has(stores[r], j, x))
    <3>1. CASE r # s
      BY <1>7, <3>1
    <3>2. CASE r = s
      BY <1>2, <1>4, <1>7, <3>2
    <3> QED
      BY <3>1, <3>2
  <2>2. ASSUME NEW x \in Items
        PROVE  fate'[x] = "stored" <=> \E r \in StoreIds : stores'[r] # None
                                          /\ \E j \in DOMAIN stores'[r].slots : Has(stores'[r], j, x)
    BY <1>3, <2>1 DEF IInv, ItemsPlaced
  <2> QED
    BY <1>3, <2>2 DEF IInv, ItemsPlaced
<1>10. CreatesFresh'
  <2>1. creating'[t] = None /\ \A u \in Threads : u # t => creating'[u] = creating[u]
    BY <1>3 DEF IInv, TypeOK
  <2>2. \A u \in Threads : u # t /\ creating[u] # None => creating[u].store # s
    BY <1>1, <1>11 DEF IInv, CreatesFresh
  <2>3. \A u \in Threads : creating[u] # None => creating[u].store \in StoreIds
    BY DEF IInv, TypeOK, Creations
  <2>4. SUFFICES ASSUME NEW u \in Threads, creating'[u] # None
                 PROVE  /\ stores'[creating'[u].store] = None
                        /\ \A g \in issued' : g.store # creating'[u].store
                        /\ \A w \in Threads :
                              creating'[w] # None /\ creating'[w].store = creating'[u].store
                              => w = u
    BY DEF CreatesFresh
  <2>5. u # t /\ creating'[u] = creating[u]
    BY <2>1, <2>4
  <2>6. stores'[creating[u].store] = stores[creating[u].store]
    BY <1>7, <2>2, <2>3, <2>4, <2>5
  <2> QED
    BY <1>3, <2>1, <2>4, <2>5, <2>6 DEF IInv, CreatesFresh
<1> QED
  BY <1>6, <1>8, <1>9, <1>10 DEF IInv

\* A consuming loop begins at the first element.
LEMMA LoopStartStep ==
    ASSUME IInv, NEW s \in StoreIds, LoopStart(s)
    PROVE  IInv'
<1>1. /\ stores[s] # None /\ cursor[s] = None /\ cursor' = [cursor EXCEPT ![s] = 0]
      /\ UNCHANGED <<el_next_store_identity, stores, creating, issued, order, fate>>
  BY DEF LoopStart, Held
<1>2. TypeOK'
  BY <1>1 DEF IInv, TypeOK
<1>3. cursor'[s] = 0 /\ 0 # None /\ \A r \in StoreIds : r # s => cursor'[r] = cursor[r]
  BY <1>1, StoreAssumption DEF IInv, TypeOK
<1>4. TablesSound'
  <2> SUFFICES ASSUME NEW r \in StoreIds PROVE TableOf(r)'
    BY DEF TablesSound
  <2>1. CASE r # s
    BY <1>1, <1>3, <2>1, OtherStore DEF IInv, TablesSound
  <2>2. CASE r = s
    <3>1. Done(s) = 0 /\ Done(s)' = 0
      BY <1>1, <1>3 DEF Done
    <3>2. /\ Dense(stores[s], Done(s)) /\ Ordered(stores[s], Done(s), order[s])
          /\ \A g \in issued : g.store = s => Aged(stores[s], cursor[s] # None, g)
          /\ \A i \in DOMAIN stores[s].slots : stores[s].slots[i].occupied =>
                Entry(s, stores[s], i, stores[s].slots[i].value) \in issued
      BY <1>1, TableThere DEF IInv
    <3>3. \A g \in issued : g.store = s => Aged(stores[s], TRUE, g)
      BY <1>1, <3>2 DEF Aged
    <3>4. Dense(stores'[s], Done(s)') /\ Ordered(stores'[s], Done(s)', order'[s])
      BY <1>1, <3>1, <3>2
    <3>5. \A g \in issued' : g.store = s => Aged(stores'[s], cursor'[s] # None, g)
      BY <1>1, <1>3, <3>3
    <3>6. TableOf(s)'
      BY <1>1, <3>2, <3>4, <3>5 DEF TableOf
    <3> QED
      BY <2>2, <3>6
  <2> QED
    BY <2>1, <2>2
<1>5. ItemsPlaced'
  BY <1>1 DEF IInv, ItemsPlaced
<1>6. CreatesFresh'
  BY <1>1 DEF IInv, CreatesFresh
<1> QED
  BY <1>2, <1>4, <1>5, <1>6 DEF IInv

\* A creation is about a store that is not there: it outlives what happens to
\* the others.
LEMMA FreshKept ==
    ASSUME TypeOK, CreatesFresh, NEW s \in StoreIds, stores[s] # None,
           NEW new, stores' = [stores EXCEPT ![s] = new], UNCHANGED creating,
           \A g \in issued' : g \in issued \/ g.store = s
    PROVE  CreatesFresh'
<1>1. \A u \in Threads : creating[u] # None =>
            creating[u].store \in StoreIds /\ creating[u].store # s
  BY DEF TypeOK, Creations, CreatesFresh
<1>2. \A r \in StoreIds : r # s => stores'[r] = stores[r]
  BY DEF TypeOK
<1> QED
  BY <1>1, <1>2 DEF CreatesFresh

\* A store and what it had are gone.
LEMMA DropStoreStep ==
    ASSUME IInv, NEW s \in StoreIds, DropStore(s)
    PROVE  IInv'
<1>1. /\ stores[s] # None /\ DropItems({slot.value : slot \in Occupied(s)})
      /\ stores' = [stores EXCEPT ![s] = None] /\ cursor' = [cursor EXCEPT ![s] = None]
      /\ order' = [order EXCEPT ![s] = <<>>]
      /\ UNCHANGED <<el_next_store_identity, creating, issued>>
  BY DEF DropStore
<1>2. /\ ItemsPlaced'
      /\ fate' \in [Items -> {"owned", "stored", "moved", "dropped"}]
  <2> DEFINE new == None
  <2>1. stores' = [stores EXCEPT ![s] = new] /\ new = None
    BY <1>1
  <2> HIDE DEF new
  <2> QED
    BY <1>1, <2>1, AllDropped DEF IInv
<1>3. TypeOK'
  BY <1>1, <1>2 DEF IInv, TypeOK
<1>4. TablesSound'
  <2> SUFFICES ASSUME NEW r \in StoreIds PROVE TableOf(r)'
    BY DEF TablesSound
  <2>1. CASE r # s
    <3>1. stores'[r] = stores[r] /\ cursor'[r] = cursor[r] /\ order'[r] = order[r]
      BY <1>1, <2>1 DEF IInv, TypeOK
    <3> QED
      BY <1>1, <3>1, OtherStore DEF IInv, TablesSound
  <2>2. CASE r = s
    BY <1>1, <2>2 DEF IInv, TypeOK, TableOf
  <2> QED
    BY <2>1, <2>2
<1>5. CreatesFresh'
  <2> DEFINE new == None
  <2>1. stores' = [stores EXCEPT ![s] = new]
    BY <1>1
  <2> HIDE DEF new
  <2> QED
    BY <1>1, <2>1, FreshKept DEF IInv
<1> QED
  BY <1>2, <1>3, <1>4, <1>5 DEF IInv

\* A step of one store: the rest of the invariant's tables follows from the
\* new table of that store.
LEMMA OneStore ==
    ASSUME TypeOK, TablesSound, NEW s \in StoreIds, stores[s] # None,
           NEW new \in Tables, stores' = [stores EXCEPT ![s] = new],
           \A r \in StoreIds : r # s => cursor'[r] = cursor[r] /\ order'[r] = order[r],
           issued \subseteq issued', \A g \in issued' : g \in issued \/ g.store = s,
           Dense(new, Done(s)'), Ordered(new, Done(s)', order'[s]),
           \A g \in issued' : g.store = s => Aged(new, cursor'[s] # None, g),
           \A i \in DOMAIN new.slots : new.slots[i].occupied =>
              Entry(s, new, i, new.slots[i].value) \in issued'
    PROVE  TablesSound' /\ stores' \in [StoreIds -> Tables \cup {None}]
<1>1. new # None /\ stores'[s] = new /\ \A r \in StoreIds : r # s => stores'[r] = stores[r]
  BY StoreAssumption DEF TypeOK
<1>2. ASSUME NEW r \in StoreIds PROVE TableOf(r)'
  <2>1. CASE r # s
    <3>1. \A g \in issued' : g \in issued \/ g.store # r
      BY <2>1
    <3>2. TableOf(r) /\ stores'[r] = stores[r] /\ cursor'[r] = cursor[r] /\ order'[r] = order[r]
      BY <1>1, <2>1 DEF TablesSound
    <3> QED
      BY <3>1, <3>2, OtherStore
  <2>2. CASE r = s
    <3>1. Dense(stores'[s], Done(s)') /\ Ordered(stores'[s], Done(s)', order'[s])
      BY <1>1
    <3>2. TableOf(s)'
      BY <1>1, <3>1 DEF TableOf
    <3> QED
      BY <2>2, <3>2
  <2> QED
    BY <2>1, <2>2
<1>3. stores' \in [StoreIds -> Tables \cup {None}]
  BY DEF TypeOK
<1> QED
  BY <1>2, <1>3 DEF TablesSound

\* clear drops the values and ages every slot that had one.
LEMMA StoreClearStep ==
    ASSUME IInv, NEW s \in StoreIds, StoreClear(s)
    PROVE  IInv'
<1> DEFINE st == stores[s]
<1>1. /\ stores[s] # None /\ cursor[s] = None
      /\ DropItems({slot.value : slot \in Occupied(s)})
      /\ stores' = [stores EXCEPT ![s] = Cleared(stores[s])]
      /\ order' = [order EXCEPT ![s] = <<>>]
      /\ UNCHANGED <<el_next_store_identity, cursor, creating, issued>>
  BY DEF StoreClear, Held
<1>2. PICK new \in Tables : new = Cleared(stores[s])
  BY <1>1, TableThere, ClearedTable DEF IInv
<1>3. /\ stores[s] \in Tables
      /\ \A g \in issued : g.store = s => Aged(stores[s], FALSE, g)
  BY <1>1, TableThere DEF IInv
<1>4. /\ new.identity = stores[s].identity
      /\ Len(new.slots) = Len(stores[s].slots)
      /\ \A j \in 1..Len(stores[s].slots) :
            /\ ~new.slots[j].occupied
            /\ stores[s].slots[j].generation <= new.slots[j].generation
            /\ new.slots[j].generation = stores[s].slots[j].generation =>
                  \/ new.slots[j] = stores[s].slots[j]
                  \/ stores[s].slots[j].generation = GenerationMax
      /\ Len(new.live_slots) = 0
      /\ Dense(new, 0)
  BY <1>2, <1>3, ClearedTable
<1>5. stores' = [stores EXCEPT ![s] = new] /\ DOMAIN new.slots = 1..Len(stores[s].slots)
  BY <1>1, <1>2, <1>4, TableFields
<1>6. ItemsPlaced' /\ fate' \in [Items -> {"owned", "stored", "moved", "dropped"}]
  BY <1>1, <1>4, <1>5, AllDropped DEF IInv
<1>7. ASSUME NEW g \in issued, g.store = s PROVE Aged(new, FALSE, g)
  <2>1. Aged(stores[s], FALSE, g) /\ g.handle \in Handles
    BY <1>3, <1>7, IssuedFields DEF IInv
  <2>2. Len(stores[s].slots) \in Nat
    BY <1>3, TableFields
  <2>3. g.handle.slot + 1 \in 1..Len(stores[s].slots)
    BY <2>1, <2>2 DEF Aged, Handles
  <2>4. Len(stores[s].slots) <= Len(new.slots)
    BY <1>4, <2>2
  <2> QED
    BY <1>3, <1>4, <2>1, <2>3, <2>4, AgedKept
<1>8. Done(s)' = 0 /\ order'[s] = <<>> /\ Len(<<>>) = 0
      /\ \A r \in StoreIds : r # s => cursor'[r] = cursor[r] /\ order'[r] = order[r]
  BY <1>1 DEF Done, IInv, TypeOK
<1>9. Dense(new, Done(s)')
  BY <1>4, <1>8
<1>10. Ordered(new, Done(s)', order'[s])
  BY <1>4, <1>8 DEF Ordered
<1>11. TablesSound' /\ stores' \in [StoreIds -> Tables \cup {None}]
  BY <1>1, <1>4, <1>5, <1>7, <1>8, <1>9, <1>10, OneStore DEF IInv
<1>12. TypeOK'
  BY <1>1, <1>6, <1>11 DEF IInv, TypeOK
<1>13. CreatesFresh'
  BY <1>1, FreshKept DEF IInv
<1> QED
  BY <1>6, <1>11, <1>12, <1>13 DEF IInv

\* The loop takes the first of the elements it has before it.
LEMMA LoopNextStep ==
    ASSUME IInv, NEW s \in StoreIds, LoopNext(s)
    PROVE  IInv'
<1>1. /\ stores[s] # None /\ cursor[s] # None /\ cursor[s] < Len(stores[s].live_slots)
      /\ cursor' = [cursor EXCEPT ![s] = @ + 1]
      /\ order' = [order EXCEPT ![s] = Tail(@)]
      /\ UNCHANGED <<el_next_store_identity, creating, issued>>
  BY DEF LoopNext
<1>2. PICK done \in Nat : done = cursor[s]
  BY <1>1 DEF IInv, TypeOK
<1>3. /\ stores[s] \in Tables /\ Dense(stores[s], done) /\ Ordered(stores[s], done, order[s])
      /\ \A g \in issued : g.store = s => Aged(stores[s], TRUE, g)
      /\ \A i \in DOMAIN stores[s].slots : stores[s].slots[i].occupied =>
            Entry(s, stores[s], i, stores[s].slots[i].value) \in issued
  BY <1>1, <1>2, TableThere DEF IInv, Done
<1>4. PICK i \in 1..Len(stores[s].slots), new \in Tables :
          /\ i = stores[s].live_slots[done + 1] + 1 /\ new = Taken(stores[s], i)
          /\ stores[s].slots[i].occupied
          /\ new.identity = stores[s].identity
          /\ Len(new.slots) = Len(stores[s].slots)
          /\ \A j \in 1..Len(stores[s].slots) :
                /\ new.slots[j].value = stores[s].slots[j].value
                /\ new.slots[j].generation = stores[s].slots[j].generation
                /\ j # i => new.slots[j].occupied = stores[s].slots[j].occupied
          /\ ~new.slots[i].occupied
          /\ new.live_slots = stores[s].live_slots
          /\ Dense(new, done + 1)
  <2> DEFINE j0 == stores[s].live_slots[done + 1] + 1
             new0 == Taken(stores[s], j0)
  <2>1. stores[s] \in Tables /\ Dense(stores[s], done) /\ done < Len(stores[s].live_slots)
    BY <1>1, <1>2, <1>3
  <2>2. /\ j0 \in 1..Len(stores[s].slots) /\ new0 \in Tables
        /\ stores[s].slots[j0].occupied
        /\ new0.identity = stores[s].identity
        /\ Len(new0.slots) = Len(stores[s].slots)
        /\ \A j \in 1..Len(stores[s].slots) :
              /\ new0.slots[j].value = stores[s].slots[j].value
              /\ new0.slots[j].generation = stores[s].slots[j].generation
              /\ j # j0 => new0.slots[j].occupied = stores[s].slots[j].occupied
        /\ ~new0.slots[j0].occupied
        /\ new0.live_slots = stores[s].live_slots
        /\ Dense(new0, done + 1)
    BY <2>1, TakenTable, ZenonT(60)
  <2>3. j0 = stores[s].live_slots[done + 1] + 1 /\ new0 = Taken(stores[s], j0)
    OBVIOUS
  <2> HIDE DEF j0, new0
  <2> QED
    BY <2>2, <2>3
<1>5. /\ stores' = [stores EXCEPT ![s] = new]
      /\ fate' = [fate EXCEPT ![stores[s].slots[i].value] = "moved"]
  BY <1>2, <1>4 DEF LoopNext
<1>6. /\ DOMAIN stores[s].slots = 1..Len(stores[s].slots)
      /\ DOMAIN new.slots = 1..Len(stores[s].slots)
      /\ Len(stores[s].slots) \in Nat /\ Len(stores[s].live_slots) \in Nat
      /\ \A j \in 1..Len(stores[s].slots) : stores[s].slots[j] \in Slots
  BY <1>3, <1>4, TableFields
<1>7. ItemsPlaced'
  BY <1>1, <1>4, <1>5, <1>6, MovedOut DEF IInv
<1>8. ASSUME NEW g \in issued, g.store = s PROVE Aged(new, TRUE, g)
  <2>1. Aged(stores[s], TRUE, g) /\ g.handle \in Handles
    BY <1>3, <1>8, IssuedFields DEF IInv
  <2>2. PICK j \in 1..Len(stores[s].slots) : j = g.handle.slot + 1
    BY <1>6, <2>1 DEF Aged, Handles
  <2>3. stores[s].slots[j].generation \in 1..GenerationMax
    BY <1>6, SlotFields
  <2>4. stores[s].slots[j].generation <= new.slots[j].generation
    <3>1. new.slots[j].generation = stores[s].slots[j].generation
      BY <1>4, ZenonT(60)
    <3> QED
      BY <2>3, <3>1, StoreAssumption
  <2>5. \/ new.slots[j].value = stores[s].slots[j].value
           /\ new.slots[j].occupied = stores[s].slots[j].occupied
        \/ ~new.slots[j].occupied
    BY <1>4
  <2>6. Len(stores[s].slots) <= Len(new.slots)
    <3>1. Len(new.slots) = Len(stores[s].slots)
      BY <1>4, ZenonT(60)
    <3> QED
      BY <1>6, <3>1
  <2> QED
    BY <1>3, <1>4, <2>1, <2>2, <2>4, <2>5, <2>6, AgedKept
<1>9. cursor'[s] = done + 1 /\ done + 1 \in Nat /\ cursor'[s] # None /\ Done(s)' = done + 1
  BY <1>1, <1>2, StoreAssumption DEF Done, IInv, TypeOK
<1>10. order'[s] = Tail(order[s])
       /\ \A r \in StoreIds : r # s => cursor'[r] = cursor[r] /\ order'[r] = order[r]
  BY <1>1 DEF IInv, TypeOK
<1>11. /\ order[s] \in Seq(Items) /\ Len(order[s]) = Len(stores[s].live_slots) - done
       /\ \A k \in 1..Len(order[s]) :
             order[s][k] = stores[s].slots[stores[s].live_slots[done + k] + 1].value
  BY <1>3 DEF Ordered, IInv, TypeOK
<1>12. order[s] # <<>>
  BY <1>1, <1>2, <1>6, <1>11, EmptySeq
<1>13. /\ Tail(order[s]) \in Seq(Items) /\ Len(Tail(order[s])) = Len(order[s]) - 1
       /\ \A k \in 1..Len(Tail(order[s])) : Tail(order[s])[k] = order[s][k + 1]
  BY <1>11, <1>12, HeadTailProperties
<1>14. Ordered(new, done + 1, order'[s])
  <2>1. Len(order'[s]) = Len(new.live_slots) - (done + 1)
    <3>1. PICK L \in Nat : L = Len(stores[s].live_slots)
      BY <1>6
    <3>2. Len(new.live_slots) = L
      BY <1>4, <3>1, ZenonT(60)
    <3>3. Len(order[s]) = L - done /\ Len(order'[s]) = Len(order[s]) - 1
      BY <1>10, <1>11, <1>13, <3>1
    <3> QED
      BY <3>2, <3>3
  <2>2. ASSUME NEW k \in 1..Len(order'[s])
        PROVE  order'[s][k] = new.slots[new.live_slots[done + 1 + k] + 1].value
    <3>1. k + 1 \in 1..Len(order[s]) /\ done + 1 + k = done + (k + 1)
          /\ done + (k + 1) \in 1..Len(stores[s].live_slots)
      <4>1. PICK L \in Nat : L = Len(stores[s].live_slots)
        BY <1>6
      <4>2. Len(order[s]) = L - done /\ Len(order'[s]) = L - done - 1 /\ done < L
        BY <1>1, <1>2, <1>10, <1>11, <1>13, <4>1
      <4> QED
        BY <4>1, <4>2
    <3>2. order'[s][k] = stores[s].slots[stores[s].live_slots[done + (k + 1)] + 1].value
      BY <1>10, <1>11, <1>13, <3>1
    <3>3. stores[s].live_slots[done + (k + 1)] + 1 \in 1..Len(stores[s].slots)
      BY <1>3, <1>6, <3>1 DEF Dense
    <3> QED
      BY <1>4, <3>1, <3>2, <3>3, ZenonT(60)
  <2> QED
    BY <2>1, <2>2 DEF Ordered
<1>15. ASSUME NEW j \in DOMAIN new.slots, new.slots[j].occupied
       PROVE  Entry(s, new, j, new.slots[j].value) \in issued
  <2>1. j \in DOMAIN stores[s].slots /\ j # i /\ stores[s].slots[j].occupied
    BY <1>4, <1>6, <1>15
  <2>2. Entry(s, stores[s], j, stores[s].slots[j].value) \in issued
    BY <1>3, <2>1
  <2>3. Entry(s, new, j, new.slots[j].value) = Entry(s, stores[s], j, stores[s].slots[j].value)
    BY <1>4, <1>6, <2>1 DEF Entry
  <2> QED
    BY <2>2, <2>3
<1>16. Dense(new, Done(s)') /\ Ordered(new, Done(s)', order'[s])
  BY <1>4, <1>9, <1>14
<1>17. TablesSound' /\ stores' \in [StoreIds -> Tables \cup {None}]
  BY <1>1, <1>5, <1>8, <1>9, <1>10, <1>15, <1>16, OneStore DEF IInv
<1>18. TypeOK'
  <2>1. fate' \in [Items -> {"owned", "stored", "moved", "dropped"}]
    BY <1>5 DEF IInv, TypeOK
  <2>2. order' \in [StoreIds -> Seq(Items)]
    BY <1>1, <1>13 DEF IInv, TypeOK
  <2>3. cursor' \in [StoreIds -> Nat \cup {None}]
    BY <1>1, <1>2 DEF IInv, TypeOK
  <2> QED
    BY <1>1, <1>17, <2>1, <2>2, <2>3 DEF IInv, TypeOK
<1>19. CreatesFresh'
  BY <1>1, <1>5, FreshKept DEF IInv
<1> QED
  BY <1>7, <1>17, <1>18, <1>19 DEF IInv

\* remove finds the one place of the value in the order.
LEMMA StoreRemoveStep ==
    ASSUME IInv, NEW s \in StoreIds, NEW h \in Handles, StoreRemove(s, h)
    PROVE  IInv'
<1>1. /\ stores[s] # None /\ cursor[s] = None /\ Lookup(s, h) \notin Traps
      /\ stores' = [stores EXCEPT ![s] = Removed(stores[s], h.slot + 1)]
      /\ fate' = [fate EXCEPT ![Lookup(s, h)] = "moved"]
      /\ UNCHANGED <<el_next_store_identity, cursor, creating, issued>>
  BY DEF StoreRemove, Held
<1>2. /\ stores[s] \in Tables /\ Dense(stores[s], 0) /\ Ordered(stores[s], 0, order[s])
      /\ \A g \in issued : g.store = s => Aged(stores[s], FALSE, g)
      /\ \A i \in DOMAIN stores[s].slots : stores[s].slots[i].occupied =>
            Entry(s, stores[s], i, stores[s].slots[i].value) \in issued
  BY <1>1, TableThere DEF IInv, Done
<1>3. /\ DOMAIN stores[s].slots = 1..Len(stores[s].slots)
      /\ Len(stores[s].slots) \in Nat /\ Len(stores[s].live_slots) \in Nat
      /\ \A j \in 1..Len(stores[s].slots) : stores[s].slots[j] \in Slots
  BY <1>2, TableFields
<1>4. PICK i \in 1..Len(stores[s].slots) :
          /\ i = h.slot + 1 /\ stores[s].slots[i].occupied
          /\ Lookup(s, h) = stores[s].slots[i].value
  <2>1. /\ h.slot < Len(stores[s].slots) /\ stores[s].slots[h.slot + 1].occupied
        /\ Lookup(s, h) = stores[s].slots[h.slot + 1].value
    BY <1>1, <1>2, LookupResult DEF Traps
  <2>2. h.slot + 1 \in 1..Len(stores[s].slots)
    BY <1>3, <2>1 DEF Handles
  <2> QED
    BY <2>1, <2>2
<1> DEFINE v == stores[s].slots[i].value
<1>5. PICK d \in Nat, new \in Tables :
          /\ new = Removed(stores[s], i) /\ d = stores[s].slots[i].dense_index
          /\ new.identity = stores[s].identity
          /\ Len(new.slots) = Len(stores[s].slots)
          /\ \A j \in 1..Len(stores[s].slots) : j # i =>
                /\ new.slots[j].value = stores[s].slots[j].value
                /\ new.slots[j].occupied = stores[s].slots[j].occupied
                /\ new.slots[j].generation = stores[s].slots[j].generation
          /\ ~new.slots[i].occupied
          /\ stores[s].slots[i].generation <= new.slots[i].generation
          /\ new.slots[i].generation = stores[s].slots[i].generation =>
                stores[s].slots[i].generation = GenerationMax
          /\ d < Len(stores[s].live_slots) /\ stores[s].live_slots[d + 1] = i - 1
          /\ Len(new.live_slots) = Len(stores[s].live_slots) - 1
          /\ \A k \in 1..(Len(stores[s].live_slots) - 1) :
                new.live_slots[k] = stores[s].live_slots[IF k < d + 1 THEN k ELSE k + 1]
          /\ Dense(new, 0)
  <2> DEFINE d0 == stores[s].slots[i].dense_index
             new0 == Removed(stores[s], i)
  <2>1. /\ new0 \in Tables /\ new0.identity = stores[s].identity
        /\ Len(new0.slots) = Len(stores[s].slots)
        /\ \A j \in 1..Len(stores[s].slots) : j # i =>
              /\ new0.slots[j].value = stores[s].slots[j].value
              /\ new0.slots[j].occupied = stores[s].slots[j].occupied
              /\ new0.slots[j].generation = stores[s].slots[j].generation
        /\ ~new0.slots[i].occupied
        /\ stores[s].slots[i].generation <= new0.slots[i].generation
        /\ new0.slots[i].generation = stores[s].slots[i].generation =>
              stores[s].slots[i].generation = GenerationMax
        /\ d0 \in 0..(Len(stores[s].live_slots) - 1)
        /\ stores[s].live_slots[d0 + 1] = i - 1
        /\ Len(new0.live_slots) = Len(stores[s].live_slots) - 1
        /\ \A k \in 1..(Len(stores[s].live_slots) - 1) :
              new0.live_slots[k] = stores[s].live_slots[IF k < d0 + 1 THEN k ELSE k + 1]
        /\ Dense(new0, 0)
    BY <1>2, <1>4, RemovedTable, ZenonT(60)
  <2>2. d0 = stores[s].slots[i].dense_index /\ new0 = Removed(stores[s], i)
    OBVIOUS
  <2> HIDE DEF d0, new0
  <2>3. d0 \in Nat /\ d0 < Len(stores[s].live_slots)
    BY <1>3, <2>1
  <2> QED
    BY <2>1, <2>2, <2>3
<1>6. /\ stores' = [stores EXCEPT ![s] = new]
      /\ fate' = [fate EXCEPT ![v] = "moved"]
      /\ DOMAIN new.slots = 1..Len(stores[s].slots)
  BY <1>1, <1>4, <1>5, TableFields
<1>7. ItemsPlaced'
  <2>1. \A j \in 1..Len(stores[s].slots) : j # i =>
            /\ new.slots[j].value = stores[s].slots[j].value
            /\ new.slots[j].occupied = stores[s].slots[j].occupied
    BY <1>5
  <2>2. Len(new.slots) = Len(stores[s].slots) /\ ~new.slots[i].occupied
    BY <1>5
  <2>3. i \in DOMAIN stores[s].slots /\ stores[s].slots[i].occupied
    BY <1>3, <1>4
  <2>4. fate' = [fate EXCEPT ![stores[s].slots[i].value] = "moved"] /\ UNCHANGED issued
    BY <1>1, <1>6
  <2> HIDE DEF v
  <2> QED
    BY <1>1, <1>6, <2>1, <2>2, <2>3, <2>4, MovedOut, ZenonT(60) DEF IInv
<1>8. ASSUME NEW g \in issued, g.store = s PROVE Aged(new, FALSE, g)
  <2>1. Aged(stores[s], FALSE, g) /\ g.handle \in Handles
    BY <1>2, <1>8, IssuedFields DEF IInv
  <2>2. PICK j \in 1..Len(stores[s].slots) : j = g.handle.slot + 1
    BY <1>3, <2>1, SMTT(30) DEF Aged, Handles
  <2>3. stores[s].slots[j].generation \in 1..GenerationMax
    BY <1>3, SlotFields
  <2>4. stores[s].slots[j].generation <= new.slots[j].generation
    <3>1. stores[s].slots[j].generation <= stores[s].slots[j].generation
      BY <2>3, StoreAssumption
    <3> QED
      BY <1>5, <3>1
  <2>5. new.slots[j].generation = stores[s].slots[j].generation =>
          \/ new.slots[j].value = stores[s].slots[j].value
             /\ new.slots[j].occupied = stores[s].slots[j].occupied
          \/ ~new.slots[j].occupied /\ new.slots[j].generation = GenerationMax
    BY <1>5
  <2>6. Len(stores[s].slots) <= Len(new.slots)
    <3>1. Len(new.slots) = Len(stores[s].slots)
      BY <1>5, ZenonT(60)
    <3> QED
      BY <1>3, <3>1
  <2> QED
    BY <1>2, <1>5, <2>1, <2>2, <2>4, <2>5, <2>6, AgedKept
<1>9. Done(s)' = 0 /\ cursor'[s] = None
  BY <1>1 DEF Done
<1>10. /\ order[s] \in Seq(Items) /\ Len(order[s]) = Len(stores[s].live_slots)
       /\ DOMAIN order[s] = 1..Len(stores[s].live_slots)
       /\ \A k \in 1..Len(stores[s].live_slots) :
             order[s][k] = stores[s].slots[stores[s].live_slots[k] + 1].value
  <2>1. order[s] \in Seq(Items)
    BY DEF IInv, TypeOK
  <2>2. Len(order[s]) = Len(stores[s].live_slots)
    BY <1>2, <1>3 DEF Ordered
  <2> QED
    BY <1>2, <2>1, <2>2, LenProperties DEF Ordered
<1>11. order' = [order EXCEPT ![s] = RemoveAt(order[s], d + 1)]
  <2>1. PICK k \in 1..Len(stores[s].live_slots) :
            /\ order[s][k] = v
            /\ order' = [order EXCEPT ![s] = RemoveAt(order[s], k)]
    BY <1>4, <1>10 DEF StoreRemove
  <2>2. PICK j \in 1..Len(stores[s].slots) :
            /\ j = stores[s].live_slots[k] + 1
            /\ stores[s].slots[j].occupied /\ stores[s].slots[j].dense_index = k - 1
    <3>1. 0 < k
      BY <1>3
    <3> QED
      BY <1>2, <1>3, <3>1 DEF Dense
  <2>3. Has(stores[s], j, v)
    BY <1>1, <1>3, <1>10, <2>1, <2>2 DEF Has
  <2>4. j = i
    <3>1. TypeOK /\ TablesSound /\ ItemsPlaced /\ stores[s] # None
      BY <1>1 DEF IInv
    <3>2. i \in DOMAIN stores[s].slots /\ stores[s].slots[i].occupied
      BY <1>3, <1>4
    <3>3. j \in DOMAIN stores[s].slots
      BY <1>3
    <3>4. \A r \in StoreIds : stores[r] # None =>
              \A m \in DOMAIN stores[r].slots : Has(stores[r], m, v) => r = s /\ m = i
      BY <3>1, <3>2, OccupiedOnce
    <3> HIDE DEF v
    <3> QED
      BY <2>3, <3>1, <3>3, <3>4
  <2>5. k = d + 1
    <3>1. d = stores[s].slots[i].dense_index
      BY <1>5, ZenonT(60)
    <3>2. d = k - 1
      BY <2>2, <2>4, <3>1
    <3> QED
      BY <3>2
  <2> QED
    BY <2>1, <2>5
<1>12. d + 1 \in 1..Len(order[s])
  <2>1. d < Len(stores[s].live_slots)
    BY <1>5, ZenonT(60)
  <2>2. Len(order[s]) = Len(stores[s].live_slots)
    BY <1>10
  <2> QED
    BY <1>3, <2>1, <2>2
<1>13. /\ RemoveAt(order[s], d + 1) \in Seq(Items)
       /\ Len(RemoveAt(order[s], d + 1)) = Len(order[s]) - 1
       /\ \A k \in 1..(Len(order[s]) - 1) :
             RemoveAt(order[s], d + 1)[k] = order[s][IF k < d + 1 THEN k ELSE k + 1]
  BY <1>10, <1>12, RemovedAt
<1>14. order'[s] = RemoveAt(order[s], d + 1)
       /\ \A r \in StoreIds : r # s => cursor'[r] = cursor[r] /\ order'[r] = order[r]
  BY <1>1, <1>11 DEF IInv, TypeOK
<1>15. Ordered(new, 0, order'[s])
  <2>1. PICK n \in Nat : n = Len(stores[s].live_slots)
    BY <1>3
  <2>2. Len(order'[s]) = Len(new.live_slots) - 0 /\ Len(order'[s]) = n - 1
    <3>1. Len(new.live_slots) = Len(stores[s].live_slots) - 1
      BY <1>5, ZenonT(60)
    <3>2. Len(order'[s]) = Len(order[s]) - 1
      BY <1>13, <1>14
    <3>3. Len(order[s]) = Len(stores[s].live_slots)
      BY <1>10
    <3> QED
      BY <2>1, <3>1, <3>2, <3>3
  <2>3. ASSUME NEW k \in 1..(n - 1)
        PROVE  order'[s][k] = new.slots[new.live_slots[0 + k] + 1].value
    <3>1. PICK q \in 1..n : q = IF k < d + 1 THEN k ELSE k + 1
      BY <2>1
    <3>2. order'[s][k] = order[s][q] /\ new.live_slots[k] = stores[s].live_slots[q]
      BY <1>5, <1>10, <1>13, <1>14, <2>1, <3>1
    <3>3. PICK j \in 1..Len(stores[s].slots) :
              j = stores[s].live_slots[q] + 1 /\ stores[s].slots[j].dense_index = q - 1
      BY <1>2, <1>3, <2>1 DEF Dense
    <3>4. q # d + 1 /\ q - 1 # d
      BY <3>1
    <3>5. j # i
      BY <1>5, <3>3, <3>4
    <3>6. order[s][q] = stores[s].slots[j].value
      BY <1>10, <2>1, <3>3
    <3>7. new.slots[j].value = stores[s].slots[j].value
      BY <1>5, <3>5
    <3>8. 0 + k = k
      OBVIOUS
    <3> QED
      BY <3>2, <3>3, <3>6, <3>7, <3>8
  <2> QED
    BY <2>2, <2>3 DEF Ordered
<1>16. ASSUME NEW j \in DOMAIN new.slots, new.slots[j].occupied
       PROVE  Entry(s, new, j, new.slots[j].value) \in issued
  <2>1. j \in DOMAIN stores[s].slots /\ j # i /\ stores[s].slots[j].occupied
    BY <1>3, <1>5, <1>6, <1>16
  <2>2. Entry(s, stores[s], j, stores[s].slots[j].value) \in issued
    BY <1>2, <2>1
  <2>3. Entry(s, new, j, new.slots[j].value) = Entry(s, stores[s], j, stores[s].slots[j].value)
    BY <1>3, <1>5, <2>1 DEF Entry
  <2> QED
    BY <2>2, <2>3
<1>17. Dense(new, Done(s)') /\ Ordered(new, Done(s)', order'[s])
  BY <1>5, <1>9, <1>15
<1>18. TablesSound' /\ stores' \in [StoreIds -> Tables \cup {None}]
  BY <1>1, <1>6, <1>8, <1>9, <1>14, <1>16, <1>17, OneStore DEF IInv
<1>19. TypeOK'
  <2>1. fate' \in [Items -> {"owned", "stored", "moved", "dropped"}]
    BY <1>6 DEF IInv, TypeOK
  <2>2. order' \in [StoreIds -> Seq(Items)]
    BY <1>11, <1>13 DEF IInv, TypeOK
  <2> QED
    BY <1>1, <1>18, <2>1, <2>2 DEF IInv, TypeOK
<1>20. CreatesFresh'
  BY <1>1, <1>6, FreshKept DEF IInv
<1> QED
  BY <1>7, <1>18, <1>19, <1>20 DEF IInv

\* insert takes a slot whose generation no handle has.
LEMMA StoreInsertStep ==
    ASSUME IInv, NEW s \in StoreIds, NEW x \in Items, StoreInsert(s, x)
    PROVE  IInv'
<1> DEFINE slots0 == Grown(stores[s].slots)
           i0 == FirstReusable(slots0)
           new0 == Inserted(stores[s], slots0, i0, x)
<1>1. /\ stores[s] # None /\ cursor[s] = None /\ fate[x] = "owned"
      /\ stores' = [stores EXCEPT ![s] = new0]
      /\ issued' = issued \cup {Entry(s, new0, i0, x)}
      /\ order' = [order EXCEPT ![s] = Append(@, x)]
      /\ fate' = [fate EXCEPT ![x] = "stored"]
      /\ UNCHANGED <<el_next_store_identity, cursor, creating>>
  BY DEF StoreInsert, Held
<1>2. /\ stores[s] \in Tables /\ Dense(stores[s], 0) /\ Ordered(stores[s], 0, order[s])
      /\ \A g \in issued : g.store = s => Aged(stores[s], FALSE, g)
      /\ \A i \in DOMAIN stores[s].slots : stores[s].slots[i].occupied =>
            Entry(s, stores[s], i, stores[s].slots[i].value) \in issued
  BY <1>1, TableThere DEF IInv, Done
<1>3. /\ stores[s].slots \in Seq(Slots)
      /\ DOMAIN stores[s].slots = 1..Len(stores[s].slots)
      /\ Len(stores[s].slots) \in Nat /\ Len(stores[s].live_slots) \in Nat
      /\ \A j \in 1..Len(stores[s].slots) : stores[s].slots[j] \in Slots
  BY <1>2, TableFields
<1>4. /\ slots0 \in Seq(Slots) /\ Len(stores[s].slots) <= Len(slots0)
      /\ \A j \in 1..Len(stores[s].slots) : slots0[j] = stores[s].slots[j]
      /\ \A j \in 1..Len(slots0) : j \notin 1..Len(stores[s].slots) => ~slots0[j].occupied
      /\ \E j \in DOMAIN slots0 : Reusable(slots0[j])
  BY <1>3, GrownSlots
<1>5. i0 \in 1..Len(slots0) /\ Reusable(slots0[i0])
  <2> HIDE DEF slots0
  <2>1. DOMAIN slots0 = 1..Len(slots0)
    BY <1>4, LenProperties
  <2> QED
    BY <1>4, <2>1, ReusedSlot
<1>6. ~slots0[i0].occupied /\ slots0[i0].generation # GenerationMax
  BY <1>5 DEF Reusable
<1>7. /\ new0 \in Tables /\ new0.identity = stores[s].identity
      /\ Len(new0.slots) = Len(slots0)
      /\ \A j \in 1..Len(slots0) : j # i0 => new0.slots[j] = slots0[j]
      /\ new0.slots[i0].value = x /\ new0.slots[i0].occupied
      /\ new0.slots[i0].generation = slots0[i0].generation
      /\ Len(new0.live_slots) = Len(stores[s].live_slots) + 1
      /\ \A k \in 1..Len(stores[s].live_slots) : new0.live_slots[k] = stores[s].live_slots[k]
      /\ new0.live_slots[Len(stores[s].live_slots) + 1] = i0 - 1
      /\ Dense(new0, 0)
  <2> HIDE DEF slots0, i0
  <2> QED
    BY <1>2, <1>4, <1>5, <1>6, InsertedTable
<1>8. PICK slots \in Seq(Slots), i \in 1..Len(slots0), new \in Tables :
          slots = slots0 /\ i = i0 /\ new = new0 /\ i \in 1..Len(slots)
  <2> HIDE DEF slots0, i0, new0
  <2> QED
    BY <1>4, <1>5, <1>7
<1> HIDE DEF slots0, i0, new0
<1>9. /\ Len(stores[s].slots) <= Len(slots) /\ Len(slots) \in Nat
      /\ \A j \in 1..Len(stores[s].slots) : slots[j] = stores[s].slots[j]
      /\ \A j \in 1..Len(slots) : j \notin 1..Len(stores[s].slots) => ~slots[j].occupied
      /\ ~slots[i].occupied /\ slots[i].generation # GenerationMax
      /\ slots[i] \in Slots
  BY <1>4, <1>6, <1>8, LenProperties, ElementOfSeq
<1>10. /\ new.identity = stores[s].identity
       /\ Len(new.slots) = Len(slots) /\ DOMAIN new.slots = 1..Len(slots)
       /\ \A j \in 1..Len(slots) : j # i => new.slots[j] = slots[j]
       /\ new.slots[i].value = x /\ new.slots[i].occupied
       /\ new.slots[i].generation = slots[i].generation
       /\ Len(new.live_slots) = Len(stores[s].live_slots) + 1
       /\ \A k \in 1..Len(stores[s].live_slots) : new.live_slots[k] = stores[s].live_slots[k]
       /\ new.live_slots[Len(stores[s].live_slots) + 1] = i - 1
       /\ Dense(new, 0)
  BY <1>7, <1>8, TableFields
<1> DEFINE e == Entry(s, new, i, x)
<1>11. /\ stores' = [stores EXCEPT ![s] = new]
       /\ issued' = issued \cup {e}
  BY <1>1, <1>8
<1>12. /\ e.item = x /\ e.store = s /\ e.handle.store = new.identity
       /\ e.handle.slot = i - 1 /\ e.handle.generation = new.slots[i].generation
  BY DEF Entry
<1>13. e \in [handle : Handles, store : StoreIds, item : Items]
  <2>1. slots[i].generation \in 1..GenerationMax /\ new.identity \in 1..IdentityMax /\ i - 1 \in Nat
    BY <1>9, SlotFields, TableFields
  <2> QED
    BY <1>10, <2>1 DEF Entry, Handles
<1> HIDE DEF e
<1>14. \A g \in issued : g.item # x
  BY <1>1 DEF IInv, ItemsPlaced
<1>15. ASSUME NEW g \in issued', g.store = s PROVE Aged(new, FALSE, g)
  <2>1. CASE g \in issued
    <3>1. Aged(stores[s], FALSE, g) /\ g.handle \in Handles
      BY <1>2, <1>15, <2>1, IssuedFields DEF IInv
    <3>2. PICK j \in 1..Len(stores[s].slots) : j = g.handle.slot + 1
      BY <1>3, <3>1 DEF Aged, Handles
    <3>3. stores[s].slots[j].generation \in 1..GenerationMax
      BY <1>3, SlotFields
    <3>4. j \in 1..Len(slots) /\ slots[j] = stores[s].slots[j]
      BY <1>3, <1>9
    <3>5. new.slots[j].generation = stores[s].slots[j].generation
      BY <1>10, <3>4
    <3>6. stores[s].slots[j].generation <= new.slots[j].generation
      BY <3>3, <3>5, StoreAssumption
    <3>7. \/ new.slots[j].value = stores[s].slots[j].value
             /\ new.slots[j].occupied = stores[s].slots[j].occupied
          \/ ~stores[s].slots[j].occupied /\ stores[s].slots[j].generation # GenerationMax
      BY <1>9, <1>10, <3>4
    <3>8. Len(stores[s].slots) <= Len(new.slots)
      BY <1>9, <1>10
    <3> QED
      BY <1>2, <1>10, <3>1, <3>2, <3>6, <3>7, <3>8, AgedKept
  <2>2. CASE g = e
    <3>1. new.slots[i].generation \in 1..GenerationMax
      BY <1>9, <1>10, SlotFields
    <3>2. /\ e.handle.slot < Len(new.slots) /\ e.handle.slot + 1 = i
          /\ e.handle.generation <= new.slots[i].generation
      BY <1>8, <1>9, <1>10, <1>12, <3>1, StoreAssumption
    <3> QED
      BY <1>10, <1>12, <2>2, <3>2 DEF Aged
  <2> QED
    BY <1>11, <2>1, <2>2
<1>16. Done(s)' = 0 /\ cursor'[s] = None /\ order'[s] = Append(order[s], x)
       /\ \A r \in StoreIds : r # s => cursor'[r] = cursor[r] /\ order'[r] = order[r]
  BY <1>1 DEF Done, IInv, TypeOK
<1>17. /\ order[s] \in Seq(Items) /\ Len(order[s]) = Len(stores[s].live_slots)
       /\ \A k \in 1..Len(stores[s].live_slots) :
             order[s][k] = stores[s].slots[stores[s].live_slots[k] + 1].value
  <2>1. order[s] \in Seq(Items)
    BY DEF IInv, TypeOK
  <2>2. Len(order[s]) = Len(stores[s].live_slots)
    BY <1>2, <1>3 DEF Ordered
  <2> QED
    BY <1>2, <2>1, <2>2 DEF Ordered
<1>18. /\ Append(order[s], x) \in Seq(Items)
       /\ Len(Append(order[s], x)) = Len(order[s]) + 1
       /\ \A k \in 1..Len(order[s]) : Append(order[s], x)[k] = order[s][k]
       /\ Append(order[s], x)[Len(order[s]) + 1] = x
  BY <1>17, AppendProperties, ZenonT(60)
<1>19. Ordered(new, 0, order'[s])
  <2>1. PICK n \in Nat : n = Len(stores[s].live_slots)
    BY <1>3
  <2>2. Len(order'[s]) = Len(new.live_slots) - 0 /\ Len(order'[s]) = n + 1
    BY <1>10, <1>16, <1>17, <1>18, <2>1
  <2>3. ASSUME NEW k \in 1..(n + 1)
        PROVE  order'[s][k] = new.slots[new.live_slots[0 + k] + 1].value
    <3>1. CASE k \in 1..n
      <4>1. order'[s][k] = order[s][k] /\ new.live_slots[k] = stores[s].live_slots[k]
        <5>1. order'[s][k] = order[s][k]
          BY <1>16, <1>17, <1>18, <2>1, <3>1
        <5>2. new.live_slots[k] = stores[s].live_slots[k]
          BY <1>10, <2>1, <3>1
        <5> QED
          BY <5>1, <5>2
      <4>2. PICK j \in 1..Len(stores[s].slots) :
                j = stores[s].live_slots[k] + 1 /\ stores[s].slots[j].occupied
        <5>1. 0 < k
          BY <3>1
        <5> QED
          BY <1>2, <1>3, <2>1, <3>1, <5>1 DEF Dense
      <4>3. j \in 1..Len(slots) /\ slots[j] = stores[s].slots[j] /\ j # i
        <5>1. j \in 1..Len(slots)
          BY <1>3, <1>9
        <5>2. slots[j] = stores[s].slots[j]
          BY <1>9
        <5> QED
          BY <1>9, <4>2, <5>1, <5>2
      <4>4. new.slots[j] = stores[s].slots[j]
        BY <1>10, <4>3
      <4>5. order[s][k] = stores[s].slots[j].value
        BY <1>17, <2>1, <3>1, <4>2
      <4>6. 0 + k = k
        OBVIOUS
      <4> QED
        BY <4>1, <4>2, <4>4, <4>5, <4>6
    <3>2. CASE k = n + 1
      <4>1. order'[s][k] = x /\ new.live_slots[k] = i - 1
        BY <1>10, <1>16, <1>17, <1>18, <2>1, <3>2
      <4>2. 0 + k = k /\ i - 1 + 1 = i
        OBVIOUS
      <4> QED
        BY <1>10, <4>1, <4>2
    <3> QED
      BY <3>1, <3>2
  <2> QED
    BY <2>2, <2>3 DEF Ordered
<1>20. ASSUME NEW j \in DOMAIN new.slots, new.slots[j].occupied
       PROVE  Entry(s, new, j, new.slots[j].value) \in issued'
  <2>1. CASE j = i
    BY <1>10, <1>11, <2>1 DEF e
  <2>2. CASE j # i
    <3>1. new.slots[j] = slots[j] /\ j \in 1..Len(slots)
      BY <1>10, <2>2
    <3>2. j \in DOMAIN stores[s].slots /\ slots[j] = stores[s].slots[j]
      BY <1>3, <1>9, <1>20, <3>1
    <3>3. Entry(s, stores[s], j, stores[s].slots[j].value) \in issued
      BY <1>2, <1>20, <3>1, <3>2
    <3>4. Entry(s, new, j, new.slots[j].value) = Entry(s, stores[s], j, stores[s].slots[j].value)
      BY <1>10, <3>1, <3>2 DEF Entry
    <3> QED
      BY <1>11, <3>3, <3>4
  <2> QED
    BY <2>1, <2>2
<1>21. Dense(new, Done(s)') /\ Ordered(new, Done(s)', order'[s])
  BY <1>10, <1>16, <1>19
<1>22. issued \subseteq issued' /\ \A g \in issued' : g \in issued \/ g.store = s
  BY <1>11, <1>12
<1>23. TablesSound' /\ stores' \in [StoreIds -> Tables \cup {None}]
  BY <1>1, <1>11, <1>15, <1>16, <1>20, <1>21, <1>22, OneStore DEF IInv
<1>24. TypeOK'
  <2>1. fate' \in [Items -> {"owned", "stored", "moved", "dropped"}]
    BY <1>1 DEF IInv, TypeOK
  <2>2. order' \in [StoreIds -> Seq(Items)]
    BY <1>1, <1>18 DEF IInv, TypeOK
  <2>3. issued' \subseteq [handle : Handles, store : StoreIds, item : Items]
    BY <1>11, <1>13 DEF IInv, TypeOK
  <2> QED
    BY <1>1, <1>23, <2>1, <2>2, <2>3 DEF IInv, TypeOK
<1>25. CreatesFresh'
  BY <1>1, <1>11, <1>22, FreshKept DEF IInv
<1>26. ItemsPlaced'
  <2>1. new # None /\ stores'[s] = new /\ \A r \in StoreIds : r # s => stores'[r] = stores[r]
    BY <1>11, StoreAssumption DEF IInv, TypeOK
  <2>2. fate'[x] = "stored" /\ \A y \in Items : y # x => fate'[y] = fate[y]
    BY <1>1 DEF IInv, TypeOK
  <2>3. \A g, h \in issued' : g.item = h.item => g = h
    BY <1>11, <1>12, <1>14 DEF IInv, ItemsPlaced
  <2>4. \A g \in issued' : fate'[g.item] # "owned"
    <3>1. \A g \in issued : g.item \in Items /\ g.item # x /\ fate[g.item] # "owned"
      BY <1>14, IssuedFields DEF IInv, ItemsPlaced
    <3> QED
      BY <1>11, <1>12, <2>2, <3>1
  <2>5. ASSUME NEW y \in Items, y # x, NEW r \in StoreIds, NEW j
        PROVE  (stores'[r] # None /\ j \in DOMAIN stores'[r].slots /\ Has(stores'[r], j, y))
               <=> (stores[r] # None /\ j \in DOMAIN stores[r].slots /\ Has(stores[r], j, y))
    <3>1. CASE r # s
      BY <2>1, <3>1
    <3>2. CASE r = s /\ j = i
      <4>1. ~Has(new, i, y)
        BY <1>10, <2>5 DEF Has
      <4>2. ~Has(stores[s], i, y)
        BY <1>3, <1>9 DEF Has
      <4> QED
        BY <2>1, <3>2, <4>1, <4>2
    <3>3. CASE r = s /\ j # i
      <4>1. CASE j \in 1..Len(stores[s].slots)
        <5>1. j \in 1..Len(slots) /\ new.slots[j] = stores[s].slots[j]
          BY <1>3, <1>9, <1>10, <3>3, <4>1, SMTT(30)
        <5> QED
          BY <1>1, <1>3, <1>10, <2>1, <3>3, <4>1, <5>1 DEF Has
      <4>2. CASE j \notin 1..Len(stores[s].slots)
        <5>1. j \in 1..Len(slots) => ~new.slots[j].occupied
          BY <1>9, <1>10, <3>3, <4>2
        <5> QED
          BY <1>3, <1>10, <2>1, <3>3, <4>2, <5>1 DEF Has
      <4> QED
        BY <4>1, <4>2
    <3> QED
      BY <3>1, <3>2, <3>3
  <2>6. ASSUME NEW y \in Items
        PROVE  fate'[y] = "stored" <=> \E r \in StoreIds : stores'[r] # None
                                          /\ \E j \in DOMAIN stores'[r].slots : Has(stores'[r], j, y)
    <3>1. CASE y = x
      <4>1. i \in DOMAIN new.slots /\ Has(new, i, x)
        BY <1>8, <1>10, <2>1 DEF Has
      <4> QED
        BY <2>1, <2>2, <3>1, <4>1
    <3>2. CASE y # x
      <4>1. fate[y] = "stored" <=> \E r \in StoreIds : stores[r] # None
                                      /\ \E j \in DOMAIN stores[r].slots : Has(stores[r], j, y)
        BY DEF IInv, ItemsPlaced
      <4> QED
        BY <2>2, <2>5, <3>2, <4>1
    <3> QED
      BY <3>1, <3>2
  <2> QED
    BY <2>3, <2>4, <2>6 DEF ItemsPlaced
<1> QED
  BY <1>23, <1>24, <1>25, <1>26 DEF IInv

\* Every step keeps the invariant.
LEMMA NextIInv == IInv /\ [Next]_vars => IInv'
<1> SUFFICES ASSUME IInv, [Next]_vars PROVE IInv'
  OBVIOUS
<1>1. CASE UNCHANGED vars
  <2>1. UNCHANGED <<el_next_store_identity, stores, cursor, creating, issued, order, fate>>
    BY <1>1 DEF vars
  <2>2. TablesSound'
    BY <2>1, OtherStore DEF IInv, TablesSound
  <2>3. TypeOK'
    BY <2>1 DEF IInv, TypeOK
  <2>4. ItemsPlaced' /\ CreatesFresh'
    BY <2>1 DEF IInv, ItemsPlaced, CreatesFresh
  <2> QED
    BY <2>2, <2>3, <2>4 DEF IInv
<1>2. ASSUME NEW t \in Threads, StoreNewWrite(t) PROVE IInv'
  BY <1>2, StoreNewWriteStep
<1>3. ASSUME NEW t \in Threads, NEW s \in StoreIds, StoreNewRead(t, s) PROVE IInv'
  BY <1>3, StoreNewReadStep
<1>4. ASSUME NEW s \in StoreIds, NEW x \in Items, StoreInsert(s, x) PROVE IInv'
  BY <1>4, StoreInsertStep
<1>5. ASSUME NEW s \in StoreIds, NEW g \in issued, StoreRemove(s, g.handle) PROVE IInv'
  <2>1. g.handle \in Handles
    BY IssuedFields DEF IInv
  <2> QED
    BY <1>5, <2>1, StoreRemoveStep
<1>6. ASSUME NEW s \in StoreIds, StoreClear(s) PROVE IInv'
  BY <1>6, StoreClearStep
<1>7. ASSUME NEW s \in StoreIds, LoopStart(s) PROVE IInv'
  BY <1>7, LoopStartStep
<1>8. ASSUME NEW s \in StoreIds, LoopNext(s) PROVE IInv'
  BY <1>8, LoopNextStep
<1>9. ASSUME NEW s \in StoreIds, DropStore(s) PROVE IInv'
  BY <1>9, DropStoreStep
<1> QED
  BY <1>1, <1>2, <1>3, <1>4, <1>5, <1>6, <1>7, <1>8, <1>9 DEF Next

\* So the invariant holds in every state of every program.
LEMMA SpecIInv == Spec => []IInv
BY InitIInv, NextIInv, PTL DEF Spec

-----------------------------------------------------------------------------
(* The tables *)

\* The live slots are distinct, so they are no more than the slots.
LEMMA LiveFit ==
    ASSUME NEW st \in Tables, NEW done \in Nat, Dense(st, done)
    PROVE  Len(st.live_slots) <= Len(st.slots)
<1> DEFINE n == Len(st.live_slots)
           m == Len(st.slots)
           f == [k \in 1..n |-> st.live_slots[k] + 1]
<1>1. n \in Nat /\ m \in Nat /\ DOMAIN st.slots = 1..m
  BY TableFields
<1>2. \A k \in 1..n : st.live_slots[k] + 1 \in 1..m
                      /\ st.slots[st.live_slots[k] + 1].dense_index = k - 1
  BY <1>1 DEF Dense
<1>3. f \in [1..n -> 1..m]
  BY <1>2
<1>4. SUFFICES ASSUME m < n PROVE FALSE
  BY <1>1
<1> HIDE DEF n, m
<1>5. /\ IsFiniteSet(1..n) /\ Cardinality(1..n) = n
      /\ IsFiniteSet(1..m) /\ Cardinality(1..m) = m
  <2>1. n \in Int /\ m \in Int /\ 1 \in Int
    BY <1>1
  <2>2. /\ IsFiniteSet(1..n) /\ Cardinality(1..n) = IF 1 > n THEN 0 ELSE n - 1 + 1
        /\ IsFiniteSet(1..m) /\ Cardinality(1..m) = IF 1 > m THEN 0 ELSE m - 1 + 1
    BY <2>1, FS_Interval
  <2> QED
    BY <1>1, <2>2
<1>6. \E a, b \in 1..n : a # b /\ f[a] = f[b]
  <2>1. Cardinality(1..m) < Cardinality(1..n)
    BY <1>4, <1>5
  <2> HIDE DEF f
  <2> QED
    BY <1>3, <1>5, <2>1, FS_PigeonHole
<1>7. PICK a \in 1..n, b \in 1..n : a # b /\ st.live_slots[a] + 1 = st.live_slots[b] + 1
  BY <1>6
<1>8. a - 1 = b - 1
  BY <1>2, <1>7
<1> QED
  BY <1>1, <1>7, <1>8

\* A consistent table is dense and in the order of insertion.
LEMMA TablesInOrder == IInv => TableConsistent
<1> SUFFICES ASSUME IInv PROVE InsertionOrder
  BY DEF IInv, TableConsistent
<1> SUFFICES ASSUME NEW s \in StoreIds, stores[s] # None
             PROVE  LET st == stores[s]
                        n == Len(st.live_slots)
                    IN  /\ n <= Len(st.slots)
                        /\ order[s] = [k \in 1..(n - Done(s)) |->
                                          st.slots[st.live_slots[Done(s) + k] + 1].value]
                        /\ \A k \in 1..n : st.slots[st.live_slots[k] + 1].dense_index = k - 1
  BY DEF InsertionOrder
<1>1. /\ stores[s] \in Tables /\ Dense(stores[s], Done(s)) /\ Ordered(stores[s], Done(s), order[s])
  BY TableThere DEF IInv
<1>2. Done(s) \in Nat
  BY DEF Done, IInv, TypeOK
<1>3. Len(stores[s].live_slots) <= Len(stores[s].slots)
  BY <1>1, <1>2, LiveFit
<1>4. /\ Len(order[s]) = Len(stores[s].live_slots) - Done(s)
      /\ \A k \in 1..Len(order[s]) :
            order[s][k] = stores[s].slots[stores[s].live_slots[Done(s) + k] + 1].value
  BY <1>1 DEF Ordered
<1>5. order[s] = [k \in 1..(Len(stores[s].live_slots) - Done(s)) |->
                     stores[s].slots[stores[s].live_slots[Done(s) + k] + 1].value]
  <2>1. order[s] \in [1..Len(order[s]) -> Items]
    BY LenProperties DEF IInv, TypeOK
  <2>2. order[s] = [k \in 1..Len(order[s]) |-> order[s][k]]
    BY <2>1
  <2> QED
    BY <1>4, <2>2
<1>6. \A k \in 1..Len(stores[s].live_slots) :
            stores[s].slots[stores[s].live_slots[k] + 1].dense_index = k - 1
  BY <1>1 DEF Dense
<1> QED
  BY <1>3, <1>5, <1>6

\* The table of every store stays dense, its back indices right and its order
\* that of the insertions, through insert, remove, clear and consuming loops.
THEOREM StoreTableConsistent == Spec => []TableConsistent
BY SpecIInv, TablesInOrder, PTL

\* An item is in one slot of one store exactly while it is stored; it leaves
\* by one remove, loop step, clear or drop.
THEOREM StoreItemsOnce == Spec => []ItemsOnce
<1>1. ASSUME IInv PROVE ItemsOnce
  <2> SUFFICES ASSUME NEW x \in Items
               PROVE  LET places == UNION {{s} \X {i \in DOMAIN stores[s].slots :
                                                       Has(stores[s], i, x)}
                                           : s \in {s \in StoreIds : stores[s] # None}}
                      IN  /\ fate[x] = "stored" <=> places # {}
                          /\ \A p, q \in places : p = q
    BY DEF ItemsOnce
  <2> DEFINE places == UNION {{s} \X {i \in DOMAIN stores[s].slots : Has(stores[s], i, x)}
                              : s \in {s \in StoreIds : stores[s] # None}}
  <2>1. \A p : p \in places <=>
            \E s \in StoreIds : stores[s] # None
               /\ \E i \in DOMAIN stores[s].slots : Has(stores[s], i, x) /\ p = <<s, i>>
    OBVIOUS
  <2> HIDE DEF places
  <2>2. fate[x] = "stored" <=> \E s \in StoreIds : stores[s] # None
                                  /\ \E i \in DOMAIN stores[s].slots : Has(stores[s], i, x)
    BY <1>1 DEF IInv, ItemsPlaced
  <2>3. fate[x] = "stored" <=> places # {}
    BY <2>1, <2>2
  <2>4. ASSUME NEW p \in places, NEW q \in places PROVE p = q
    <3>1. PICK s \in StoreIds : stores[s] # None /\ \E i \in DOMAIN stores[s].slots :
                                      Has(stores[s], i, x) /\ p = <<s, i>>
      BY <2>1
    <3>2. PICK i \in DOMAIN stores[s].slots :
                Has(stores[s], i, x) /\ p = <<s, i>>
      BY <3>1
    <3>3. PICK r \in StoreIds : stores[r] # None /\ \E j \in DOMAIN stores[r].slots :
                                      Has(stores[r], j, x) /\ q = <<r, j>>
      BY <2>1
    <3>4. PICK j \in DOMAIN stores[r].slots :
                Has(stores[r], j, x) /\ q = <<r, j>>
      BY <3>3
    <3>5. stores[s].slots[i].occupied /\ stores[s].slots[i].value = x
      BY <3>2 DEF Has
    <3>6. r = s /\ j = i
      BY <1>1, <3>1, <3>3, <3>2, <3>4, <3>5, OccupiedOnce DEF IInv
    <3> QED
      BY <3>2, <3>4, <3>6
  <2> QED
    BY <2>3, <2>4 DEF places
<1> QED
  BY <1>1, SpecIInv, PTL

-----------------------------------------------------------------------------
(* The handles *)

\* A step that creates no store changes no identity, and a handle it issues
\* has the identity of its store.
LEMMA IdentityKept ==
    ASSUME IInv, NEW s \in StoreIds,
           \/ \E x \in Items : StoreInsert(s, x)
           \/ \E g \in issued : StoreRemove(s, g.handle)
           \/ StoreClear(s) \/ LoopStart(s) \/ LoopNext(s) \/ DropStore(s)
    PROVE  /\ UNCHANGED <<el_next_store_identity, creating>>
           /\ \A r \in StoreIds : stores'[r] # None =>
                 stores[r] # None /\ stores'[r].identity = stores[r].identity
           /\ \A g \in issued' : g \in issued \/
                 (g.store \in StoreIds /\ stores[g.store] # None
                  /\ g.handle.store = stores[g.store].identity)
<1>1. stores \in [StoreIds -> Tables \cup {None}]
  BY DEF IInv, TypeOK
<1>2. ASSUME NEW new, stores[s] # None, stores' = [stores EXCEPT ![s] = new],
             new.identity = stores[s].identity
      PROVE  \A r \in StoreIds : stores'[r] # None =>
                stores[r] # None /\ stores'[r].identity = stores[r].identity
  <2>1. stores'[s] = new /\ \A r \in StoreIds : r # s => stores'[r] = stores[r]
    BY <1>1, <1>2
  <2> QED
    BY <1>2, <2>1
<1>3. ASSUME NEW x \in Items, StoreInsert(s, x)
      PROVE  /\ \A r \in StoreIds : stores'[r] # None =>
                   stores[r] # None /\ stores'[r].identity = stores[r].identity
             /\ \A g \in issued' : g \in issued \/
                   (g.store = s /\ stores[s] # None /\ g.handle.store = stores[s].identity)
  <2>1. PICK slots, i :
            /\ stores' = [stores EXCEPT ![s] = Inserted(stores[s], slots, i, x)]
            /\ issued' = issued \cup {Entry(s, Inserted(stores[s], slots, i, x), i, x)}
    BY <1>3 DEF StoreInsert
  <2>2. PICK new : new = Inserted(stores[s], slots, i, x)
    OBVIOUS
  <2>3. new.identity = stores[s].identity /\ stores[s] # None
    BY <1>3, <2>2 DEF Inserted, StoreInsert, Held
  <2>4. Entry(s, new, i, x).store = s /\ Entry(s, new, i, x).handle.store = new.identity
    BY DEF Entry
  <2> QED
    BY <1>2, <2>1, <2>2, <2>3, <2>4
<1>4. ASSUME NEW h, StoreRemove(s, h)
      PROVE  \A r \in StoreIds : stores'[r] # None =>
                   stores[r] # None /\ stores'[r].identity = stores[r].identity
  <2>1. PICK new : new = Removed(stores[s], h.slot + 1)
    OBVIOUS
  <2>2. new.identity = stores[s].identity
    BY <2>1 DEF Removed
  <2>3. stores' = [stores EXCEPT ![s] = new] /\ stores[s] # None
    BY <1>4, <2>1 DEF StoreRemove, Held
  <2> QED
    BY <1>2, <2>2, <2>3
<1>5. ASSUME StoreClear(s)
      PROVE  \A r \in StoreIds : stores'[r] # None =>
                   stores[r] # None /\ stores'[r].identity = stores[r].identity
  <2>1. PICK new : new = Cleared(stores[s])
    OBVIOUS
  <2>2. new.identity = stores[s].identity
    BY <2>1 DEF Cleared
  <2>3. stores' = [stores EXCEPT ![s] = new] /\ stores[s] # None
    BY <1>5, <2>1 DEF StoreClear, Held
  <2> QED
    BY <1>2, <2>2, <2>3
<1>6. ASSUME LoopNext(s)
      PROVE  \A r \in StoreIds : stores'[r] # None =>
                   stores[r] # None /\ stores'[r].identity = stores[r].identity
  <2>1. PICK i : stores' = [stores EXCEPT ![s] = Taken(stores[s], i)] /\ stores[s] # None
    BY <1>6 DEF LoopNext
  <2>2. PICK st \in Tables : st = stores[s]
    BY <1>1, <2>1
  <2>3. PICK new : new = Taken(st, i)
    OBVIOUS
  <2>4. new.identity = st.identity
    <3>1. PICK slots : new = [st EXCEPT !.slots = slots]
      BY <2>3 DEF Taken
    <3> QED
      BY <3>1 DEF Tables
  <2> QED
    BY <1>2, <2>1, <2>2, <2>3, <2>4
<1>7. ASSUME LoopStart(s) \/ DropStore(s)
      PROVE  \A r \in StoreIds : stores'[r] # None =>
                   stores[r] # None /\ stores'[r].identity = stores[r].identity
  BY <1>1, <1>7 DEF LoopStart, DropStore
<1>8. UNCHANGED <<el_next_store_identity, creating>>
  BY DEF StoreInsert, StoreRemove, StoreClear, LoopStart, LoopNext, DropStore
<1>9. (\E x \in Items : StoreInsert(s, x)) \/ issued' = issued
  BY DEF StoreRemove, StoreClear, LoopStart, LoopNext, DropStore
<1> QED
  BY <1>3, <1>4, <1>5, <1>6, <1>7, <1>8, <1>9

\* While one thread at a time creates stores, identities are not given twice.
LEMMA NextIdentities ==
    ASSUME IInv, IdentitiesUsed, OneCreator, OneCreator', [Next]_vars
    PROVE  IdentitiesUsed'
<1>1. ASSUME UNCHANGED <<el_next_store_identity, creating>>,
             \A r \in StoreIds : stores'[r] # None =>
                stores[r] # None /\ stores'[r].identity = stores[r].identity,
             \A g \in issued' : g \in issued \/
                (g.store \in StoreIds /\ stores[g.store] # None
                 /\ g.handle.store = stores[g.store].identity)
      PROVE  IdentitiesUsed'
  BY <1>1 DEF IdentitiesUsed
<1>2. CASE UNCHANGED vars
  BY <1>2 DEF vars, IdentitiesUsed
<1>3. ASSUME NEW t \in Threads, NEW s \in StoreIds, StoreNewRead(t, s)
      PROVE  IdentitiesUsed'
  <2>1. /\ creating' = [creating EXCEPT ![t] = [store |-> s, identity |-> el_next_store_identity]]
        /\ UNCHANGED <<el_next_store_identity, stores, issued>>
        /\ el_next_store_identity # 0
    BY <1>3 DEF StoreNewRead
  <2>2. PICK c \in Creations : c.identity = el_next_store_identity /\ creating'[t] = c
    BY <2>1, StoreAssumption DEF IInv, TypeOK, Creations
  <2>3. \A u \in Threads : creating'[u] # None => u = t
    BY <2>2, StoreAssumption DEF OneCreator
  <2> QED
    BY <2>1, <2>2, <2>3 DEF IdentitiesUsed
<1>4. ASSUME NEW t \in Threads, StoreNewWrite(t)
      PROVE  IdentitiesUsed'
  <2>1. creating[t] # None /\ creating[t] \in Creations
    BY <1>4 DEF StoreNewWrite, IInv, TypeOK
  <2>2. PICK s \in StoreIds, n \in 1..IdentityMax :
            s = creating[t].store /\ n = creating[t].identity
    BY <2>1 DEF Creations
  <2>3. /\ stores' = [stores EXCEPT ![s] =
                        [identity |-> n, slots |-> <<>>, live_slots |-> <<>>]]
        /\ creating' = [creating EXCEPT ![t] = None]
        /\ el_next_store_identity' = (n + 1) % (IdentityMax + 1)
        /\ UNCHANGED issued
    BY <1>4, <2>2 DEF StoreNewWrite
  <2>4. /\ stores'[s] # None => stores'[s].identity = n
        /\ \A r \in StoreIds : r # s => stores'[r] = stores[r]
    BY <2>3 DEF IInv, TypeOK
  <2>5. n = el_next_store_identity /\ n # 0 /\ n \in Nat
    BY <2>1, <2>2, StoreAssumption DEF IdentitiesUsed
  <2>6. /\ stores[s] = None
        /\ \A r \in StoreIds : stores[r] # None => stores[r].identity < n
        /\ \A g \in issued : g.handle.store < n
    BY <2>1, <2>2, <2>5 DEF IdentitiesUsed, IInv, CreatesFresh
  <2>7. \A u \in Threads : creating'[u] = None
    <3>1. \A u \in Threads : creating[u] # None => u = t
      BY <2>1 DEF OneCreator
    <3> QED
      BY <2>3, <3>1 DEF IInv, TypeOK
  <2>8. el_next_store_identity' # 0 => el_next_store_identity' = n + 1
    BY <2>3, NextIdentity
  <2>9. /\ \A r \in StoreIds : stores[r] # None => stores[r].identity \in Nat
        /\ \A g \in issued : g.handle.store \in Nat
    <3>1. ASSUME NEW r \in StoreIds, stores[r] # None PROVE stores[r].identity \in Nat
      <4>1. stores[r] \in Tables
        BY <3>1 DEF IInv, TypeOK
      <4> QED
        BY <4>1, StoreAssumption DEF Tables
    <3>2. ASSUME NEW g \in issued PROVE g.handle.store \in Nat
      <4>1. g.handle \in Handles
        BY IssuedFields DEF IInv
      <4> QED
        BY <4>1, StoreAssumption DEF Handles
    <3> QED
      BY <3>1, <3>2
  <2>10. \A r \in StoreIds : stores'[r] # None =>
             \/ r = s /\ stores'[r].identity = n
             \/ r # s /\ stores[r] # None /\ stores'[r].identity = stores[r].identity
                /\ stores[r].identity < n /\ stores[r].identity \in Nat
    BY <2>4, <2>6, <2>9
  <2>11. ASSUME NEW r \in StoreIds, stores'[r] # None
         PROVE  /\ el_next_store_identity' # 0 => stores'[r].identity < el_next_store_identity'
                /\ \A q \in StoreIds : stores'[q] # None /\ stores'[q].identity = stores'[r].identity
                                          => q = r
                /\ \A g \in issued' : g.handle.store = stores'[r].identity => g.store = r
    <3>1. el_next_store_identity' # 0 => stores'[r].identity < el_next_store_identity'
      BY <2>5, <2>8, <2>10, <2>11
    <3>2. ASSUME NEW q \in StoreIds, stores'[q] # None, stores'[q].identity = stores'[r].identity
          PROVE  q = r
      <4>1. CASE q # s /\ r # s
        BY <2>10, <2>11, <3>2, <4>1 DEF IdentitiesUsed
      <4>2. CASE q = s \/ r = s
        BY <2>5, <2>10, <2>11, <3>2, <4>2
      <4> QED
        BY <4>1, <4>2
    <3>3. ASSUME NEW g \in issued', g.handle.store = stores'[r].identity
          PROVE  g.store = r
      <4>1. g \in issued /\ g.handle.store < n /\ g.handle.store \in Nat
        BY <2>3, <2>6, <2>9
      <4>2. r # s
        BY <2>5, <2>10, <2>11, <3>3, <4>1
      <4> QED
        BY <2>10, <2>11, <3>3, <4>1, <4>2 DEF IdentitiesUsed
    <3> QED
      BY <3>1, <3>2, <3>3
  <2>12. \A g \in issued' : el_next_store_identity' # 0 => g.handle.store < el_next_store_identity'
    BY <2>3, <2>5, <2>6, <2>8, <2>9
  <2> QED
    BY <2>7, <2>11, <2>12 DEF IdentitiesUsed
<1>5. ASSUME NEW s \in StoreIds,
             \/ \E x \in Items : StoreInsert(s, x)
             \/ \E g \in issued : StoreRemove(s, g.handle)
             \/ StoreClear(s) \/ LoopStart(s) \/ LoopNext(s) \/ DropStore(s)
      PROVE  IdentitiesUsed'
  BY <1>1, <1>5, IdentityKept
<1> QED
  BY <1>2, <1>3, <1>4, <1>5 DEF Next

\* The program starts without stores.
LEMMA SpecIdentities == Spec /\ []OneCreator => []IdentitiesUsed
<1>1. Init => IdentitiesUsed
  BY DEF Init, IdentitiesUsed
<1>2. IInv /\ IdentitiesUsed /\ OneCreator /\ OneCreator' /\ [Next]_vars => IdentitiesUsed'
  BY NextIdentities
<1> QED
  BY <1>1, <1>2, SpecIInv, PTL DEF Spec

\* The items of the order are those of the occupied slots, while no loop has
\* begun.
LEMMA OrderRange ==
    ASSUME IInv, NEW s \in StoreIds, Held(s), NEW x
    PROVE  x \in Range(order[s]) <=> \E i \in DOMAIN stores[s].slots : Has(stores[s], i, x)
<1>1. /\ stores[s] # None /\ stores[s] \in Tables
      /\ Dense(stores[s], 0) /\ Ordered(stores[s], 0, order[s])
  BY TableThere DEF Held, Done, IInv
<1>2. /\ DOMAIN stores[s].slots = 1..Len(stores[s].slots) /\ Len(stores[s].live_slots) \in Nat
      /\ \A i \in DOMAIN stores[s].slots : stores[s].slots[i].dense_index \in Nat
  BY <1>1, TableFields, SlotFields
<1>3. /\ DOMAIN order[s] = 1..Len(stores[s].live_slots)
      /\ \A k \in 1..Len(stores[s].live_slots) :
            order[s][k] = stores[s].slots[stores[s].live_slots[k] + 1].value
  <2>1. order[s] \in Seq(Items)
    BY DEF IInv, TypeOK
  <2>2. Len(order[s]) = Len(stores[s].live_slots)
    BY <1>1, <1>2 DEF Ordered
  <2> QED
    BY <1>1, <2>1, <2>2, LenProperties DEF Ordered
<1>4. ASSUME x \in Range(order[s])
      PROVE  \E i \in DOMAIN stores[s].slots : Has(stores[s], i, x)
  <2>1. PICK k \in 1..Len(stores[s].live_slots) : x = order[s][k]
    BY <1>3, <1>4 DEF Range
  <2>2. 0 < k
    BY <1>2
  <2>3. PICK i \in DOMAIN stores[s].slots :
            i = stores[s].live_slots[k] + 1 /\ stores[s].slots[i].occupied
    BY <1>1, <2>2 DEF Dense
  <2>4. stores[s].slots[i].value = x
    BY <1>3, <2>1, <2>3
  <2> QED
    BY <1>1, <2>3, <2>4 DEF Has
<1>5. ASSUME NEW i \in DOMAIN stores[s].slots, Has(stores[s], i, x)
      PROVE  x \in Range(order[s])
  <2>1. PICK k \in Nat : k = stores[s].slots[i].dense_index
    BY <1>2
  <2>2. k < Len(stores[s].live_slots) /\ stores[s].live_slots[k + 1] = i - 1
    BY <1>1, <1>5, <2>1 DEF Dense, Has
  <2>3. k + 1 \in 1..Len(stores[s].live_slots)
    BY <1>2, <2>2
  <2>4. stores[s].live_slots[k + 1] + 1 = i
    BY <1>2, <2>2
  <2>5. order[s][k + 1] = x
    BY <1>3, <1>5, <2>3, <2>4 DEF Has
  <2> QED
    BY <1>3, <2>3, <2>5 DEF Range
<1> QED
  BY <1>4, <1>5

\* As long as no two threads are inside the creation of a store at once, every
\* lookup is exact: a handle finds its own item while that is in its store,
\* and otherwise traps as stale, or as of the wrong store in any other.
THEOREM StoreLookupExact == Spec /\ []OneCreator => []LookupExact
<1>1. ASSUME IInv, IdentitiesUsed PROVE LookupExact
  <2> SUFFICES ASSUME NEW g \in issued, NEW s \in StoreIds, Held(s)
               PROVE  Lookup(s, g.handle) =
                          IF g.store # s THEN "E-RUN-WRONG-STORE"
                          ELSE IF g.item \in Range(order[s]) THEN g.item
                          ELSE "E-RUN-STALE"
    BY DEF LookupExact
  <2>1. /\ stores[s] # None /\ cursor[s] = None /\ stores[s] \in Tables
        /\ \A f \in issued : f.store = s => Aged(stores[s], FALSE, f)
        /\ \A i \in DOMAIN stores[s].slots : stores[s].slots[i].occupied =>
              Entry(s, stores[s], i, stores[s].slots[i].value) \in issued
    BY <1>1, TableThere DEF Held, IInv
  <2>2. g.handle \in Handles /\ g.item \in Items /\ g.store \in StoreIds
    BY <1>1, IssuedFields DEF IInv
  <2>3. CASE g.store # s
    <3>1. g.handle.store # stores[s].identity
      BY <1>1, <2>1, <2>3 DEF IdentitiesUsed
    <3> QED
      BY <2>1, <2>2, <2>3, <3>1, LookupResult
  <2>4. CASE g.store = s
    <3>1. Aged(stores[s], FALSE, g)
      BY <2>1, <2>4
    <3>2. DOMAIN stores[s].slots = 1..Len(stores[s].slots) /\ Len(stores[s].slots) \in Nat
      BY <2>1, TableFields
    <3>3. PICK j \in DOMAIN stores[s].slots : j = g.handle.slot + 1
      BY <2>2, <3>1, <3>2 DEF Aged, Handles
    <3>4. /\ g.handle.store = stores[s].identity
          /\ g.handle.slot < Len(stores[s].slots)
          /\ g.handle.generation = stores[s].slots[j].generation
                /\ stores[s].slots[j].occupied => stores[s].slots[j].value = g.item
      BY <3>1, <3>3 DEF Aged
    <3>5. CASE stores[s].slots[j].occupied
               /\ stores[s].slots[j].generation = g.handle.generation
      <4>1. Lookup(s, g.handle) = g.item
        BY <2>1, <2>2, <3>3, <3>4, <3>5, LookupResult
      <4>2. Has(stores[s], j, g.item)
        BY <2>1, <3>4, <3>5 DEF Has
      <4>3. g.item \in Range(order[s])
        BY <1>1, <4>2, OrderRange
      <4> QED
        BY <2>4, <4>1, <4>3
    <3>6. CASE ~(stores[s].slots[j].occupied
                 /\ stores[s].slots[j].generation = g.handle.generation)
      <4>1. Lookup(s, g.handle) = "E-RUN-STALE"
        BY <2>1, <2>2, <3>3, <3>4, <3>6, LookupResult
      <4>2. ASSUME g.item \in Range(order[s]) PROVE FALSE
        <5>1. PICK i \in DOMAIN stores[s].slots : Has(stores[s], i, g.item)
          BY <1>1, <4>2, OrderRange
        <5>2. stores[s].slots[i].occupied /\ stores[s].slots[i].value = g.item
          BY <5>1 DEF Has
        <5>3. Entry(s, stores[s], i, g.item) \in issued
          BY <2>1, <5>2
        <5>4. Entry(s, stores[s], i, g.item).item = g.item
          BY DEF Entry
        <5>5. Entry(s, stores[s], i, g.item) = g
          BY <1>1, <5>3, <5>4 DEF IInv, ItemsPlaced
        <5>6. g.handle.slot = i - 1 /\ g.handle.generation = stores[s].slots[i].generation
          <6>1. /\ Entry(s, stores[s], i, g.item).handle.slot = i - 1
                /\ Entry(s, stores[s], i, g.item).handle.generation =
                      stores[s].slots[i].generation
            BY DEF Entry
          <6> QED
            BY <5>5, <6>1
        <5>7. i = j
          BY <3>2, <3>3, <5>6
        <5> QED
          BY <3>6, <5>2, <5>6, <5>7
      <4> QED
        BY <2>4, <4>1, <4>2
    <3> QED
      BY <3>5, <3>6
  <2> QED
    BY <2>3, <2>4
<1> QED
  BY <1>1, SpecIInv, SpecIdentities, PTL
=============================================================================
