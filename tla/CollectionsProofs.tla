------------------------- MODULE CollectionsProofs -------------------------
(***************************************************************************)
(* Proofs about Collections for every element type, every capacity and all *)
(* sequences of calls.                                                     *)
(***************************************************************************)
EXTENDS Collections, CommonLemmas, FiniteSetTheorems, SequenceTheorems, TLAPS

-----------------------------------------------------------------------------
(* Growth *)

\* The loop of a reservation doubles a capacity until it is enough and leaves it
\* when a doubling could overflow: it ends, with no more than MaxWord.
LEMMA DoubledEnough ==
    ASSUME NEW capacity \in 1..MaxWord, NEW needed \in 1..MaxWord
    PROVE  Doubled(capacity, needed) \in needed..MaxWord
<1> DEFINE Turn(g, n) == IF n >= needed THEN n
                         ELSE IF n > MaxWord \div 2 THEN needed ELSE g[2 * n]
           From(n) == (MaxWord - n)..MaxWord
           Up(n, g) == DOMAIN g = From(n) /\ \A i \in From(n) : g[i] = Turn(g, i)
           Walked == {n \in 0..(MaxWord - 1) : \E g : Up(n, g)}
           from == CHOOSE g : g = [n \in 1..MaxWord |-> Turn(g, n)]
<1>1. MaxWord \in Nat /\ MaxWord >= 1
  BY CollectionsAssumption
<1>2. ASSUME NEW n \in 1..MaxWord, ~(n >= needed), ~(n > MaxWord \div 2)
      PROVE  2 * n \in 1..MaxWord /\ 2 * n > n
  BY <1>1, <1>2
<1>3. ASSUME NEW n \in 0..(MaxWord - 1), \A m \in 0..(n - 1) : m \in Walked
      PROVE  n \in Walked
  <2>1. MaxWord - n \in 1..MaxWord /\ From(n) \subseteq 1..MaxWord
    BY <1>1
  <2>2. PICK g : n # 0 => Up(n - 1, g)
    <3>1. CASE n = 0
      BY <3>1
    <3>2. CASE n # 0
      <4>1. n - 1 \in 0..(n - 1)
        BY <3>2
      <4>2. n - 1 \in Walked
        <5> HIDE DEF Walked
        <5> QED
          BY <1>3, <4>1
      <4> QED
        BY <4>2
    <3> QED
      BY <3>1, <3>2
  <2> DEFINE h == [i \in From(n) |-> IF i = MaxWord - n THEN Turn(g, i) ELSE g[i]]
  <2>3. ASSUME NEW i \in From(n)
        PROVE  h[i] = Turn(h, i)
    <3>1. i # MaxWord - n => n # 0 /\ i \in From(n - 1)
      BY <1>1, <2>1
    <3>2. h[i] = Turn(g, i)
      BY <2>2, <3>1
    <3>3. ASSUME ~(i >= needed), ~(i > MaxWord \div 2)
          PROVE  h[2 * i] = g[2 * i]
      <4>1. 2 * i \in From(n) /\ 2 * i # MaxWord - n
        BY <1>1, <1>2, <2>1, <3>3
      <4> QED
        BY <4>1
    <3> HIDE DEF h
    <3> QED
      BY <3>2, <3>3
  <2>4. Up(n, h)
    <3> HIDE DEF Turn
    <3> QED
      BY <2>3
  <2> QED
    BY <2>4
<1>4. MaxWord - 1 \in Walked
  <2> HIDE DEF Walked
  <2>1. MaxWord - 1 \in Nat /\ MaxWord - 1 \in 0..(MaxWord - 1)
    BY <1>1
  <2>2. \A n \in 0..(MaxWord - 1) : n \in Walked
    BY <1>3, <2>1, InductionUpTo
  <2> QED
    BY <2>1, <2>2
<1>5. PICK g : Up(MaxWord - 1, g)
  BY <1>4
<1> DEFINE table == [n \in 1..MaxWord |-> g[n]]
<1>6. table = [n \in 1..MaxWord |-> Turn(table, n)]
  <2>1. From(MaxWord - 1) = 1..MaxWord
    BY <1>1
  <2>2. \A i \in 1..MaxWord : g[i] = Turn(g, i)
    BY <1>5, <2>1
  <2> SUFFICES ASSUME NEW i \in 1..MaxWord PROVE Turn(g, i) = Turn(table, i)
    BY <2>2
  <2> QED
    BY <1>2
<1> HIDE DEF table
<1>7. from = [n \in 1..MaxWord |-> Turn(from, n)]
  <2> HIDE DEF Turn
  <2> QED
    BY <1>6
<1>8. Doubled(capacity, needed) = from[capacity]
  BY DEF Doubled
<1> HIDE DEF from
<1> DEFINE Enough == {n \in 0..(MaxWord - 1) : from[MaxWord - n] \in needed..MaxWord}
<1>9. ASSUME NEW n \in 0..(MaxWord - 1), \A m \in 0..(n - 1) : m \in Enough
      PROVE  n \in Enough
  <2> DEFINE i == MaxWord - n
  <2>1. i \in 1..MaxWord /\ from[i] = Turn(from, i)
    BY <1>1, <1>7
  <2>2. CASE i >= needed
    BY <1>1, <2>1, <2>2
  <2>3. CASE ~(i >= needed) /\ i > MaxWord \div 2
    BY <1>1, <2>1, <2>3
  <2>4. CASE ~(i >= needed) /\ ~(i > MaxWord \div 2)
    <3>1. 2 * i \in 1..MaxWord /\ 2 * i > i
      BY <1>2, <2>1, <2>4
    <3>2. MaxWord - 2 * i \in 0..(n - 1) /\ MaxWord - (MaxWord - 2 * i) = 2 * i
      BY <1>1, <3>1
    <3>3. MaxWord - 2 * i \in Enough
      <4> HIDE DEF Enough, i
      <4> QED
        BY <1>9, <3>2
    <3>4. from[2 * i] \in needed..MaxWord
      BY <3>2, <3>3
    <3> QED
      BY <2>1, <2>4, <3>4
  <2> QED
    BY <2>2, <2>3, <2>4
<1>10. \A n \in 0..(MaxWord - 1) : n \in Enough
  <2> HIDE DEF Enough
  <2>1. MaxWord - 1 \in Nat
    BY <1>1
  <2> QED
    BY <1>9, <2>1, InductionUpTo
<1>11. MaxWord - capacity \in 0..(MaxWord - 1) /\ MaxWord - (MaxWord - capacity) = capacity
  BY <1>1
<1> QED
  BY <1>8, <1>10, <1>11

\* The fields of a block.
LEMMA BlockFields ==
    ASSUME NEW b \in Blocks
    PROVE  /\ b = [length |-> b.length, capacity |-> b.capacity,
                   keys |-> b.keys, values |-> b.values]
           /\ b.length \in Nat /\ b.capacity \in Nat
           /\ b.length <= b.capacity /\ b.capacity <= MaxWord /\ MaxWord \in Nat
           /\ b.keys \in Seq(Cells) /\ b.values \in Seq(Cells)
           /\ Len(b.keys) = b.capacity /\ Len(b.values) = b.capacity
           /\ DOMAIN b.keys = 1..b.capacity /\ DOMAIN b.values = 1..b.capacity
<1>1. MaxWord \in Nat
  BY CollectionsAssumption
<1> QED
  BY <1>1 DEF Blocks

\* The copy into a replacement array keeps the cells in use.
LEMMA ResizedKeeps ==
    ASSUME NEW cells \in Seq(Cells), NEW n \in Nat, NEW m \in Nat, n <= Len(cells), n <= m
    PROVE  LET r == Resized(SubSeq(cells, 1, n), m)
           IN  /\ r \in Seq(Cells) /\ Len(r) = m
               /\ \A i \in 1..n : r[i] = cells[i]
<1> DEFINE part == SubSeq(cells, 1, n)
           r == Resized(part, m)
<1>1. part \in Seq(Cells) /\ Len(part) = n /\ \A i \in 1..n : part[i] = cells[i]
  <2>1. \A i \in 1..n : cells[i] \in Cells
    BY ElementOfSeq
  <2> QED
    BY <2>1, SubSeqProperties
<1>2. DOMAIN part = 1..n /\ \A i \in 1..n : part[i] \in Cells
  BY <1>1, ElementOfSeq
<1> HIDE DEF part
<1>3. \A i \in 1..m : r[i] = IF i \in 1..n THEN part[i] ELSE None
  BY <1>2 DEF Resized
<1>4. r \in [1..m -> Cells]
  BY <1>2 DEF Resized, Cells
<1> HIDE DEF r
<1>5. r \in Seq(Cells) /\ Len(r) = m
  BY <1>4, SeqDef
<1>6. \A i \in 1..n : r[i] = cells[i]
  BY <1>1, <1>3
<1> QED
  BY <1>5, <1>6 DEF r, part

LEMMA ReserveGrows ==
    ASSUME NEW b \in Blocks, NEW needed \in 1..MaxWord, b.length <= needed
    PROVE  LET g == Reserve(b, needed)
           IN  /\ g \in Blocks /\ g.length = b.length /\ needed <= g.capacity
               /\ \A i \in 1..b.length : g.keys[i] = b.keys[i] /\ g.values[i] = b.values[i]
<1> DEFINE n == NewCapacity(b, needed)
           g == Reserve(b, needed)
<1>1. CASE b.capacity >= needed
  BY <1>1, BlockFields DEF Reserve
<1>2. CASE ~(b.capacity >= needed)
  <2>1. n \in needed..MaxWord
    <3>1. (IF b.capacity = 0 THEN FirstCapacity ELSE b.capacity) \in 1..MaxWord
      BY BlockFields, CollectionsAssumption
    <3> QED
      BY <1>2, <3>1, DoubledEnough DEF NewCapacity
  <2>2. n \in Nat /\ needed <= n /\ n <= MaxWord /\ b.length <= n
    BY <2>1, BlockFields
  <2> DEFINE ks == Resized(SubSeq(b.keys, 1, b.length), n)
             vs == Resized(SubSeq(b.values, 1, b.length), n)
  <2>3. /\ ks \in Seq(Cells) /\ Len(ks) = n
        /\ \A i \in 1..b.length : ks[i] = b.keys[i]
    BY <2>2, BlockFields, ResizedKeeps
  <2>4. /\ vs \in Seq(Cells) /\ Len(vs) = n
        /\ \A i \in 1..b.length : vs[i] = b.values[i]
    BY <2>2, BlockFields, ResizedKeeps
  <2>5. g = [length |-> b.length, capacity |-> n, keys |-> ks, values |-> vs]
    <3>1. g = [b EXCEPT !.capacity = n, !.keys = ks, !.values = vs]
      BY <1>2 DEF Reserve
    <3>2. b \in [length : 0..MaxWord, capacity : 0..MaxWord, keys : Seq(Cells), values : Seq(Cells)]
      BY DEF Blocks
    <3> HIDE DEF n, ks, vs, g
    <3> QED
      BY <3>1, <3>2
  <2> HIDE DEF n, ks, vs, g
  <2>6. g \in Blocks
    BY <2>2, <2>3, <2>4, <2>5, BlockFields DEF Blocks
  <2> QED
    BY <2>2, <2>3, <2>4, <2>5, <2>6 DEF g
<1> QED
  BY <1>1, <1>2

-----------------------------------------------------------------------------
(* Arrays *)

\* Cells that agree hold the same.
LEMMA ColumnKept ==
    ASSUME NEW cells, NEW others, NEW n \in Nat, \A i \in 1..n : others[i] = cells[i]
    PROVE  /\ Column(others, n) = Column(cells, n)
           /\ Distinct(others, n) <=> Distinct(cells, n)
BY DEF Column, Distinct

\* An element written behind the cells in use.
LEMMA ColumnAppend ==
    ASSUME NEW cells \in Seq(Cells), NEW n \in Nat, n + 1 <= Len(cells), NEW x \in Cells
    PROVE  LET r == [cells EXCEPT ![n + 1] = x]
           IN  /\ r \in Seq(Cells) /\ Len(r) = Len(cells)
               /\ Column(r, n + 1) = Column(cells, n) \cup {x}
               /\ Distinct(cells, n) /\ x \notin Column(cells, n) => Distinct(r, n + 1)
<1> DEFINE r == [cells EXCEPT ![n + 1] = x]
<1>1. Len(cells) \in Nat /\ n + 1 \in 1..Len(cells)
  BY LenProperties
<1>2. /\ r \in Seq(Cells) /\ Len(r) = Len(cells)
      /\ \A i \in 1..Len(cells) : r[i] = IF i = n + 1 THEN x ELSE cells[i]
  BY <1>1, ExceptSeq
<1> HIDE DEF r
<1>3. r[n + 1] = x /\ \A i \in 1..n : r[i] = cells[i]
  BY <1>1, <1>2
<1>4. 1..(n + 1) = 1..n \cup {n + 1}
  OBVIOUS
<1>5. Column(r, n + 1) = Column(cells, n) \cup {x}
  BY <1>3, <1>4 DEF Column
<1>6. ASSUME Distinct(cells, n), x \notin Column(cells, n) PROVE Distinct(r, n + 1)
  BY <1>3, <1>4, <1>6 DEF Distinct, Column
<1> QED
  BY <1>2, <1>5, <1>6 DEF r

\* An element written over one in use.
LEMMA ColumnReplace ==
    ASSUME NEW cells \in Seq(Cells), NEW n \in Nat, n <= Len(cells), Distinct(cells, n),
           NEW k \in 1..n, NEW x \in Cells, x \notin Column(cells, n)
    PROVE  LET r == [cells EXCEPT ![k] = x]
           IN  /\ r \in Seq(Cells) /\ Len(r) = Len(cells)
               /\ Column(r, n) = (Column(cells, n) \ {cells[k]}) \cup {x}
               /\ Distinct(r, n)
<1> DEFINE r == [cells EXCEPT ![k] = x]
<1>1. Len(cells) \in Nat /\ k \in 1..Len(cells)
  BY LenProperties
<1>2. /\ r \in Seq(Cells) /\ Len(r) = Len(cells)
      /\ \A i \in 1..Len(cells) : r[i] = IF i = k THEN x ELSE cells[i]
  BY <1>1, ExceptSeq
<1> HIDE DEF r
<1>3. \A i \in 1..n : r[i] = IF i = k THEN x ELSE cells[i]
  BY <1>1, <1>2
<1>4. Column(r, n) = (Column(cells, n) \ {cells[k]}) \cup {x}
  BY <1>3 DEF Column, Distinct
<1>5. Distinct(r, n)
  BY <1>3 DEF Column, Distinct
<1> QED
  BY <1>2, <1>4, <1>5 DEF r

\* The memmove of a removal closes the gap at i.
LEMMA ColumnClose ==
    ASSUME NEW cells \in Seq(Cells), NEW n \in Nat, n <= Len(cells), NEW i \in 0..(n - 1)
    PROVE  LET r == CloseGap(cells, i, n)
           IN  /\ r \in Seq(Cells) /\ Len(r) = Len(cells)
               /\ Distinct(cells, n) =>
                     /\ Column(r, n - 1) = Column(cells, n) \ {cells[i + 1]}
                     /\ Distinct(r, n - 1)
<1> DEFINE r == CloseGap(cells, i, n)
<1>1. Len(cells) \in Nat /\ DOMAIN cells = 1..Len(cells)
      /\ \A j \in 1..Len(cells) : cells[j] \in Cells
  BY LenProperties, ElementOfSeq
<1>2. /\ DOMAIN r = 1..Len(cells)
      /\ \A j \in 1..Len(cells) : r[j] = IF j > i /\ j < n THEN cells[j + 1] ELSE cells[j]
  BY <1>1 DEF CloseGap
<1>3. r \in [1..Len(cells) -> Cells]
  BY <1>1 DEF CloseGap
<1>4. r \in Seq(Cells) /\ Len(r) = Len(cells)
  BY <1>1, <1>3, SeqDef
<1> HIDE DEF r
<1>5. \A j \in 1..(n - 1) : r[j] = IF j > i THEN cells[j + 1] ELSE cells[j]
  BY <1>1, <1>2
<1>6. ASSUME Distinct(cells, n)
      PROVE  Column(r, n - 1) = Column(cells, n) \ {cells[i + 1]} /\ Distinct(r, n - 1)
  <2>1. ASSUME NEW j \in 1..(n - 1)
        PROVE  r[j] \in Column(cells, n) \ {cells[i + 1]}
    BY <1>5, <1>6 DEF Column, Distinct
  <2>2. ASSUME NEW j \in 1..n, cells[j] # cells[i + 1]
        PROVE  cells[j] \in Column(r, n - 1)
    <3>1. CASE j <= i
      <4>1. j \in 1..(n - 1) /\ r[j] = cells[j]
        BY <1>5, <3>1
      <4> QED
        BY <4>1 DEF Column
    <3>2. CASE j > i + 1
      <4>1. j - 1 \in 1..(n - 1) /\ r[j - 1] = cells[j]
        BY <1>5, <3>2
      <4> QED
        BY <4>1 DEF Column
    <3> QED
      BY <2>2, <3>1, <3>2
  <2>3. Distinct(r, n - 1)
    BY <1>5, <1>6 DEF Distinct
  <2> QED
    BY <2>1, <2>2, <2>3 DEF Column
<1> QED
  BY <1>4, <1>6 DEF r

\* The memmove of an insertion opens a gap at i, which the new element fills.
LEMMA ColumnOpen ==
    ASSUME NEW cells \in Seq(Cells), NEW n \in Nat, n + 1 <= Len(cells), NEW i \in 0..n,
           NEW x \in Cells
    PROVE  LET r == [OpenGap(cells, i, n) EXCEPT ![i + 1] = x]
           IN  /\ r \in Seq(Cells) /\ Len(r) = Len(cells)
               /\ Column(r, n + 1) = Column(cells, n) \cup {x}
               /\ Distinct(cells, n) /\ x \notin Column(cells, n) => Distinct(r, n + 1)
<1> DEFINE o == OpenGap(cells, i, n)
           r == [o EXCEPT ![i + 1] = x]
<1>1. Len(cells) \in Nat /\ DOMAIN cells = 1..Len(cells)
      /\ \A j \in 1..Len(cells) : cells[j] \in Cells
  BY LenProperties, ElementOfSeq
<1>2. /\ o \in [1..Len(cells) -> Cells]
      /\ \A j \in 1..Len(cells) : o[j] = IF j > i + 1 /\ j <= n + 1 THEN cells[j - 1] ELSE cells[j]
  BY <1>1 DEF OpenGap
<1> HIDE DEF o
<1>3. r \in [1..Len(cells) -> Cells]
  BY <1>2
<1>4. \A j \in 1..(n + 1) : r[j] = IF j = i + 1 THEN x
                                   ELSE IF j > i + 1 THEN cells[j - 1] ELSE cells[j]
  BY <1>1, <1>2
<1> HIDE DEF r
<1>5. r \in Seq(Cells) /\ Len(r) = Len(cells)
  BY <1>1, <1>3, SeqDef
<1>6. Column(r, n + 1) = Column(cells, n) \cup {x}
  <2>1. ASSUME NEW j \in 1..(n + 1) PROVE r[j] \in Column(cells, n) \cup {x}
    BY <1>4 DEF Column
  <2>2. x \in Column(r, n + 1)
    <3>1. i + 1 \in 1..(n + 1) /\ r[i + 1] = x
      BY <1>4
    <3> QED
      BY <3>1 DEF Column
  <2>3. ASSUME NEW j \in 1..n PROVE cells[j] \in Column(r, n + 1)
    <3>1. CASE j <= i
      <4>1. j \in 1..(n + 1) /\ r[j] = cells[j]
        BY <1>4, <3>1
      <4> QED
        BY <4>1 DEF Column
    <3>2. CASE j > i
      <4>1. j + 1 \in 1..(n + 1) /\ r[j + 1] = cells[j]
        BY <1>4, <3>2
      <4> QED
        BY <4>1 DEF Column
    <3> QED
      BY <3>1, <3>2
  <2> QED
    BY <2>1, <2>2, <2>3 DEF Column
<1>7. ASSUME Distinct(cells, n), x \notin Column(cells, n) PROVE Distinct(r, n + 1)
  BY <1>4, <1>7 DEF Distinct, Column
<1> QED
  BY <1>5, <1>6, <1>7 DEF r, o

-----------------------------------------------------------------------------
(* Blocks and their owners *)

\* el_map_find and el_set_find answer with an index in use or with none.
LEMMA FindInUse ==
    ASSUME NEW stored, NEW b \in Blocks, NEW key
    PROVE  FindAmong(stored, b, key) \in -1..(b.length - 1)
<1> DEFINE found == {i \in 1..b.length : /\ HashOf(stored[b.keys[i]]) = HashOf(key)
                                         /\ Equals(stored[b.keys[i]], key)}
<1>1. b.length \in Nat /\ found \subseteq 1..b.length
  BY BlockFields
<1>2. FindAmong(stored, b, key)
         = IF found = {} THEN -1 ELSE (CHOOSE i \in found : \A j \in found : i <= j) - 1
  BY DEF FindAmong
<1> HIDE DEF found
<1>3. CASE found = {}
  BY <1>1, <1>2, <1>3
<1>4. CASE found # {}
  <2>1. \E i \in found : \A j \in found : i <= j
    <3>1. found \subseteq Nat
      BY <1>1
    <3> QED
      BY <1>4, <3>1, FirstIndex
  <2> DEFINE least == CHOOSE i \in found : \A j \in found : i <= j
  <2>2. least \in found
    BY <2>1
  <2>3. FindAmong(stored, b, key) = least - 1
    BY <1>2, <1>4
  <2> HIDE DEF least
  <2> QED
    BY <1>1, <2>2, <2>3
<1> QED
  BY <1>3, <1>4

\* Two arrays one after the other: keys and values, and the operands of a
\* concatenation.
LEMMA ColumnJoin ==
    ASSUME NEW xs \in Seq(Cells), NEW k \in Nat, k <= Len(xs), Distinct(xs, k),
           NEW ys \in Seq(Cells), NEW v \in Nat, v <= Len(ys), Distinct(ys, v),
           Column(xs, k) \cap Column(ys, v) = {}
    PROVE  LET u == SubSeq(xs, 1, k) \o SubSeq(ys, 1, v)
           IN  /\ u \in Seq(Cells) /\ Len(u) = k + v /\ DOMAIN u = 1..(k + v)
               /\ Distinct(u, k + v) /\ Column(u, k + v) = Column(xs, k) \cup Column(ys, v)
<1> DEFINE ks == SubSeq(xs, 1, k)
           vs == SubSeq(ys, 1, v)
           u == ks \o vs
<1>1. ks \in Seq(Cells) /\ Len(ks) = k /\ \A i \in 1..k : ks[i] = xs[i]
  <2>1. \A i \in 1..k : xs[i] \in Cells
    BY ElementOfSeq, LenProperties
  <2> QED
    BY <2>1, SubSeqProperties
<1>2. vs \in Seq(Cells) /\ Len(vs) = v /\ \A i \in 1..v : vs[i] = ys[i]
  <2>1. \A i \in 1..v : ys[i] \in Cells
    BY ElementOfSeq, LenProperties
  <2> QED
    BY <2>1, SubSeqProperties
<1> HIDE DEF ks, vs
<1>3. /\ u \in Seq(Cells) /\ Len(u) = k + v
      /\ \A i \in 1..(k + v) : u[i] = IF i <= k THEN ks[i] ELSE vs[i - k]
  <2>1. /\ ks \o vs \in Seq(Cells) /\ Len(ks \o vs) = Len(ks) + Len(vs)
        /\ \A i \in 1..(Len(ks) + Len(vs)) :
              (ks \o vs)[i] = IF i <= Len(ks) THEN ks[i] ELSE vs[i - Len(ks)]
    <3>1. ks \in Seq(Cells) /\ vs \in Seq(Cells)
      BY <1>1, <1>2
    <3> QED
      BY <3>1, ConcatProperties
  <2> QED
    BY <1>1, <1>2, <2>1
<1> HIDE DEF u
<1>4. DOMAIN u = 1..(k + v)
  BY <1>3, LenProperties
<1>5. \A i \in 1..(k + v) : \/ i \in 1..k /\ u[i] = xs[i]
                            \/ ~(i \in 1..k) /\ i - k \in 1..v /\ u[i] = ys[i - k]
  BY <1>1, <1>2, <1>3
<1>6. ASSUME NEW i \in 1..(k + v), NEW j \in 1..(k + v), u[i] = u[j] PROVE i = j
  <2>1. CASE i \in 1..k /\ j \in 1..k
    BY <1>5, <1>6, <2>1 DEF Distinct
  <2>2. CASE ~(i \in 1..k) /\ ~(j \in 1..k)
    <3>1. i - k \in 1..v /\ j - k \in 1..v /\ ys[i - k] = ys[j - k]
      BY <1>5, <1>6, <2>2
    <3>2. i - k = j - k
      BY <3>1 DEF Distinct
    <3> QED
      BY <3>2
  <2>3. /\ i \in 1..k => u[i] \in Column(xs, k)
        /\ j \in 1..k => u[j] \in Column(xs, k)
        /\ ~(i \in 1..k) => u[i] \in Column(ys, v)
        /\ ~(j \in 1..k) => u[j] \in Column(ys, v)
    <3>1. (\A x \in 1..k : xs[x] \in Column(xs, k)) /\ \A x \in 1..v : ys[x] \in Column(ys, v)
      BY DEF Column
    <3> QED
      BY <1>5, <3>1
  <2>4. (i \in 1..k) <=> (j \in 1..k)
    BY <1>6, <2>3
  <2> QED
    BY <2>1, <2>2, <2>4
<1>7. Column(u, k + v) = Column(xs, k) \cup Column(ys, v)
  <2>1. \A i \in 1..(k + v) : u[i] \in Column(xs, k) \cup Column(ys, v)
    BY <1>5 DEF Column
  <2>2. ASSUME NEW i \in 1..k PROVE xs[i] \in Column(u, k + v)
    <3>1. i \in 1..(k + v) /\ u[i] = xs[i]
      BY <1>1, <1>3
    <3> QED
      BY <3>1 DEF Column
  <2>3. ASSUME NEW i \in 1..v PROVE ys[i] \in Column(u, k + v)
    <3>1. k + i \in 1..(k + v) /\ ~(k + i <= k) /\ (k + i) - k = i
      OBVIOUS
    <3>2. u[k + i] = ys[i]
      BY <1>2, <1>3, <3>1
    <3> QED
      BY <3>1, <3>2 DEF Column
  <2>4. Column(xs, k) \subseteq Column(u, k + v) /\ Column(ys, v) \subseteq Column(u, k + v)
    <3>1. \A x \in Column(xs, k) : \E i \in 1..k : x = xs[i]
      BY DEF Column
    <3>2. \A x \in Column(ys, v) : \E i \in 1..v : x = ys[i]
      BY DEF Column
    <3> QED
      BY <2>2, <2>3, <3>1, <3>2
  <2>5. Column(u, k + v) \subseteq Column(xs, k) \cup Column(ys, v)
    <3>1. \A x \in Column(u, k + v) : \E i \in 1..(k + v) : x = u[i]
      BY DEF Column
    <3> QED
      BY <2>1, <3>1
  <2> QED
    BY <2>4, <2>5
<1>8. Distinct(u, k + v)
  BY <1>6 DEF Distinct
<1> QED
  BY <1>3, <1>4, <1>7, <1>8 DEF u, ks, vs

\* The cells in use, in the order in which clear and drop visit them, are the
\* resources of the block, each once.
LEMMA UsedCells ==
    ASSUME kind \in {"vec", "map", "set"}, NEW b \in Blocks, Separate(b)
    PROVE  /\ Used(b) \in Seq(Cells) /\ Len(Used(b)) <= 2 * MaxWord
           /\ DOMAIN Used(b) = 1..Len(Used(b))
           /\ Len(Used(b)) = IF kind = "map" THEN 2 * b.length ELSE b.length
           /\ \A i, j \in DOMAIN Used(b) : Used(b)[i] = Used(b)[j] => i = j
           /\ {Used(b)[i] : i \in DOMAIN Used(b)} = Owned(b)
<1> DEFINE k == IF kind = "vec" THEN 0 ELSE b.length
           v == IF kind = "set" THEN 0 ELSE b.length
           u == SubSeq(b.keys, 1, k) \o SubSeq(b.values, 1, v)
<1>1. /\ k \in Nat /\ v \in Nat /\ k <= b.capacity /\ v <= b.capacity
      /\ b.capacity \in Nat /\ b.capacity <= MaxWord /\ MaxWord \in Nat
  BY BlockFields
<1>2. /\ Distinct(b.keys, k) /\ Distinct(b.values, v)
      /\ Column(b.keys, k) \cap Column(b.values, v) = {}
      /\ Owned(b) = Column(b.keys, k) \cup Column(b.values, v)
  <2>1. \A cells : Column(cells, 0) = {} /\ Distinct(cells, 0)
    BY DEF Column, Distinct
  <2>2. CASE kind = "vec"
    BY <2>1, <2>2 DEF Separate, Owned, HasKeys, HasValues
  <2>3. CASE kind = "set"
    BY <2>1, <2>3 DEF Separate, Owned, HasKeys, HasValues
  <2>4. CASE kind = "map"
    BY <2>4 DEF Separate, Owned, HasKeys, HasValues
  <2> QED
    BY <2>2, <2>3, <2>4
<1>3. Used(b) = u /\ k + v = IF kind = "map" THEN 2 * b.length ELSE b.length
  BY BlockFields DEF Used
<1> HIDE DEF k, v
<1>4. /\ u \in Seq(Cells) /\ Len(u) = k + v /\ DOMAIN u = 1..(k + v)
      /\ Distinct(u, k + v) /\ Column(u, k + v) = Owned(b)
  BY <1>1, <1>2, BlockFields, ColumnJoin
<1> HIDE DEF u
<1>5. Len(u) <= 2 * MaxWord
  BY <1>1, <1>4
<1> QED
  BY <1>3, <1>4, <1>5 DEF Distinct, Column

\* What is dropped after a call is what was and D.
Marked(D) ==
    /\ dropped' \in [DOMAIN what' -> {0, 1}]
    /\ {r \in DOMAIN what' : dropped'[r] = 1} = Dropped \cup D

\* What the drop glue of a call leaves dropped.
LEMMA DroppingMarks ==
    ASSUME IInv, Resources \subseteq DOMAIN what', NEW rs, NEW n \in Nat, DOMAIN rs = 1..n,
           \A i, j \in 1..n : rs[i] = rs[j] => i = j,
           \A i \in 1..n : rs[i] \in DOMAIN what' \ Dropped,
           dropped' = Dropping(rs)
    PROVE  Marked({rs[i] : i \in 1..n})
<1>1. dropped \in [Resources -> {0, 1}]
  BY DEF IInv
<1>2. ASSUME NEW r \in DOMAIN what'
      PROVE  dropped'[r] = IF r \in Dropped \cup {rs[i] : i \in 1..n} THEN 1 ELSE 0
  <2> DEFINE at == {i \in DOMAIN rs : rs[i] = r}
  <2>1. dropped'[r] = (IF r \in DOMAIN dropped THEN dropped[r] ELSE 0) + Cardinality(at)
    BY DEF Dropping
  <2>2. (IF r \in DOMAIN dropped THEN dropped[r] ELSE 0) = IF r \in Dropped THEN 1 ELSE 0
    BY <1>1 DEF Dropped
  <2>3. CASE r \in {rs[i] : i \in 1..n}
    <3>1. PICK i \in 1..n : rs[i] = r
      BY <2>3
    <3>2. at = {i} /\ r \notin Dropped
      BY <3>1
    <3>3. Cardinality({i}) = 1
      BY FS_Singleton
    <3> HIDE DEF at
    <3> QED
      BY <2>1, <2>2, <2>3, <3>2, <3>3
  <2>4. CASE r \notin {rs[i] : i \in 1..n}
    <3>1. at = {}
      BY <2>4
    <3>2. Cardinality({}) = 0
      BY FS_EmptySet
    <3> HIDE DEF at
    <3> QED
      BY <2>1, <2>2, <2>4, <3>1, <3>2
  <2> QED
    BY <2>3, <2>4
<1>3. dropped' = [r \in DOMAIN what' |-> dropped'[r]]
  BY DEF Dropping
<1>4. Dropped \subseteq DOMAIN what'
  BY DEF Dropped
<1> QED
  BY <1>2, <1>3, <1>4 DEF Marked

\* A call exchanges the resources of c: what it held and what is created (made)
\* is in the block b, dropped (D), returned (O) or overwritten (W), each in one way.
Exchanged(c, b, made, D, O, W) ==
    LET X == IF b = Absent THEN {} ELSE Owned(b)
    IN  /\ kind' = kind /\ made \in Seq(Things) /\ what' = what \o made
        /\ b \in Blocks \cup {Absent} /\ (b # Absent => Separate(b))
        /\ block' = [block EXCEPT ![c] = b]
        /\ Marked(D) /\ out' = out \cup O /\ overwritten' = overwritten \cup W
        /\ X \cup D \cup O \cup W
              = OwnedBy(c) \cup ((Len(what) + 1)..(Len(what) + Len(made)))
        /\ X \cap D = {} /\ X \cap O = {} /\ X \cap W = {}
        /\ D \cap O = {} /\ D \cap W = {} /\ O \cap W = {}

LEMMA Exchange ==
    ASSUME IInv, NEW c \in Names, NEW b, NEW made, NEW D, NEW O, NEW W,
           Exchanged(c, b, made, D, O, W)
    PROVE  IInv'
<1> DEFINE X == IF b = Absent THEN {} ELSE Owned(b)
<1>0. /\ kind' = kind /\ made \in Seq(Things) /\ what' = what \o made
      /\ b \in Blocks \cup {Absent} /\ (b # Absent => Separate(b))
      /\ block' = [block EXCEPT ![c] = b]
      /\ dropped' \in [DOMAIN what' -> {0, 1}]
      /\ {r \in DOMAIN what' : dropped'[r] = 1} = Dropped \cup D
      /\ out' = out \cup O /\ overwritten' = overwritten \cup W
      /\ X \cup D \cup O \cup W = OwnedBy(c) \cup ((Len(what) + 1)..(Len(what) + Len(made)))
      /\ X \cap D = {} /\ X \cap O = {} /\ X \cap W = {}
      /\ D \cap O = {} /\ D \cap W = {} /\ O \cap W = {}
  BY DEF Exchanged, Marked
<1>x. X = IF b = Absent THEN {} ELSE Owned(b)
  OBVIOUS
<1> HIDE DEF X
<1> USE <1>0, <1>x
<1> DEFINE F == (Len(what) + 1)..(Len(what) + Len(made))
           Rest == UNION {OwnedBy(d) : d \in Names \ {c}}
<1>1. /\ kind \in {"vec", "map", "set"} /\ what \in Seq(Things)
      /\ dropped \in [Resources -> {0, 1}] /\ block \in [Names -> Blocks \cup {Absent}]
      /\ \A d \in Present : Separate(block[d])
      /\ Partition
  BY DEF IInv
<1>2. /\ what' \in Seq(Things) /\ Len(what) \in Nat /\ Len(made) \in Nat
      /\ Resources = 1..Len(what) /\ DOMAIN what' = 1..(Len(what) + Len(made))
  BY <1>1, ConcatProperties, LenProperties DEF Resources
<1>3. DOMAIN what' = Resources \cup F /\ Resources \cap F = {}
  BY <1>2
<1> HIDE DEF F
<1>4. OwnedBy(c)' = X /\ \A d \in Names \ {c} : OwnedBy(d)' = OwnedBy(d)
  <2>1. block'[c] = b /\ \A d \in Names \ {c} : block'[d] = block[d]
    BY <1>1
  <2>2. HasKeys' = HasKeys /\ HasValues' = HasValues
    BY DEF HasKeys, HasValues
  <2>3. Owned(block[c])' = Owned(block'[c]) /\ \A d \in Names : Owned(block[d])' = Owned(block'[d])
    BY <2>2 DEF Owned
  <2> QED
    BY <2>1, <2>3 DEF OwnedBy
<1>5. /\ Held = Rest \cup OwnedBy(c) /\ Rest \cap OwnedBy(c) = {}
      /\ Held' = Rest \cup X
  <2>1. Held = Rest \cup OwnedBy(c)
    BY DEF Held
  <2>2. Rest \cap OwnedBy(c) = {}
    BY <1>1 DEF Partition
  <2>3. Held' = UNION {OwnedBy(d)' : d \in Names}
    BY DEF Held
  <2>4. UNION {OwnedBy(d)' : d \in Names} = Rest \cup X
    BY <1>4
  <2> QED
    BY <2>1, <2>2, <2>3, <2>4
<1>6. Rest \cap X = {} /\ Rest \subseteq Resources /\ OwnedBy(c) \subseteq Resources
  <2>1. Held \subseteq Resources /\ X \subseteq OwnedBy(c) \cup F
    BY <1>1 DEF Partition, F
  <2> QED
    BY <1>3, <1>5, <2>1
<1>7. \A d, e \in Names : d # e => OwnedBy(d)' \cap OwnedBy(e)' = {}
  <2>1. \A d \in Names \ {c} : OwnedBy(d) \subseteq Rest
    OBVIOUS
  <2>2. ASSUME NEW d \in Names, NEW e \in Names, d # e PROVE OwnedBy(d)' \cap OwnedBy(e)' = {}
    <3>1. CASE d = c
      BY <1>4, <1>6, <2>1, <2>2, <3>1
    <3>2. CASE e = c
      BY <1>4, <1>6, <2>1, <2>2, <3>2
    <3>3. CASE d # c /\ e # c
      BY <1>1, <1>4, <2>2, <3>3 DEF Partition
    <3> QED
      BY <3>1, <3>2, <3>3
  <2> QED
    BY <2>2
<1>8. Partition'
  <2> DEFINE H == OwnedBy(c)
  <2>1. /\ Resources' = Resources \cup F
        /\ Dropped' = Dropped \cup D /\ out' = out \cup O /\ overwritten' = overwritten \cup W
    BY <1>3 DEF Dropped, Resources
  <2>2. /\ Rest \cup H \cup Dropped \cup out \cup overwritten = Resources
        /\ (Rest \cup H) \cap Dropped = {} /\ (Rest \cup H) \cap out = {}
        /\ (Rest \cup H) \cap overwritten = {}
        /\ Dropped \cap out = {} /\ Dropped \cap overwritten = {} /\ out \cap overwritten = {}
    BY <1>1, <1>5 DEF Partition
  <2>3. X \cup D \cup O \cup W = H \cup F /\ H \cap Rest = {} /\ Resources \cap F = {}
    BY <1>3, <1>5 DEF F
  <2> HIDE DEF H, Rest
  <2>4. (Rest \cup X) \cup (Dropped \cup D) \cup (out \cup O) \cup (overwritten \cup W)
           = Resources \cup F
    BY <2>2, <2>3
  <2>5. /\ (Rest \cup Dropped \cup out \cup overwritten) \cap (H \cup F) = {}
        /\ Rest \cap Dropped = {} /\ Rest \cap out = {} /\ Rest \cap overwritten = {}
    BY <2>2, <2>3
  <2>6. /\ (Rest \cup X) \cap (Dropped \cup D) = {} /\ (Rest \cup X) \cap (out \cup O) = {}
        /\ (Rest \cup X) \cap (overwritten \cup W) = {}
    BY <2>3, <2>5
  <2>7. /\ (Dropped \cup D) \cap (out \cup O) = {}
        /\ (Dropped \cup D) \cap (overwritten \cup W) = {}
        /\ (out \cup O) \cap (overwritten \cup W) = {}
    BY <2>2, <2>3, <2>5
  <2> QED
    BY <1>5, <1>7, <2>1, <2>4, <2>6, <2>7 DEF Partition
<1>9. block' \in [Names -> Blocks \cup {Absent}]
  BY <1>1
<1>10. \A d \in Present' : Separate(block[d])'
  <2>1. block'[c] = b /\ \A d \in Names \ {c} : block'[d] = block[d]
    BY <1>1
  <2> SUFFICES ASSUME NEW d \in Names, block'[d] # Absent PROVE Separate(block[d])'
    BY DEF Present
  <2>2. CASE d = c
    BY <2>1, <2>2 DEF Separate, HasKeys, HasValues
  <2>3. CASE d # c
    BY <1>1, <2>1, <2>3 DEF Present, Separate, HasKeys, HasValues
  <2> QED
    BY <2>2, <2>3
<1>11. dropped' \in [Resources' -> {0, 1}] /\ kind' \in {"vec", "map", "set"}
  BY <1>1 DEF Resources
<1> QED
  BY <1>2, <1>8, <1>9, <1>10, <1>11 DEF IInv

-----------------------------------------------------------------------------
(* What the calls make of a block *)

\* A block from its fields.
LEMMA BlockMade ==
    ASSUME kind \in {"vec", "map", "set"},
           NEW n \in Nat, NEW m \in Nat, n <= m, m <= MaxWord,
           NEW ks \in Seq(Cells), NEW vs \in Seq(Cells), Len(ks) = m, Len(vs) = m,
           HasKeys => Distinct(ks, n), HasValues => Distinct(vs, n),
           HasKeys /\ HasValues => Column(ks, n) \cap Column(vs, n) = {}
    PROVE  LET r == [length |-> n, capacity |-> m, keys |-> ks, values |-> vs]
           IN  /\ r \in Blocks /\ Separate(r)
               /\ Owned(r) = (IF HasKeys THEN Column(ks, n) ELSE {})
                                \cup (IF HasValues THEN Column(vs, n) ELSE {})
<1> DEFINE r == [length |-> n, capacity |-> m, keys |-> ks, values |-> vs]
<1>1. n \in 0..MaxWord /\ m \in 0..MaxWord
  BY CollectionsAssumption
<1>2. r \in Blocks
  BY <1>1 DEF Blocks
<1>3. Separate(r)
  BY DEF Separate
<1>4. Owned(r) = (IF HasKeys THEN Column(ks, n) ELSE {}) \cup (IF HasValues THEN Column(vs, n) ELSE {})
  BY DEF Owned
<1> QED
  BY <1>2, <1>3, <1>4

\* VecInsert.
LEMMA VecGrown ==
    ASSUME kind = "vec", NEW b \in Blocks, Separate(b), b.length < MaxWord,
           NEW i \in 0..b.length, NEW x \in Cells, x \notin Owned(b)
    PROVE  LET r == [Reserve(b, b.length + 1) EXCEPT !.length = @ + 1,
                        !.values = [OpenGap(@, i, b.length) EXCEPT ![i + 1] = x]]
           IN  r \in Blocks /\ Separate(r) /\ Owned(r) = Owned(b) \cup {x}
<1> DEFINE g == Reserve(b, b.length + 1)
           n == b.length
           r == [g EXCEPT !.length = @ + 1, !.values = [OpenGap(@, i, n) EXCEPT ![i + 1] = x]]
<1>1. ~HasKeys /\ HasValues
  BY DEF HasKeys, HasValues
<1>2. n \in Nat /\ n + 1 \in 1..MaxWord
  BY BlockFields
<1>3. /\ g \in Blocks /\ g.length = n /\ n + 1 <= g.capacity
      /\ \A j \in 1..n : g.values[j] = b.values[j]
  BY <1>2, ReserveGrows
<1> HIDE DEF g
<1> DEFINE vs == [OpenGap(g.values, i, n) EXCEPT ![i + 1] = x]
<1>4. Distinct(g.values, n) /\ Column(g.values, n) = Owned(b)
  BY <1>1, <1>2, <1>3, ColumnKept DEF Separate, Owned
<1>5. vs \in Seq(Cells) /\ Len(vs) = g.capacity /\ Column(vs, n + 1) = Owned(b) \cup {x} /\ Distinct(vs, n + 1)
  BY <1>2, <1>3, <1>4, BlockFields, ColumnOpen
<1>6. r = [length |-> n + 1, capacity |-> g.capacity, keys |-> g.keys, values |-> vs]
  <2>1. g \in [length : 0..MaxWord, capacity : 0..MaxWord, keys : Seq(Cells), values : Seq(Cells)]
    BY <1>3 DEF Blocks
  <2>2. r = [g EXCEPT !.length = n + 1, !.values = vs]
    BY <1>3
  <2> HIDE DEF vs, r
  <2> QED
    BY <2>1, <2>2
<1> HIDE DEF vs, r
<1>7. /\ g.capacity \in Nat /\ g.capacity <= MaxWord /\ g.keys \in Seq(Cells)
      /\ Len(g.keys) = g.capacity
  BY <1>3, BlockFields
<1>8. r \in Blocks /\ Separate(r) /\ Owned(r) = Owned(b) \cup {x}
  BY <1>1, <1>2, <1>3, <1>5, <1>6, <1>7, BlockMade
<1> QED
  BY <1>8 DEF r, g, n

\* MapInsert of a new key and AddEntry.
LEMMA EntryAppended ==
    ASSUME kind \in {"map", "set"}, NEW b \in Blocks, Separate(b), b.length < MaxWord,
           NEW k \in Cells, NEW v \in Cells, k \notin Owned(b),
           kind = "map" => v \notin Owned(b) /\ v # k
    PROVE  LET r == [Reserve(b, b.length + 1) EXCEPT !.length = @ + 1,
                        !.keys[b.length + 1] = k, !.values[b.length + 1] = v]
           IN  /\ r \in Blocks /\ Separate(r) /\ r.length = b.length + 1
               /\ Owned(r) = Owned(b) \cup (IF kind = "map" THEN {k, v} ELSE {k})
<1> DEFINE g == Reserve(b, b.length + 1)
           n == b.length
           r == [g EXCEPT !.length = @ + 1, !.keys[n + 1] = k, !.values[n + 1] = v]
<1>1. HasKeys /\ (HasValues <=> kind = "map")
  BY DEF HasKeys, HasValues
<1>2. n \in Nat /\ n + 1 \in 1..MaxWord
  BY BlockFields
<1>3. /\ g \in Blocks /\ g.length = n /\ n + 1 <= g.capacity
      /\ \A j \in 1..n : g.keys[j] = b.keys[j]
      /\ \A j \in 1..n : g.values[j] = b.values[j]
  BY <1>2, ReserveGrows
<1> HIDE DEF g
<1> DEFINE ks == [g.keys EXCEPT ![n + 1] = k]
           vs == [g.values EXCEPT ![n + 1] = v]
<1>4. /\ Column(g.keys, n) = Column(b.keys, n) /\ Column(g.values, n) = Column(b.values, n)
      /\ Distinct(g.keys, n) /\ (HasValues => Distinct(g.values, n))
  BY <1>1, <1>2, <1>3, ColumnKept DEF Separate
<1>5. /\ k \notin Column(b.keys, n)
      /\ HasValues => /\ k \notin Column(b.values, n) /\ v \notin Column(b.keys, n)
                      /\ v \notin Column(b.values, n) /\ v # k
                      /\ Column(b.keys, n) \cap Column(b.values, n) = {}
  BY <1>1 DEF Owned, Separate
<1>6. /\ ks \in Seq(Cells) /\ Len(ks) = g.capacity /\ Column(ks, n + 1) = Column(b.keys, n) \cup {k}
      /\ Distinct(ks, n + 1)
  BY <1>2, <1>3, <1>4, <1>5, BlockFields, ColumnAppend
<1>7. /\ vs \in Seq(Cells) /\ Len(vs) = g.capacity
      /\ Column(vs, n + 1) = Column(b.values, n) \cup {v}
      /\ HasValues => Distinct(vs, n + 1)
  BY <1>2, <1>3, <1>4, <1>5, BlockFields, ColumnAppend
<1>8. r = [length |-> n + 1, capacity |-> g.capacity, keys |-> ks, values |-> vs]
  <2>1. g \in [length : 0..MaxWord, capacity : 0..MaxWord, keys : Seq(Cells), values : Seq(Cells)]
    BY <1>3 DEF Blocks
  <2>2. r = [g EXCEPT !.length = n + 1, !.keys = ks, !.values = vs]
    BY <1>3
  <2> HIDE DEF ks, vs, r
  <2> QED
    BY <2>1, <2>2
<1> HIDE DEF vs, ks, r
<1>9. g.capacity \in Nat /\ g.capacity <= MaxWord
  BY <1>3, BlockFields
<1>10. HasKeys /\ HasValues => Column(ks, n + 1) \cap Column(vs, n + 1) = {}
  BY <1>5, <1>6, <1>7
<1>11. /\ r \in Blocks /\ Separate(r) /\ r.length = n + 1
       /\ Owned(r) = (IF HasKeys THEN Column(ks, n + 1) ELSE {})
                        \cup (IF HasValues THEN Column(vs, n + 1) ELSE {})
  BY <1>1, <1>2, <1>3, <1>6, <1>7, <1>8, <1>9, <1>10, BlockMade
<1>12. Owned(r) = Owned(b) \cup (IF kind = "map" THEN {k, v} ELSE {k})
  BY <1>1, <1>6, <1>7, <1>11 DEF Owned
<1> QED
  BY <1>11, <1>12 DEF r, g, n

\* SetInsert of a new element.
LEMMA ElementAppended ==
    ASSUME kind = "set", NEW b \in Blocks, Separate(b), b.length < MaxWord,
           NEW k \in Cells, k \notin Owned(b)
    PROVE  LET r == [Reserve(b, b.length + 1) EXCEPT !.length = @ + 1, !.keys[b.length + 1] = k]
           IN  r \in Blocks /\ Separate(r) /\ Owned(r) = Owned(b) \cup {k}
<1> DEFINE g == Reserve(b, b.length + 1)
           n == b.length
           r == [g EXCEPT !.length = @ + 1, !.keys[n + 1] = k]
<1>1. HasKeys /\ ~HasValues
  BY DEF HasKeys, HasValues
<1>2. n \in Nat /\ n + 1 \in 1..MaxWord
  BY BlockFields
<1>3. /\ g \in Blocks /\ g.length = n /\ n + 1 <= g.capacity
      /\ \A j \in 1..n : g.keys[j] = b.keys[j]
  BY <1>2, ReserveGrows
<1> HIDE DEF g
<1> DEFINE ks == [g.keys EXCEPT ![n + 1] = k]
<1>4. Distinct(g.keys, n) /\ Column(g.keys, n) = Owned(b)
  BY <1>1, <1>2, <1>3, ColumnKept DEF Separate, Owned
<1>5. ks \in Seq(Cells) /\ Len(ks) = g.capacity /\ Column(ks, n + 1) = Owned(b) \cup {k} /\ Distinct(ks, n + 1)
  BY <1>2, <1>3, <1>4, BlockFields, ColumnAppend
<1>6. r = [length |-> n + 1, capacity |-> g.capacity, keys |-> ks, values |-> g.values]
  <2>1. g \in [length : 0..MaxWord, capacity : 0..MaxWord, keys : Seq(Cells), values : Seq(Cells)]
    BY <1>3 DEF Blocks
  <2>2. r = [g EXCEPT !.length = n + 1, !.keys = ks]
    BY <1>3
  <2> HIDE DEF ks, r
  <2> QED
    BY <2>1, <2>2
<1> HIDE DEF ks, r
<1>7. /\ g.capacity \in Nat /\ g.capacity <= MaxWord /\ g.values \in Seq(Cells)
      /\ Len(g.values) = g.capacity
  BY <1>3, BlockFields
<1>8. r \in Blocks /\ Separate(r) /\ Owned(r) = Owned(b) \cup {k}
  BY <1>1, <1>2, <1>3, <1>5, <1>6, <1>7, BlockMade
<1> QED
  BY <1>8 DEF r, g, n

\* A value written over the value of a present key.
LEMMA ValueReplaced ==
    ASSUME kind = "map", NEW b \in Blocks, Separate(b), NEW i \in 1..b.length,
           NEW x \in Cells, x \notin Owned(b)
    PROVE  LET r == [b EXCEPT !.values[i] = x]
           IN  /\ r \in Blocks /\ Separate(r) /\ r.length = b.length
               /\ Owned(r) = (Owned(b) \ {b.values[i]}) \cup {x} /\ b.values[i] \in Owned(b)
<1> DEFINE n == b.length
           r == [b EXCEPT !.values[i] = x]
           vs == [b.values EXCEPT ![i] = x]
<1>1. HasKeys /\ HasValues
  BY DEF HasKeys, HasValues
<1>2. n \in Nat /\ n <= b.capacity /\ b.capacity \in Nat /\ b.capacity <= MaxWord
  BY BlockFields
<1>3. /\ Distinct(b.keys, n) /\ Distinct(b.values, n)
      /\ Owned(b) = Column(b.keys, n) \cup Column(b.values, n)
      /\ Column(b.keys, n) \cap Column(b.values, n) = {}
  BY <1>1 DEF Separate, Owned
<1>4. /\ vs \in Seq(Cells) /\ Len(vs) = b.capacity /\ Distinct(vs, n)
      /\ Column(vs, n) = (Column(b.values, n) \ {b.values[i]}) \cup {x}
  BY <1>2, <1>3, BlockFields, ColumnReplace
<1>5. r = [length |-> n, capacity |-> b.capacity, keys |-> b.keys, values |-> vs]
  <2>1. b \in [length : 0..MaxWord, capacity : 0..MaxWord, keys : Seq(Cells), values : Seq(Cells)]
    BY DEF Blocks
  <2>2. r = [b EXCEPT !.values = vs]
    BY <1>3
  <2> HIDE DEF vs, r
  <2> QED
    BY <2>1, <2>2
<1> HIDE DEF vs, r
<1>6. b.values[i] \in Column(b.values, n)
  BY DEF Column
<1>7. Column(b.keys, n) \cap Column(vs, n) = {}
  BY <1>3, <1>4
<1>8. b.keys \in Seq(Cells) /\ Len(b.keys) = b.capacity
  BY BlockFields
<1>9. /\ r \in Blocks /\ Separate(r) /\ r.length = n
      /\ Owned(r) = Column(b.keys, n) \cup Column(vs, n)
  BY <1>1, <1>2, <1>3, <1>4, <1>5, <1>7, <1>8, BlockMade
<1>10. Owned(r) = (Owned(b) \ {b.values[i]}) \cup {x}
  BY <1>3, <1>4, <1>6, <1>9
<1> QED
  BY <1>3, <1>6, <1>9, <1>10 DEF r, n

\* MapRemove, SetRemove and VecRemove of the entry at i.
LEMMA EntryRemoved ==
    ASSUME kind = "map", NEW b \in Blocks, Separate(b), NEW i \in 0..(b.length - 1)
    PROVE  LET r == [b EXCEPT !.length = @ - 1, !.keys = CloseGap(@, i, b.length), !.values = CloseGap(@, i, b.length)]
           IN  /\ r \in Blocks /\ Separate(r)
               /\ Owned(r) = Owned(b) \ {b.keys[i + 1], b.values[i + 1]}
               /\ {b.keys[i + 1], b.values[i + 1]} \subseteq Owned(b) /\ b.keys[i + 1] # b.values[i + 1]
<1> DEFINE n == b.length
           r == [b EXCEPT !.length = @ - 1, !.keys = CloseGap(@, i, b.length), !.values = CloseGap(@, i, b.length)]
           ks == CloseGap(b.keys, i, n)
           vs == CloseGap(b.values, i, n)
<1>1. HasKeys /\ HasValues
  BY DEF HasKeys, HasValues
<1>2. /\ n \in Nat /\ n <= b.capacity /\ b.capacity \in Nat /\ b.capacity <= MaxWord
      /\ n - 1 \in Nat /\ n - 1 <= b.capacity /\ i + 1 \in 1..n
  BY BlockFields
<1>3. /\ Distinct(b.keys, n) /\ b.keys[i + 1] \in Column(b.keys, n)
      /\ Distinct(b.values, n) /\ b.values[i + 1] \in Column(b.values, n)
      /\ Column(b.keys, n) \cap Column(b.values, n) = {}
      /\ Owned(b) = Column(b.keys, n) \cup Column(b.values, n)
  BY <1>1, <1>2 DEF Separate, Owned, Column
<1>4. /\ ks \in Seq(Cells) /\ Len(ks) = b.capacity
      /\ vs \in Seq(Cells) /\ Len(vs) = b.capacity
      /\ Column(ks, n - 1) = Column(b.keys, n) \ {b.keys[i + 1]} /\ Distinct(ks, n - 1)
      /\ Column(vs, n - 1) = Column(b.values, n) \ {b.values[i + 1]} /\ Distinct(vs, n - 1)
  BY <1>2, <1>3, BlockFields, ColumnClose
<1>5. r = [length |-> n - 1, capacity |-> b.capacity, keys |-> ks, values |-> vs]
  <2>1. b \in [length : 0..MaxWord, capacity : 0..MaxWord, keys : Seq(Cells), values : Seq(Cells)]
    BY DEF Blocks
  <2>2. r = [b EXCEPT !.length = n - 1, !.keys = ks, !.values = vs]
    OBVIOUS
  <2> HIDE DEF r, ks, vs
  <2> QED
    BY <2>1, <2>2
<1> HIDE DEF ks, vs, r
<1>6. r \in Blocks /\ Separate(r) /\ Owned(r) = Column(ks, n - 1) \cup Column(vs, n - 1)
  <2>1. Column(ks, n - 1) \cap Column(vs, n - 1) = {}
    BY <1>3, <1>4
  <2> QED
    BY <1>1, <1>2, <1>4, <1>5, <2>1, BlockMade
<1>7. Owned(r) = Owned(b) \ {b.keys[i + 1], b.values[i + 1]}
  BY <1>3, <1>4, <1>6
<1> QED
  BY <1>3, <1>6, <1>7 DEF r, n

LEMMA ElementRemoved ==
    ASSUME kind = "set", NEW b \in Blocks, Separate(b), NEW i \in 0..(b.length - 1)
    PROVE  LET r == [b EXCEPT !.length = @ - 1, !.keys = CloseGap(@, i, b.length)]
           IN  /\ r \in Blocks /\ Separate(r)
               /\ Owned(r) = Owned(b) \ {b.keys[i + 1]}
               /\ {b.keys[i + 1]} \subseteq Owned(b)
<1> DEFINE n == b.length
           r == [b EXCEPT !.length = @ - 1, !.keys = CloseGap(@, i, b.length)]
           ks == CloseGap(b.keys, i, n)
           vs == b.values
<1>1. HasKeys /\ ~HasValues
  BY DEF HasKeys, HasValues
<1>2. /\ n \in Nat /\ n <= b.capacity /\ b.capacity \in Nat /\ b.capacity <= MaxWord
      /\ n - 1 \in Nat /\ n - 1 <= b.capacity /\ i + 1 \in 1..n
  BY BlockFields
<1>3. /\ Distinct(b.keys, n) /\ b.keys[i + 1] \in Column(b.keys, n)
      /\ Owned(b) = Column(b.keys, n)
  BY <1>1, <1>2 DEF Separate, Owned, Column
<1>4. /\ ks \in Seq(Cells) /\ Len(ks) = b.capacity
      /\ vs \in Seq(Cells) /\ Len(vs) = b.capacity
      /\ Column(ks, n - 1) = Column(b.keys, n) \ {b.keys[i + 1]} /\ Distinct(ks, n - 1)
  BY <1>2, <1>3, BlockFields, ColumnClose
<1>5. r = [length |-> n - 1, capacity |-> b.capacity, keys |-> ks, values |-> vs]
  <2>1. b \in [length : 0..MaxWord, capacity : 0..MaxWord, keys : Seq(Cells), values : Seq(Cells)]
    BY DEF Blocks
  <2>2. r = [b EXCEPT !.length = n - 1, !.keys = ks]
    OBVIOUS
  <2> HIDE DEF r, ks
  <2> QED
    BY <2>1, <2>2
<1> HIDE DEF ks, vs, r
<1>6. r \in Blocks /\ Separate(r) /\ Owned(r) = Column(ks, n - 1)
  <2>1. /\ r \in Blocks /\ Separate(r)
        /\ Owned(r) = (IF HasKeys THEN Column(ks, n - 1) ELSE {})
                         \cup (IF HasValues THEN Column(vs, n - 1) ELSE {})
    BY <1>1, <1>2, <1>4, <1>5, BlockMade
  <2> QED
    BY <1>1, <2>1
<1>7. Owned(r) = Owned(b) \ {b.keys[i + 1]}
  BY <1>3, <1>4, <1>6
<1> QED
  BY <1>3, <1>6, <1>7 DEF r, n

LEMMA ItemRemoved ==
    ASSUME kind = "vec", NEW b \in Blocks, Separate(b), NEW i \in 0..(b.length - 1)
    PROVE  LET r == [b EXCEPT !.length = @ - 1, !.values = CloseGap(@, i, b.length)]
           IN  /\ r \in Blocks /\ Separate(r)
               /\ Owned(r) = Owned(b) \ {b.values[i + 1]}
               /\ {b.values[i + 1]} \subseteq Owned(b)
<1> DEFINE n == b.length
           r == [b EXCEPT !.length = @ - 1, !.values = CloseGap(@, i, b.length)]
           ks == b.keys
           vs == CloseGap(b.values, i, n)
<1>1. ~HasKeys /\ HasValues
  BY DEF HasKeys, HasValues
<1>2. /\ n \in Nat /\ n <= b.capacity /\ b.capacity \in Nat /\ b.capacity <= MaxWord
      /\ n - 1 \in Nat /\ n - 1 <= b.capacity /\ i + 1 \in 1..n
  BY BlockFields
<1>3. /\ Distinct(b.values, n) /\ b.values[i + 1] \in Column(b.values, n)
      /\ Owned(b) = Column(b.values, n)
  BY <1>1, <1>2 DEF Separate, Owned, Column
<1>4. /\ ks \in Seq(Cells) /\ Len(ks) = b.capacity
      /\ vs \in Seq(Cells) /\ Len(vs) = b.capacity
      /\ Column(vs, n - 1) = Column(b.values, n) \ {b.values[i + 1]} /\ Distinct(vs, n - 1)
  BY <1>2, <1>3, BlockFields, ColumnClose
<1>5. r = [length |-> n - 1, capacity |-> b.capacity, keys |-> ks, values |-> vs]
  <2>1. b \in [length : 0..MaxWord, capacity : 0..MaxWord, keys : Seq(Cells), values : Seq(Cells)]
    BY DEF Blocks
  <2>2. r = [b EXCEPT !.length = n - 1, !.values = vs]
    OBVIOUS
  <2> HIDE DEF r, vs
  <2> QED
    BY <2>1, <2>2
<1> HIDE DEF ks, vs, r
<1>6. r \in Blocks /\ Separate(r) /\ Owned(r) = Column(vs, n - 1)
  <2>1. /\ r \in Blocks /\ Separate(r)
        /\ Owned(r) = (IF HasKeys THEN Column(ks, n - 1) ELSE {})
                         \cup (IF HasValues THEN Column(vs, n - 1) ELSE {})
    BY <1>1, <1>2, <1>4, <1>5, BlockMade
  <2> QED
    BY <1>1, <2>1
<1>7. Owned(r) = Owned(b) \ {b.values[i + 1]}
  BY <1>3, <1>4, <1>6
<1> QED
  BY <1>3, <1>6, <1>7 DEF r, n

\* VecPop, and the clear of any collection.
LEMMA LastRemoved ==
    ASSUME kind = "vec", NEW b \in Blocks, Separate(b), b.length # 0
    PROVE  LET r == [b EXCEPT !.length = @ - 1]
           IN  /\ r \in Blocks /\ Separate(r) /\ b.values[b.length] \in Owned(b)
               /\ Owned(r) = Owned(b) \ {b.values[b.length]}
<1> DEFINE n == b.length
           r == [b EXCEPT !.length = @ - 1]
<1>1. ~HasKeys /\ HasValues
  BY DEF HasKeys, HasValues
<1>2. /\ n \in Nat /\ n <= b.capacity /\ b.capacity \in Nat /\ b.capacity <= MaxWord
      /\ n - 1 \in Nat /\ n - 1 <= b.capacity /\ n \in 1..n
      /\ b.keys \in Seq(Cells) /\ Len(b.keys) = b.capacity
      /\ b.values \in Seq(Cells) /\ Len(b.values) = b.capacity
  BY BlockFields
<1>3. /\ Distinct(b.values, n) /\ b.values[n] \in Column(b.values, n)
      /\ Owned(b) = Column(b.values, n)
  BY <1>1, <1>2 DEF Separate, Owned, Column
<1>4. Column(b.values, n - 1) = Column(b.values, n) \ {b.values[n]} /\ Distinct(b.values, n - 1)
  <2>1. \A j \in 1..n : j = n \/ j \in 1..(n - 1)
    BY <1>2
  <2>2. \A j \in 1..(n - 1) : j \in 1..n /\ j # n
    BY <1>2
  <2> QED
    BY <1>2, <1>3, <2>1, <2>2 DEF Column, Distinct
<1>5. r = [length |-> n - 1, capacity |-> b.capacity, keys |-> b.keys, values |-> b.values]
  <2>1. b \in [length : 0..MaxWord, capacity : 0..MaxWord, keys : Seq(Cells), values : Seq(Cells)]
    BY DEF Blocks
  <2> QED
    BY <2>1
<1> HIDE DEF r
<1>6. r \in Blocks /\ Separate(r) /\ Owned(r) = Column(b.values, n - 1)
  <2>1. /\ r \in Blocks /\ Separate(r)
        /\ Owned(r) = (IF HasKeys THEN Column(b.keys, n - 1) ELSE {})
                         \cup (IF HasValues THEN Column(b.values, n - 1) ELSE {})
    BY <1>1, <1>2, <1>4, <1>5, BlockMade
  <2> QED
    BY <1>1, <2>1
<1> QED
  BY <1>3, <1>4, <1>6 DEF r, n

LEMMA AllRemoved ==
    ASSUME kind \in {"vec", "map", "set"}, NEW b \in Blocks
    PROVE  LET r == [b EXCEPT !.length = 0]
           IN  r \in Blocks /\ Separate(r) /\ Owned(r) = {}
<1> DEFINE r == [b EXCEPT !.length = 0]
<1>1. /\ b.capacity \in Nat /\ b.capacity <= MaxWord
      /\ b.keys \in Seq(Cells) /\ Len(b.keys) = b.capacity
      /\ b.values \in Seq(Cells) /\ Len(b.values) = b.capacity
  BY BlockFields
<1>2. r = [length |-> 0, capacity |-> b.capacity, keys |-> b.keys, values |-> b.values]
  <2>1. b \in [length : 0..MaxWord, capacity : 0..MaxWord, keys : Seq(Cells), values : Seq(Cells)]
    BY DEF Blocks
  <2> QED
    BY <2>1
<1> HIDE DEF r
<1>3. \A cells : Column(cells, 0) = {} /\ Distinct(cells, 0)
  BY DEF Column, Distinct
<1>4. r \in Blocks /\ Separate(r) /\ Owned(r) = {}
  <2>1. 0 \in Nat /\ 0 <= b.capacity
    BY <1>1
  <2> QED
    BY <1>1, <1>2, <1>3, <2>1, BlockMade
<1> QED
  BY <1>4 DEF r

LEMMA CellsOf ==
    ASSUME NEW n \in Nat, NEW f \in [1..n -> Cells]
    PROVE  f \in Seq(Cells) /\ Len(f) = n
BY SeqDef

\* An array of resources in the order of their creation.
Numbered(L, n) == [i \in 1..n |-> L + i]

LEMMA ColumnFresh ==
    ASSUME NEW L \in Nat, NEW n \in Nat, NEW cells, cells = Numbered(L, n)
    PROVE  /\ cells \in Seq(Cells) /\ Len(cells) = n
           /\ Column(cells, n) = (L + 1)..(L + n) /\ Distinct(cells, n)
<1>1. cells \in [1..n -> Cells]
  BY DEF Cells, Numbered
<1>2. cells \in Seq(Cells) /\ Len(cells) = n
  BY <1>1, CellsOf
<1>3. \A i \in 1..n : cells[i] = L + i
  BY DEF Numbered
<1>4. ASSUME NEW x \in (L + 1)..(L + n) PROVE x \in Column(cells, n)
  <2>1. x - L \in 1..n /\ cells[x - L] = x
    BY <1>3
  <2> QED
    BY <2>1 DEF Column
<1>5. Column(cells, n) \subseteq (L + 1)..(L + n)
  BY <1>3 DEF Column
<1>6. Distinct(cells, n)
  BY <1>3 DEF Distinct
<1> QED
  BY <1>2, <1>4, <1>5, <1>6

LEMMA ColumnNone ==
    ASSUME NEW n \in Nat
    PROVE  [i \in 1..n |-> None] \in Seq(Cells) /\ Len([i \in 1..n |-> None]) = n
<1>1. [i \in 1..n |-> None] \in [1..n -> Cells]
  BY DEF Cells
<1> QED
  BY <1>1, SeqDef

\* A block made by a clone or a Vec literal owns what was created for it.
LEMMA FreshBlock ==
    ASSUME kind \in {"vec", "map", "set"}, Len(what) \in Nat, NEW n \in 0..MaxWord
    PROVE  LET ks == [i \in 1..n |-> IF kind = "vec" THEN None ELSE Fresh(i)]
               vs == [i \in 1..n |-> IF kind = "set" THEN None
                                     ELSE Fresh(IF kind = "map" THEN n + i ELSE i)]
               r == [length |-> n, capacity |-> n, keys |-> ks, values |-> vs]
           IN  /\ r \in Blocks /\ Separate(r)
               /\ Owned(r) = (Len(what) + 1)..(Len(what) + (IF kind = "map" THEN 2 * n ELSE n))
<1> DEFINE L == Len(what)
           ks == [i \in 1..n |-> IF kind = "vec" THEN None ELSE Fresh(i)]
           vs == [i \in 1..n |-> IF kind = "set" THEN None
                                 ELSE Fresh(IF kind = "map" THEN n + i ELSE i)]
           r == [length |-> n, capacity |-> n, keys |-> ks, values |-> vs]
<1>1. L \in Nat /\ n \in Nat /\ n <= n /\ n <= MaxWord
  BY CollectionsAssumption
<1>2. r = [length |-> n, capacity |-> n, keys |-> ks, values |-> vs]
  OBVIOUS
<1> HIDE DEF L, r, ks, vs
<1> DEFINE Goal == /\ r \in Blocks /\ Separate(r)
                   /\ Owned(r) = (L + 1)..(L + (IF kind = "map" THEN 2 * n ELSE n))
<1>3. ASSUME kind = "vec" PROVE Goal
  <2>1. ~HasKeys /\ HasValues
    BY <1>3 DEF HasKeys, HasValues
  <2>2. ks = [i \in 1..n |-> None] /\ vs = Numbered(L, n)
    BY <1>3 DEF Fresh, L, ks, vs, Numbered
  <2>3. /\ vs \in Seq(Cells) /\ Len(vs) = n /\ Distinct(vs, n)
        /\ Column(vs, n) = (L + 1)..(L + n)
    BY <1>1, <2>2, ColumnFresh
  <2>4. ks \in Seq(Cells) /\ Len(ks) = n
    BY <1>1, <2>2, ColumnNone
  <2>5. /\ r \in Blocks /\ Separate(r)
        /\ Owned(r) = (IF HasKeys THEN Column(ks, n) ELSE {})
                         \cup (IF HasValues THEN Column(vs, n) ELSE {})
    BY <1>1, <1>2, <2>1, <2>3, <2>4, BlockMade
  <2>6. Owned(r) = (L + 1)..(L + n)
    BY <2>1, <2>3, <2>5
  <2> QED
    BY <1>3, <2>5, <2>6
<1>4. ASSUME kind = "set" PROVE Goal
  <2>1. HasKeys /\ ~HasValues
    BY <1>4 DEF HasKeys, HasValues
  <2>2. ks = Numbered(L, n) /\ vs = [i \in 1..n |-> None]
    BY <1>4 DEF Fresh, L, ks, vs, Numbered
  <2>3. /\ ks \in Seq(Cells) /\ Len(ks) = n /\ Distinct(ks, n)
        /\ Column(ks, n) = (L + 1)..(L + n)
    BY <1>1, <2>2, ColumnFresh
  <2>4. vs \in Seq(Cells) /\ Len(vs) = n
    BY <1>1, <2>2, ColumnNone
  <2>5. /\ r \in Blocks /\ Separate(r)
        /\ Owned(r) = (IF HasKeys THEN Column(ks, n) ELSE {})
                         \cup (IF HasValues THEN Column(vs, n) ELSE {})
    BY <1>1, <1>2, <2>1, <2>3, <2>4, BlockMade
  <2>6. Owned(r) = (L + 1)..(L + n)
    BY <2>1, <2>3, <2>5
  <2> QED
    BY <1>4, <2>5, <2>6
<1>5. ASSUME kind = "map" PROVE Goal
  <2>1. HasKeys /\ HasValues
    BY <1>5 DEF HasKeys, HasValues
  <2>2. ks = Numbered(L, n) /\ vs = Numbered(L + n, n) /\ L + n \in Nat
    BY <1>1, <1>5 DEF Fresh, L, ks, vs, Numbered
  <2>3. /\ ks \in Seq(Cells) /\ Len(ks) = n /\ Distinct(ks, n)
        /\ Column(ks, n) = (L + 1)..(L + n)
    BY <1>1, <2>2, ColumnFresh
  <2>4. /\ vs \in Seq(Cells) /\ Len(vs) = n /\ Distinct(vs, n)
        /\ Column(vs, n) = ((L + n) + 1)..((L + n) + n)
    BY <1>1, <2>2, ColumnFresh
  <2>5. /\ Column(ks, n) \cap Column(vs, n) = {}
        /\ Column(ks, n) \cup Column(vs, n) = (L + 1)..(L + 2 * n)
    <3>1. ((L + 1)..(L + n)) \cap (((L + n) + 1)..((L + n) + n)) = {}
      BY <1>1
    <3>2. ((L + 1)..(L + n)) \cup (((L + n) + 1)..((L + n) + n)) = (L + 1)..(L + 2 * n)
      BY <1>1
    <3> QED
      BY <2>3, <2>4, <3>1, <3>2
  <2>6. /\ r \in Blocks /\ Separate(r)
        /\ Owned(r) = (IF HasKeys THEN Column(ks, n) ELSE {})
                         \cup (IF HasValues THEN Column(vs, n) ELSE {})
    BY <1>1, <1>2, <2>1, <2>3, <2>4, <2>5, BlockMade
  <2>7. Owned(r) = (L + 1)..(L + 2 * n)
    BY <2>1, <2>5, <2>6
  <2> QED
    BY <1>5, <2>6, <2>7
<1>6. Goal
  BY <1>3, <1>4, <1>5
<1> QED
  BY <1>6 DEF L, r, ks, vs

-----------------------------------------------------------------------------
(* The calls *)

\* What a call may assume of the collection it is given.
LEMMA PresentBlock ==
    ASSUME IInv, NEW c \in Names, block[c] # Absent
    PROVE  /\ block[c] \in Blocks /\ Separate(block[c]) /\ OwnedBy(c) = Owned(block[c])
           /\ Owned(block[c]) \subseteq Resources /\ Owned(block[c]) \cap Dropped = {}
<1>1. block[c] \in Blocks \cup {Absent} /\ OwnedBy(c) = Owned(block[c])
  BY DEF IInv, OwnedBy
<1>2. Separate(block[c])
  BY DEF IInv, Present
<1>3. Held \subseteq Resources /\ Held \cap Dropped = {}
  BY DEF IInv, Partition
<1>4. OwnedBy(c) \subseteq Held
  BY DEF Held
<1> QED
  BY <1>1, <1>2, <1>3, <1>4

\* The resources so far are numbered from 1, and the ones a call creates follow.
LEMMA Created ==
    ASSUME IInv, NEW made \in Seq(Things), what' = what \o made
    PROVE  /\ Len(what) \in Nat /\ Len(made) \in Nat /\ Resources = 1..Len(what)
           /\ DOMAIN what' = 1..(Len(what) + Len(made)) /\ Resources \subseteq DOMAIN what'
<1>1. what \in Seq(Things)
  BY DEF IInv
<1>2. /\ Len(what) \in Nat /\ Len(made) \in Nat /\ Resources = 1..Len(what)
      /\ DOMAIN what' = 1..(Len(what) + Len(made))
  BY <1>1, ConcatProperties, LenProperties DEF Resources
<1> QED
  BY <1>2

LEMMA NothingDropped ==
    ASSUME IInv, Resources \subseteq DOMAIN what', dropped' = Dropping(<<>>)
    PROVE  Marked({})
<1> DEFINE rs == <<>>
<1>1. DOMAIN rs = 1..0 /\ 0 \in Nat
  OBVIOUS
<1>2. dropped' = Dropping(rs)
  OBVIOUS
<1> HIDE DEF rs
<1>3. Marked({rs[i] : i \in 1..0})
  BY <1>1, <1>2, DroppingMarks
<1>4. {rs[i] : i \in 1..0} = {}
  OBVIOUS
<1> QED
  BY <1>3, <1>4

LEMMA OneDropped ==
    ASSUME IInv, Resources \subseteq DOMAIN what', NEW x \in DOMAIN what' \ Dropped,
           dropped' = Dropping(<<x>>)
    PROVE  Marked({x})
<1> DEFINE rs == <<x>>
           n == Len(rs)
<1>1. n = 1 /\ DOMAIN rs = 1..n /\ rs[1] = x /\ dropped' = Dropping(rs)
  OBVIOUS
<1> HIDE DEF rs, n
<1>2. n \in Nat /\ \A i \in 1..n : rs[i] = x /\ i = 1
  BY <1>1
<1>3. \A i, j \in 1..n : rs[i] = rs[j] => i = j
  BY <1>2
<1>4. \A i \in 1..n : rs[i] \in DOMAIN what' \ Dropped
  BY <1>2
<1>5. Marked({rs[i] : i \in 1..n})
  BY <1>1, <1>2, <1>3, <1>4, DroppingMarks
<1>6. {rs[i] : i \in 1..n} = {x}
  BY <1>1, <1>2
<1> QED
  BY <1>5, <1>6

\* The drop glue of clear and drop.
LEMMA AllDropped ==
    ASSUME IInv, UNCHANGED what, NEW b \in Blocks, Separate(b), Owned(b) \subseteq Resources,
           Owned(b) \cap Dropped = {}, dropped' = Dropping(Used(b))
    PROVE  Marked(Owned(b))
<1> DEFINE rs == Used(b)
           n == Len(rs)
<1>1. kind \in {"vec", "map", "set"}
  BY DEF IInv
<1>2. /\ rs \in Seq(Cells) /\ DOMAIN rs = 1..n
      /\ \A i, j \in 1..n : rs[i] = rs[j] => i = j
      /\ {rs[i] : i \in 1..n} = Owned(b)
  BY <1>1, UsedCells
<1>3. n \in Nat /\ DOMAIN what' = Resources
  BY <1>2, LenProperties DEF Resources
<1> HIDE DEF rs, n
<1>4. \A i \in 1..n : rs[i] \in DOMAIN what' \ Dropped
  BY <1>2, <1>3
<1> QED
  BY <1>2, <1>3, <1>4, DroppingMarks DEF rs

LEMMA DropsKept ==
    ASSUME IInv, UNCHANGED <<what, dropped>>
    PROVE  Marked({})
BY DEF IInv, Dropped, Resources, Marked

\* A call that creates nothing.
LEMMA NothingMade ==
    ASSUME IInv, UNCHANGED what
    PROVE  /\ <<>> \in Seq(Things) /\ Len(<<>>) = 0 /\ what' = what \o <<>>
           /\ (Len(what) + 1)..(Len(what) + Len(<<>>)) = {} /\ DOMAIN what' = Resources
<1>1. what \in Seq(Things)
  BY DEF IInv
<1>2. <<>> \in Seq(Things) /\ Len(<<>>) = 0 /\ what \o <<>> = what
  BY <1>1, ConcatEmptySeq, EmptySeq
<1>3. Len(what) \in Nat /\ DOMAIN what = 1..Len(what)
  BY <1>1, LenProperties
<1> QED
  BY <1>2, <1>3 DEF Resources

LEMMA IdleKeeps ==
    ASSUME IInv, UNCHANGED <<kind, block, what, dropped, out, overwritten>>
    PROVE  IInv'
<1>1. Resources' = Resources /\ Dropped' = Dropped /\ Present' = Present /\ HasKeys' = HasKeys /\ HasValues' = HasValues
  BY DEF Resources, Dropped, Present, HasKeys, HasValues
<1>2. \A c \in Names : OwnedBy(c)' = OwnedBy(c)
  BY <1>1 DEF OwnedBy, Owned
<1>3. Held' = Held
  BY <1>2 DEF Held
<1>4. \A c \in Present : Separate(block[c])' = Separate(block[c])
  BY <1>1 DEF Separate
<1>5. Partition'
  BY <1>1, <1>2, <1>3 DEF IInv, Partition
<1> QED
  BY <1>1, <1>4, <1>5 DEF IInv

\* What the program creates for a call.
LEMMA OneThing ==
    ASSUME IInv
    PROVE  <<Value(1)>> \in Seq(Things) /\ Len(<<Value(1)>>) = 1
<1>1. Value(1) \in Things
  <2>1. what \in Seq(Things)
    BY DEF IInv
  <2>2. Fresh(1) \in Nat
    BY <2>1, LenProperties DEF Fresh
  <2> QED
    BY <2>2 DEF Value, Things
<1> QED
  BY <1>1

LEMMA TwoThings ==
    ASSUME IInv, NEW key \in Keys
    PROVE  <<key, Value(2)>> \in Seq(Things) /\ Len(<<key, Value(2)>>) = 2
<1>1. Value(2) \in Things
  <2>1. what \in Seq(Things)
    BY DEF IInv
  <2>2. Fresh(2) \in Nat
    BY <2>1, LenProperties DEF Fresh
  <2> QED
    BY <2>2 DEF Value, Things
<1>2. key \in Things
  BY DEF Things
<1> QED
  BY <1>1, <1>2

LEMMA OneKey ==
    ASSUME NEW key \in Keys
    PROVE  <<key>> \in Seq(Things) /\ Len(<<key>>) = 1
<1>1. key \in Things
  BY DEF Things
<1> QED
  BY <1>1

\* VecInsert.
LEMMA VecInsertKeeps ==
    ASSUME IInv, NEW c \in Names, NEW i \in Nat, VecInsert(c, i)
    PROVE  IInv'
<1> DEFINE b == block[c]
           made == <<Value(1)>>
           r == [Reserve(b, b.length + 1) EXCEPT !.length = @ + 1,
                        !.values = [OpenGap(@, i, b.length) EXCEPT ![i + 1] = Fresh(1)]]
<1>1. kind = "vec" /\ b # Absent
  BY DEF VecInsert
<1>2. /\ b \in Blocks /\ Separate(b) /\ OwnedBy(c) = Owned(b)
      /\ Owned(b) \subseteq Resources /\ Owned(b) \cap Dropped = {}
  BY <1>1, PresentBlock
<1>3. CASE i > b.length \/ b.length = MaxWord \/ ~CanReserve(b, b.length + 1)
  BY <1>1, <1>3, IdleKeeps DEF VecInsert, Abort, history
<1>4. CASE ~(i > b.length \/ b.length = MaxWord \/ ~CanReserve(b, b.length + 1))
  <2>1. /\ what' = what \o made /\ dropped' = Dropping(<<>>) /\ kind' = kind
        /\ block' = [block EXCEPT ![c] = r] /\ out' = out \cup {}
        /\ overwritten' = overwritten \cup {}
    BY <1>1, <1>4 DEF VecInsert, Create, Returns
  <2> HIDE DEF r
  <2>2. made \in Seq(Things) /\ Len(made) = 1
    BY OneThing
  <2> HIDE DEF made
  <2>3. /\ Len(what) \in Nat /\ Resources = 1..Len(what) /\ Resources \subseteq DOMAIN what'
    BY <2>1, <2>2, Created
  <2>4. Fresh(1) \in Nat /\ Fresh(1) \notin Resources /\ (Len(what) + 1)..(Len(what) + 1) = {Fresh(1)}
    BY <2>3 DEF Fresh
  <2>5. r \in Blocks /\ Separate(r) /\ Owned(r) = Owned(b) \cup {Fresh(1)}
    <3>1. b.length < MaxWord /\ i \in 0..b.length /\ Fresh(1) \notin Owned(b) /\ Fresh(1) \in Cells
      BY <1>2, <1>4, <2>4, BlockFields DEF Cells
    <3> QED
      BY <1>1, <1>2, <3>1, VecGrown DEF r
  <2>6. Marked({})
    BY <2>1, <2>3, NothingDropped
  <2>7. r # Absent
    BY <2>5, AbsentAssumption
  <2>8. Owned(r) = OwnedBy(c) \cup ((Len(what) + 1)..(Len(what) + Len(made)))
    BY <1>2, <2>2, <2>4, <2>5
  <2> HIDE DEF b
  <2>9. Exchanged(c, r, made, {}, {}, {})
    BY <2>1, <2>2, <2>5, <2>6, <2>7, <2>8 DEF Exchanged
  <2> QED
    BY <2>9, Exchange
<1> QED
  BY <1>3, <1>4

\* VecRemove.
LEMMA VecRemoveKeeps ==
    ASSUME IInv, NEW c \in Names, NEW i \in Nat, VecRemove(c, i)
    PROVE  IInv'
<1> DEFINE b == block[c]
           r == [b EXCEPT !.length = @ - 1, !.values = CloseGap(@, i, b.length)]
           x == b.values[i + 1]
<1>1. kind = "vec" /\ b # Absent
  BY DEF VecRemove
<1>2. /\ b \in Blocks /\ Separate(b) /\ OwnedBy(c) = Owned(b)
      /\ Owned(b) \subseteq Resources /\ Owned(b) \cap Dropped = {}
  BY <1>1, PresentBlock
<1>3. CASE i >= b.length
  BY <1>1, <1>3, IdleKeeps DEF VecRemove, Abort, history
<1>4. CASE ~(i >= b.length)
  <2>1. /\ UNCHANGED <<kind, what, dropped, overwritten>> /\ out' = out \cup {x}
        /\ block' = [block EXCEPT ![c] = r]
    BY <1>1, <1>4 DEF VecRemove, Returns
  <2> HIDE DEF r, x
  <2>2. r \in Blocks /\ Separate(r) /\ Owned(r) = Owned(b) \ {x} /\ x \in Owned(b)
    <3>1. i \in 0..(b.length - 1)
      BY <1>2, <1>4, BlockFields
    <3> QED
      BY <1>1, <1>2, <3>1, ItemRemoved DEF r, x
  <2> HIDE DEF b
  <2>3. r # Absent
    BY <2>2, AbsentAssumption
  <2>4. Exchanged(c, r, <<>>, {}, {x}, {})
    BY <1>2, <2>1, <2>2, <2>3, NothingMade, DropsKept DEF Exchanged
  <2> QED
    BY <2>4, Exchange
<1> QED
  BY <1>3, <1>4

\* VecPop.
LEMMA VecPopKeeps ==
    ASSUME IInv, NEW c \in Names, VecPop(c)
    PROVE  IInv'
<1> DEFINE b == block[c]
           r == [b EXCEPT !.length = @ - 1]
           x == b.values[b.length]
<1>1. kind = "vec" /\ b # Absent
  BY DEF VecPop
<1>2. /\ b \in Blocks /\ Separate(b) /\ OwnedBy(c) = Owned(b)
      /\ Owned(b) \subseteq Resources /\ Owned(b) \cap Dropped = {}
  BY <1>1, PresentBlock
<1>3. CASE b.length = 0
  <2>1. UNCHANGED <<kind, what, dropped, out, overwritten>> /\ block' = [block EXCEPT ![c] = b]
    BY <1>3 DEF VecPop, Returns
  <2>2. block' = block
    BY <2>1 DEF IInv
  <2> QED
    BY <2>1, <2>2, IdleKeeps
<1>4. CASE b.length # 0
  <2>1. /\ UNCHANGED <<kind, what, dropped, overwritten>> /\ out' = out \cup {x}
        /\ block' = [block EXCEPT ![c] = r]
    BY <1>1, <1>4 DEF VecPop, Returns
  <2> HIDE DEF r, x
  <2>2. r \in Blocks /\ Separate(r) /\ Owned(r) = Owned(b) \ {x} /\ x \in Owned(b)
    BY <1>1, <1>2, <1>4, LastRemoved DEF r, x
  <2> HIDE DEF b
  <2>3. r # Absent
    BY <2>2, AbsentAssumption
  <2>4. Exchanged(c, r, <<>>, {}, {x}, {})
    BY <1>2, <2>1, <2>2, <2>3, NothingMade, DropsKept DEF Exchanged
  <2> QED
    BY <2>4, Exchange
<1> QED
  BY <1>3, <1>4

\* MapRemove.
LEMMA MapRemoveKeeps ==
    ASSUME IInv, NEW c \in Names, NEW key, MapRemove(c, key)
    PROVE  IInv'
<1> DEFINE b == block[c]
           i == Find(b, key)
           r == [b EXCEPT !.length = @ - 1, !.keys = CloseGap(@, i, b.length), !.values = CloseGap(@, i, b.length)]
           k == b.keys[i + 1]
           x == b.values[i + 1]
<1>1. kind = "map" /\ b # Absent
  BY DEF MapRemove
<1>2. /\ b \in Blocks /\ Separate(b) /\ OwnedBy(c) = Owned(b)
      /\ Owned(b) \subseteq Resources /\ Owned(b) \cap Dropped = {}
  BY <1>1, PresentBlock
<1>3. i \in -1..(b.length - 1)
  BY <1>2, FindInUse DEF Find
<1> HIDE DEF i
<1>4. CASE i < 0
  <2>1. UNCHANGED <<kind, what, dropped, out, overwritten>> /\ block' = [block EXCEPT ![c] = b]
    BY <1>4 DEF MapRemove, Returns, i
  <2>2. block' = block
    BY <2>1 DEF IInv
  <2> QED
    BY <2>1, <2>2, IdleKeeps
<1>5. CASE ~(i < 0)
  <2>1. /\ UNCHANGED <<kind, what, overwritten>> /\ out' = out \cup {x}
        /\ dropped' = Dropping(<<k>>) /\ block' = [block EXCEPT ![c] = r]
    BY <1>1, <1>5 DEF MapRemove, Returns, i
  <2> HIDE DEF r, x, k
  <2>2. /\ r \in Blocks /\ Separate(r) /\ Owned(r) = Owned(b) \ {k, x}
        /\ x \in Owned(b) /\ k \in Owned(b) /\ k # x
    <3>1. i \in 0..(b.length - 1)
      BY <1>2, <1>3, <1>5, BlockFields
    <3> QED
      BY <1>1, <1>2, <3>1, EntryRemoved DEF r, x, k
  <2> HIDE DEF b
  <2>3. r # Absent
    BY <2>2, AbsentAssumption
  <2>4. Marked({k})
    BY <1>2, <2>1, <2>2, NothingMade, OneDropped
  <2>5. Exchanged(c, r, <<>>, {k}, {x}, {})
    BY <1>2, <2>1, <2>2, <2>3, <2>4, NothingMade DEF Exchanged
  <2> QED
    BY <2>5, Exchange
<1> QED
  BY <1>4, <1>5

\* SetRemove.
LEMMA SetRemoveKeeps ==
    ASSUME IInv, NEW c \in Names, NEW element, SetRemove(c, element)
    PROVE  IInv'
<1> DEFINE b == block[c]
           i == Find(b, element)
           r == [b EXCEPT !.length = @ - 1, !.keys = CloseGap(@, i, b.length)]
           k == b.keys[i + 1]
<1>1. kind = "set" /\ b # Absent
  BY DEF SetRemove
<1>2. /\ b \in Blocks /\ Separate(b) /\ OwnedBy(c) = Owned(b)
      /\ Owned(b) \subseteq Resources /\ Owned(b) \cap Dropped = {}
  BY <1>1, PresentBlock
<1>3. i \in -1..(b.length - 1)
  BY <1>2, FindInUse DEF Find
<1> HIDE DEF i
<1>4. CASE i < 0
  <2>1. UNCHANGED <<kind, what, dropped, out, overwritten>> /\ block' = [block EXCEPT ![c] = b]
    BY <1>4 DEF SetRemove, Returns, i
  <2>2. block' = block
    BY <2>1 DEF IInv
  <2> QED
    BY <2>1, <2>2, IdleKeeps
<1>5. CASE ~(i < 0)
  <2>1. /\ UNCHANGED <<kind, what, out, overwritten>>
        /\ dropped' = Dropping(<<k>>) /\ block' = [block EXCEPT ![c] = r]
    BY <1>1, <1>5 DEF SetRemove, Returns, i
  <2> HIDE DEF r, k
  <2>2. r \in Blocks /\ Separate(r) /\ Owned(r) = Owned(b) \ {k} /\ k \in Owned(b)
    <3>1. i \in 0..(b.length - 1)
      BY <1>2, <1>3, <1>5, BlockFields
    <3> QED
      BY <1>1, <1>2, <3>1, ElementRemoved DEF r, k
  <2> HIDE DEF b
  <2>3. r # Absent
    BY <2>2, AbsentAssumption
  <2>4. Marked({k})
    BY <1>2, <2>1, <2>2, NothingMade, OneDropped
  <2>5. Exchanged(c, r, <<>>, {k}, {}, {})
    BY <1>2, <2>1, <2>2, <2>3, <2>4, NothingMade DEF Exchanged
  <2> QED
    BY <2>5, Exchange
<1> QED
  BY <1>4, <1>5

\* MapInsert.
LEMMA MapInsertKeeps ==
    ASSUME IInv, NEW c \in Names, NEW key \in Keys, MapInsert(c, key)
    PROVE  IInv'
<1> DEFINE b == block[c]
           i == Find(b, key)
           made == <<key, Value(2)>>
           g == [Reserve(b, b.length + 1) EXCEPT !.length = @ + 1,
                        !.keys[b.length + 1] = Fresh(1), !.values[b.length + 1] = Fresh(2)]
           r == [b EXCEPT !.values[i + 1] = Fresh(2)]
           x == b.values[i + 1]
<1>1. kind = "map" /\ b # Absent
  BY DEF MapInsert
<1>2. /\ b \in Blocks /\ Separate(b) /\ OwnedBy(c) = Owned(b)
      /\ Owned(b) \subseteq Resources /\ Owned(b) \cap Dropped = {}
  BY <1>1, PresentBlock
<1>3. i \in -1..(b.length - 1)
  BY <1>2, FindInUse DEF Find
<1> HIDE DEF i
<1>4. CASE i < 0 /\ (b.length = MaxWord \/ ~CanReserve(b, b.length + 1))
  BY <1>1, <1>4, IdleKeeps DEF MapInsert, Abort, history, i
<1>5. CASE i < 0 /\ ~(b.length = MaxWord \/ ~CanReserve(b, b.length + 1))
  <2>1. /\ what' = what \o made /\ dropped' = Dropping(<<>>) /\ UNCHANGED <<kind, out, overwritten>>
        /\ block' = [block EXCEPT ![c] = g]
    <3>1. ~(i >= 0)
      BY <1>3, <1>5, BlockFields
    <3> QED
      BY <1>1, <1>5, <3>1 DEF MapInsert, Create, Returns, i
  <2> HIDE DEF g
  <2>2. made \in Seq(Things) /\ Len(made) = 2
    BY TwoThings
  <2> HIDE DEF made
  <2>3. /\ Len(what) \in Nat /\ Resources = 1..Len(what) /\ Resources \subseteq DOMAIN what'
        /\ DOMAIN what' = 1..(Len(what) + 2)
    BY <2>1, <2>2, Created
  <2>4. /\ Fresh(1) \in Nat /\ Fresh(1) \notin Resources /\ Fresh(1) \in DOMAIN what'
        /\ Fresh(2) \in Nat /\ Fresh(2) \notin Resources /\ Fresh(1) # Fresh(2)
        /\ (Len(what) + 1)..(Len(what) + 2) = {Fresh(1), Fresh(2)}
    BY <2>3 DEF Fresh
  <2>5. g \in Blocks /\ Separate(g) /\ Owned(g) = Owned(b) \cup {Fresh(1), Fresh(2)}
    <3>1. /\ b.length < MaxWord /\ Fresh(1) \notin Owned(b) /\ Fresh(1) \in Cells
          /\ Fresh(2) \notin Owned(b) /\ Fresh(2) \in Cells
      BY <1>2, <1>5, <2>4, BlockFields DEF Cells
    <3> HIDE DEF b
    <3>2. /\ g \in Blocks /\ Separate(g)
          /\ Owned(g) = Owned(b) \cup (IF kind = "map" THEN {Fresh(1), Fresh(2)} ELSE {Fresh(1)})
      <4>1. kind \in {"map", "set"} /\ (kind = "map" => Fresh(2) \notin Owned(b) /\ Fresh(2) # Fresh(1))
        BY <1>1, <2>4, <3>1
      <4> QED
        BY <1>2, <3>1, <4>1, EntryAppended DEF g
    <3> QED
      BY <1>1, <3>2
  <2>6. Marked({})
    BY <2>1, <2>3, NothingDropped
  <2> HIDE DEF b
  <2>7. g # Absent
    BY <1>1, <2>5, AbsentAssumption
  <2>8. Exchanged(c, g, made, {}, {}, {})
    BY <1>2, <2>1, <2>2, <2>4, <2>5, <2>6, <2>7 DEF Exchanged
  <2> QED
    BY <2>8, Exchange
<1>6. CASE ~(i < 0)
  <2>1. /\ what' = what \o made /\ dropped' = Dropping(<<Fresh(1)>>) /\ UNCHANGED <<kind, overwritten>>
        /\ out' = out \cup {x} /\ block' = [block EXCEPT ![c] = r]
    <3>1. i >= 0
      BY <1>3, <1>6, BlockFields
    <3> QED
      BY <1>1, <1>6, <3>1 DEF MapInsert, Create, Returns, i
  <2> HIDE DEF r, x
  <2>2. made \in Seq(Things) /\ Len(made) = 2
    BY TwoThings
  <2> HIDE DEF made
  <2>3. /\ Len(what) \in Nat /\ Resources = 1..Len(what) /\ Resources \subseteq DOMAIN what'
        /\ DOMAIN what' = 1..(Len(what) + 2)
    BY <2>1, <2>2, Created
  <2>4. /\ Fresh(1) \in Nat /\ Fresh(1) \notin Resources /\ Fresh(1) \in DOMAIN what'
        /\ Fresh(2) \in Nat /\ Fresh(2) \notin Resources /\ Fresh(1) # Fresh(2)
        /\ (Len(what) + 1)..(Len(what) + 2) = {Fresh(1), Fresh(2)}
    BY <2>3 DEF Fresh
  <2>5. /\ r \in Blocks /\ Separate(r) /\ Owned(r) = (Owned(b) \ {x}) \cup {Fresh(2)}
        /\ x \in Owned(b)
    <3>1. i + 1 \in 1..b.length
      BY <1>2, <1>3, <1>6, BlockFields
    <3>2. Fresh(2) \notin Owned(b) /\ Fresh(2) \in Cells
      BY <1>2, <2>4 DEF Cells
    <3> QED
      BY <1>1, <1>2, <3>1, <3>2, ValueReplaced DEF r, x
  <2>6. Marked({Fresh(1)})
    <3>1. Fresh(1) \notin Dropped
      BY <2>4 DEF Dropped
    <3> QED
      BY <2>1, <2>3, <2>4, <3>1, OneDropped
  <2> HIDE DEF b
  <2>7. r # Absent
    BY <1>1, <2>5, AbsentAssumption
  <2>8. Exchanged(c, r, made, {Fresh(1)}, {x}, {})
    BY <1>2, <2>1, <2>2, <2>4, <2>5, <2>6, <2>7 DEF Exchanged
  <2> QED
    BY <2>8, Exchange
<1> QED
  BY <1>4, <1>5, <1>6

\* SetInsert.
LEMMA SetInsertKeeps ==
    ASSUME IInv, NEW c \in Names, NEW element \in Keys, SetInsert(c, element)
    PROVE  IInv'
<1> DEFINE b == block[c]
           i == Find(b, element)
           made == <<element>>
           g == [Reserve(b, b.length + 1) EXCEPT !.length = @ + 1, !.keys[b.length + 1] = Fresh(1)]
<1>1. kind = "set" /\ b # Absent
  BY DEF SetInsert
<1>2. /\ b \in Blocks /\ Separate(b) /\ OwnedBy(c) = Owned(b)
      /\ Owned(b) \subseteq Resources /\ Owned(b) \cap Dropped = {}
  BY <1>1, PresentBlock
<1>3. i \in -1..(b.length - 1)
  BY <1>2, FindInUse DEF Find
<1> HIDE DEF i
<1>4. CASE i < 0 /\ (b.length = MaxWord \/ ~CanReserve(b, b.length + 1))
  BY <1>1, <1>4, IdleKeeps DEF SetInsert, Abort, history, i
<1>5. CASE i < 0 /\ ~(b.length = MaxWord \/ ~CanReserve(b, b.length + 1))
  <2>1. /\ what' = what \o made /\ dropped' = Dropping(<<>>) /\ UNCHANGED <<kind, out, overwritten>>
        /\ block' = [block EXCEPT ![c] = g]
    <3>1. ~(i >= 0)
      BY <1>3, <1>5, BlockFields
    <3> QED
      BY <1>1, <1>5, <3>1 DEF SetInsert, Create, Returns, i
  <2> HIDE DEF g
  <2>2. made \in Seq(Things) /\ Len(made) = 1
    BY OneKey
  <2> HIDE DEF made
  <2>3. /\ Len(what) \in Nat /\ Resources = 1..Len(what) /\ Resources \subseteq DOMAIN what'
        /\ DOMAIN what' = 1..(Len(what) + 1)
    BY <2>1, <2>2, Created
  <2>4. /\ Fresh(1) \in Nat /\ Fresh(1) \notin Resources /\ Fresh(1) \in DOMAIN what'
        /\ (Len(what) + 1)..(Len(what) + 1) = {Fresh(1)}
    BY <2>3 DEF Fresh
  <2>5. g \in Blocks /\ Separate(g) /\ Owned(g) = Owned(b) \cup {Fresh(1)}
    <3>1. b.length < MaxWord /\ Fresh(1) \notin Owned(b) /\ Fresh(1) \in Cells
      BY <1>2, <1>5, <2>4, BlockFields DEF Cells
    <3> QED
      BY <1>1, <1>2, <3>1, ElementAppended DEF g
  <2>6. Marked({})
    BY <2>1, <2>3, NothingDropped
  <2> HIDE DEF b
  <2>7. g # Absent
    BY <1>1, <2>5, AbsentAssumption
  <2>8. Exchanged(c, g, made, {}, {}, {})
    BY <1>2, <2>1, <2>2, <2>4, <2>5, <2>6, <2>7 DEF Exchanged
  <2> QED
    BY <2>8, Exchange
<1>6. CASE i >= 0
  <2>1. /\ what' = what \o made /\ dropped' = Dropping(<<Fresh(1)>>) /\ UNCHANGED <<kind, out, overwritten>>
        /\ block' = [block EXCEPT ![c] = b]
    <3>1. ~(i < 0)
      BY <1>3, <1>6, BlockFields
    <3> QED
      BY <1>1, <1>6, <3>1 DEF SetInsert, Create, Returns, i
  <2>2. made \in Seq(Things) /\ Len(made) = 1
    BY OneKey
  <2> HIDE DEF made
  <2>3. /\ Len(what) \in Nat /\ Resources = 1..Len(what) /\ Resources \subseteq DOMAIN what'
        /\ DOMAIN what' = 1..(Len(what) + 1)
    BY <2>1, <2>2, Created
  <2>4. /\ Fresh(1) \in Nat /\ Fresh(1) \notin Resources /\ Fresh(1) \in DOMAIN what'
        /\ (Len(what) + 1)..(Len(what) + 1) = {Fresh(1)}
    BY <2>3 DEF Fresh
  <2>5. /\ b \in Blocks /\ Separate(b) /\ OwnedBy(c) = Owned(b)
        /\ Fresh(1) \notin Owned(b)
    BY <1>2, <2>4
  <2>6. Marked({Fresh(1)})
    <3>1. Fresh(1) \notin Dropped
      BY <2>4 DEF Dropped
    <3> QED
      BY <2>1, <2>3, <2>4, <3>1, OneDropped
  <2> HIDE DEF b
  <2>7. b # Absent
    BY <1>1, <2>5, AbsentAssumption
  <2>8. Exchanged(c, b, made, {Fresh(1)}, {}, {})
    BY <1>2, <2>1, <2>2, <2>4, <2>5, <2>6, <2>7 DEF Exchanged
  <2> QED
    BY <2>8, Exchange
<1> QED
  BY <1>3, <1>4, <1>5, <1>6, BlockFields

\* Clear.
LEMMA ClearKeeps ==
    ASSUME IInv, NEW c \in Names, Clear(c)
    PROVE  IInv'
<1> DEFINE b == block[c]
           r == [b EXCEPT !.length = 0]
<1>1. b # Absent /\ kind \in {"vec", "map", "set"}
  BY DEF Clear, IInv
<1>2. /\ b \in Blocks /\ Separate(b) /\ OwnedBy(c) = Owned(b)
      /\ Owned(b) \subseteq Resources /\ Owned(b) \cap Dropped = {}
  BY <1>1, PresentBlock
<1>3. /\ UNCHANGED <<kind, what, out, overwritten>> /\ dropped' = Dropping(Used(b))
      /\ block' = [block EXCEPT ![c] = r]
  BY DEF Clear, Returns
<1> HIDE DEF r
<1>4. r \in Blocks /\ Separate(r) /\ Owned(r) = {} /\ r # Absent
  BY <1>1, <1>2, AllRemoved, AbsentAssumption DEF r
<1> HIDE DEF b
<1>5. Exchanged(c, r, <<>>, Owned(b), {}, {})
  BY <1>2, <1>3, <1>4, NothingMade, AllDropped DEF Exchanged
<1> QED
  BY <1>5, Exchange

\* DropCollection.
LEMMA DropCollectionKeeps ==
    ASSUME IInv, NEW c \in Names, DropCollection(c)
    PROVE  IInv'
<1> DEFINE b == block[c]
           r == Absent
<1>1. b # Absent /\ kind \in {"vec", "map", "set"}
  BY DEF DropCollection, IInv
<1>2. /\ b \in Blocks /\ Separate(b) /\ OwnedBy(c) = Owned(b)
      /\ Owned(b) \subseteq Resources /\ Owned(b) \cap Dropped = {}
  BY <1>1, PresentBlock
<1>3. /\ UNCHANGED <<kind, what, out, overwritten>> /\ dropped' = Dropping(Used(b))
      /\ block' = [block EXCEPT ![c] = r]
  BY DEF DropCollection, Returns
<1> HIDE DEF b
<1>4. Exchanged(c, Absent, <<>>, Owned(b), {}, {})
  BY <1>2, <1>3, NothingMade, AllDropped DEF Exchanged
<1> QED
  BY <1>4, Exchange

\* The clone of a collection is created with as many resources as it has.
LEMMA CloneCollectionKeeps ==
    ASSUME IInv, NEW c \in Names, NEW d \in Names, CloneCollection(c, d)
    PROVE  IInv'
<1> DEFINE b == block[c]
           n == b.length
           old == Used(b)
           made == [i \in DOMAIN old |-> what[old[i]]]
           ks == [i \in 1..n |-> IF kind = "vec" THEN None ELSE Fresh(i)]
           vs == [i \in 1..n |-> IF kind = "set" THEN None
                                 ELSE Fresh(IF kind = "map" THEN n + i ELSE i)]
           r == [length |-> n, capacity |-> n, keys |-> ks, values |-> vs]
<1>1. b # Absent /\ kind \in {"vec", "map", "set"} /\ what \in Seq(Things)
  BY DEF CloneCollection, IInv
<1>2. /\ b \in Blocks /\ Separate(b) /\ Owned(b) \subseteq Resources
      /\ n \in 0..MaxWord /\ n \in Nat
  BY <1>1, PresentBlock, BlockFields
<1>3. /\ what' = what \o made /\ dropped' = Dropping(<<>>) /\ UNCHANGED <<kind, out, overwritten>>
      /\ block' = [block EXCEPT ![d] = r] /\ OwnedBy(d) = {}
  BY DEF CloneCollection, Create, Returns, OwnedBy
<1>4. /\ old \in Seq(Cells) /\ DOMAIN old = 1..Len(old)
      /\ Len(old) = (IF kind = "map" THEN 2 * n ELSE n)
      /\ \A i \in DOMAIN old : old[i] \in Resources
  <2>1. /\ old \in Seq(Cells) /\ DOMAIN old = 1..Len(old)
        /\ Len(old) = (IF kind = "map" THEN 2 * n ELSE n)
        /\ {old[i] : i \in DOMAIN old} = Owned(b)
    BY <1>1, <1>2, UsedCells
  <2> HIDE DEF old
  <2> QED
    BY <1>2, <2>1
<1> HIDE DEF old, b
<1>5. made \in Seq(Things) /\ Len(made) = (IF kind = "map" THEN 2 * n ELSE n)
  <2>1. \A i \in DOMAIN old : what[old[i]] \in Things
    BY <1>1, <1>4, ElementOfSeq, LenProperties DEF Resources
  <2>2. made \in [1..Len(old) -> Things] /\ Len(old) \in Nat
    BY <1>2, <1>4, <2>1
  <2> HIDE DEF made
  <2> QED
    BY <1>4, <2>2, SeqDef
<1> HIDE DEF made
<1>6. Len(what) \in Nat /\ Resources \subseteq DOMAIN what'
  BY <1>3, <1>5, Created
<1>7. /\ r \in Blocks /\ Separate(r)
      /\ Owned(r) = (Len(what) + 1)..(Len(what) + (IF kind = "map" THEN 2 * n ELSE n))
  <2> HIDE DEF n
  <2> QED
    BY <1>1, <1>2, <1>6, FreshBlock
<1> HIDE DEF r
<1>8. Exchanged(d, r, made, {}, {}, {})
  BY <1>1, <1>3, <1>5, <1>6, <1>7, NothingDropped, AbsentAssumption DEF Exchanged
<1> QED
  BY <1>8, Exchange

\* The concatenation of two Vecs holds what both held, and the operands are gone.
LEMMA ConcatenateKeeps ==
    ASSUME IInv, NEW c \in Names, NEW d \in Names, Concatenate(c, d)
    PROVE  IInv'
<1> DEFINE b == block[c]
           e == block[d]
           n == b.length + e.length
           ks == [i \in 1..n |-> None]
           vs == SubSeq(b.values, 1, b.length) \o SubSeq(e.values, 1, e.length)
           r == [length |-> n, capacity |-> n, keys |-> ks, values |-> vs]
<1>1. kind = "vec" /\ c # d /\ b # Absent /\ e # Absent
  BY DEF Concatenate
<1>2. ~HasKeys /\ HasValues
  BY <1>1 DEF HasKeys, HasValues
<1>3. /\ b \in Blocks /\ Separate(b) /\ OwnedBy(c) = Owned(b)
      /\ e \in Blocks /\ Separate(e) /\ OwnedBy(d) = Owned(e)
      /\ Owned(b) \cap Owned(e) = {}
  <2>1. OwnedBy(c) \cap OwnedBy(d) = {}
    BY <1>1 DEF IInv, Partition
  <2> QED
    BY <1>1, <2>1, PresentBlock
<1>4. CASE n > MaxWord
  BY <1>1, <1>4, IdleKeeps DEF Concatenate, Abort, history
<1>5. CASE ~(n > MaxWord)
  <2>1. /\ block' = [block EXCEPT ![d] = Absent, ![c] = r]
        /\ UNCHANGED <<kind, what, dropped, out, overwritten>>
    BY <1>1, <1>5 DEF Concatenate, history
  <2> HIDE DEF r
  <2>2. /\ n \in Nat /\ n <= MaxWord /\ n <= n
        /\ b.length \in Nat /\ b.length <= Len(b.values) /\ b.values \in Seq(Cells)
        /\ e.length \in Nat /\ e.length <= Len(e.values) /\ e.values \in Seq(Cells)
    BY <1>3, <1>5, BlockFields
  <2>3. /\ Distinct(b.values, b.length) /\ Owned(b) = Column(b.values, b.length)
        /\ Distinct(e.values, e.length) /\ Owned(e) = Column(e.values, e.length)
    BY <1>2, <1>3 DEF Separate, Owned
  <2>4. /\ vs \in Seq(Cells) /\ Len(vs) = n /\ Distinct(vs, n)
        /\ Column(vs, n) = Owned(b) \cup Owned(e)
    <3>1. Column(b.values, b.length) \cap Column(e.values, e.length) = {}
      BY <1>3, <2>3
    <3> DEFINE xs == b.values
               ys == e.values
               k == b.length
               v == e.length
    <3> HIDE DEF xs, ys, k, v
    <3>2. /\ vs \in Seq(Cells) /\ Len(vs) = n /\ Distinct(vs, n)
          /\ Column(vs, n) = Column(b.values, b.length) \cup Column(e.values, e.length)
      <4>1. /\ xs \in Seq(Cells) /\ k \in Nat /\ k <= Len(xs) /\ Distinct(xs, k)
            /\ ys \in Seq(Cells) /\ v \in Nat /\ v <= Len(ys) /\ Distinct(ys, v)
            /\ Column(xs, k) \cap Column(ys, v) = {}
        BY <2>2, <2>3, <3>1 DEF xs, ys, k, v
      <4> DEFINE u == SubSeq(xs, 1, k) \o SubSeq(ys, 1, v)
      <4>2. /\ u \in Seq(Cells) /\ Len(u) = k + v /\ Distinct(u, k + v)
            /\ Column(u, k + v) = Column(xs, k) \cup Column(ys, v)
        BY <4>1, ColumnJoin
      <4> QED
        BY <4>2 DEF xs, ys, k, v
    <3> QED
      BY <2>3, <3>2
  <2>5. ks \in Seq(Cells) /\ Len(ks) = n
    <3> HIDE DEF n
    <3> QED
      BY <2>2, ColumnNone
  <2>6. r = [length |-> n, capacity |-> n, keys |-> ks, values |-> vs]
    BY DEF r
  <2> HIDE DEF n, ks, vs
  <2>7. /\ r \in Blocks /\ Separate(r)
        /\ Owned(r) = (IF HasKeys THEN Column(ks, n) ELSE {})
                         \cup (IF HasValues THEN Column(vs, n) ELSE {})
    BY <1>1, <1>2, <2>2, <2>4, <2>5, <2>6, BlockMade
  <2>8. Owned(r) = OwnedBy(c) \cup OwnedBy(d) /\ r # Absent
    BY <1>2, <1>3, <2>4, <2>7, AbsentAssumption
  <2>9. /\ block' \in [Names -> Blocks \cup {Absent}]
        /\ block'[c] = r /\ block'[d] = Absent
        /\ \A x \in Names \ {c, d} : block'[x] = block[x]
    BY <1>1, <2>1, <2>7 DEF IInv
  <2>10. HasKeys' = HasKeys /\ HasValues' = HasValues
    BY <2>1 DEF HasKeys, HasValues
  <2>11. /\ OwnedBy(c)' = OwnedBy(c) \cup OwnedBy(d) /\ OwnedBy(d)' = {}
         /\ \A x \in Names \ {c, d} : OwnedBy(x)' = OwnedBy(x)
    <3>1. Owned(block[c])' = Owned(r) /\ \A x \in Names \ {c, d} : Owned(block[x])' = Owned(block[x])
      BY <2>9, <2>10 DEF Owned
    <3> QED
      BY <2>8, <2>9, <3>1 DEF OwnedBy
  <2>12. Held' = Held
    <3>1. Held' = UNION {OwnedBy(x)' : x \in Names} /\ Held = UNION {OwnedBy(x) : x \in Names}
      BY DEF Held
    <3>2. ASSUME NEW x \in Names PROVE OwnedBy(x)' \subseteq Held /\ OwnedBy(x) \subseteq Held'
      <4>1. CASE x = c \/ x = d
        BY <2>11, <3>1, <4>1
      <4>2. CASE ~(x = c \/ x = d)
        BY <2>11, <3>1, <4>2
      <4> QED
        BY <4>1, <4>2
    <3> QED
      BY <3>1, <3>2
  <2>13. \A x, y \in Names : x # y => OwnedBy(x)' \cap OwnedBy(y)' = {}
    <3>1. \A x, y \in Names : x # y => OwnedBy(x) \cap OwnedBy(y) = {}
      BY DEF IInv, Partition
    <3>2. ASSUME NEW x \in Names, NEW y \in Names, x # y
          PROVE  OwnedBy(x)' \cap OwnedBy(y)' = {}
      <4>1. CASE x = d \/ y = d
        BY <2>11, <4>1
      <4>2. CASE x # d /\ y # d /\ x = c
        BY <1>1, <2>11, <3>1, <3>2, <4>2
      <4>3. CASE x # d /\ y # d /\ y = c
        BY <1>1, <2>11, <3>1, <3>2, <4>3
      <4>4. CASE x # d /\ y # d /\ x # c /\ y # c
        BY <2>11, <3>1, <3>2, <4>4
      <4> QED
        BY <4>1, <4>2, <4>3, <4>4
    <3> QED
      BY <3>2
  <2>14. Partition'
    <3>1. Resources' = Resources /\ Dropped' = Dropped
      BY <2>1 DEF Resources, Dropped
    <3> QED
      BY <2>1, <2>12, <2>13, <3>1 DEF IInv, Partition
  <2>15. \A x \in Present' : Separate(block[x])'
    <3>1. \A y : Separate(y) <=> Separate(y)'
      BY <2>10 DEF Separate
    <3> SUFFICES ASSUME NEW x \in Names, block'[x] # Absent PROVE Separate(block[x])'
      BY DEF Present
    <3>2. CASE x = c
      BY <2>7, <2>9, <2>10, <3>2 DEF Separate
    <3>3. CASE x # c
      <4>1. block'[x] = block[x] /\ Separate(block[x])
        BY <2>9, <3>3 DEF IInv, Present
      <4> QED
        BY <2>10, <4>1 DEF Separate
    <3> QED
      BY <3>2, <3>3
  <2> QED
    BY <2>1, <2>9, <2>14, <2>15 DEF IInv, Resources
<1> QED
  BY <1>4, <1>5

-----------------------------------------------------------------------------
(* Literals *)

\* The resources of the first i of n entries of a literal, and the states its
\* helper can be in after them: each is in the block or lost to a repeated key.
LiteralMade(n, i) ==
    {Fresh(j) : j \in 1..i} \cup (IF kind = "map" THEN {Fresh(n + j) : j \in 1..i} ELSE {})
LiteralStates(n, i) ==
    {st \in [b : Blocks, lost : SUBSET Cells] :
        /\ Separate(st.b) /\ st.b.length <= i
        /\ Owned(st.b) \cap st.lost = {} /\ Owned(st.b) \cup st.lost = LiteralMade(n, i)}
LiteralValue(n, i) == IF kind = "map" THEN Fresh(n + i) ELSE None

\* The resources of one more entry.
LEMMA LiteralMakes ==
    ASSUME Len(what) \in Nat, NEW n \in Nat, NEW i \in 1..n
    PROVE  /\ LiteralMade(n, i) = LiteralMade(n, i - 1)
                 \cup (IF kind = "map" THEN {Fresh(i), Fresh(n + i)} ELSE {Fresh(i)})
           /\ Fresh(i) \notin LiteralMade(n, i - 1) /\ Fresh(n + i) \notin LiteralMade(n, i - 1)
           /\ Fresh(i) # Fresh(n + i) /\ Fresh(i) \in Nat /\ Fresh(n + i) \in Nat
           /\ i - 1 \in Nat
<1> DEFINE L == Len(what)
<1>1. 1..i = 1..(i - 1) \cup {i}
  OBVIOUS
<1>2. \A j : Fresh(j) = L + j
  BY DEF Fresh
<1>3. \A j \in 1..(i - 1) : L + i # L + j /\ L + i # L + (n + j) /\ L + (n + i) # L + j
                          /\ L + (n + i) # L + (n + j)
  OBVIOUS
<1>4. L + i # L + (n + i) /\ L + i \in Nat /\ L + (n + i) \in Nat /\ i - 1 \in Nat
  OBVIOUS
<1> HIDE DEF L
<1>5. LiteralMade(n, i) = LiteralMade(n, i - 1)
                 \cup (IF kind = "map" THEN {Fresh(i), Fresh(n + i)} ELSE {Fresh(i)})
  BY <1>1 DEF LiteralMade
<1>6. Fresh(i) \notin LiteralMade(n, i - 1) /\ Fresh(n + i) \notin LiteralMade(n, i - 1)
  BY <1>2, <1>3 DEF LiteralMade
<1> QED
  BY <1>2, <1>4, <1>5, <1>6

\* One turn of the loop that fills a literal.
LEMMA AddEntryKeeps ==
    ASSUME Len(what) \in Nat, kind \in {"map", "set"}, NEW n \in 0..MaxWord, NEW i \in 1..n,
           NEW st \in LiteralStates(n, i - 1)
    PROVE  AddEntry(st, Fresh(i), LiteralValue(n, i)) \in LiteralStates(n, i)
<1> DEFINE b == st.b
           k == Fresh(i)
           v == LiteralValue(n, i)
           more == IF kind = "map" THEN {k, v} ELSE {k}
           at == FindAmong(what', b, what'[k]) + 1
           g == [Reserve(b, b.length + 1) EXCEPT !.length = @ + 1,
                                                 !.keys[b.length + 1] = k,
                                                 !.values[b.length + 1] = v]
           r == [b EXCEPT !.values[at] = v]
           M == LiteralMade(n, i - 1)
<1>1. /\ st \in [b : Blocks, lost : SUBSET Cells] /\ b \in Blocks /\ st.lost \subseteq Cells
      /\ Separate(b) /\ b.length <= i - 1
      /\ Owned(b) \cap st.lost = {} /\ Owned(b) \cup st.lost = M
  BY DEF LiteralStates
<1>2. /\ LiteralMade(n, i) = M \cup more
      /\ k \in Cells /\ v \in Cells /\ k \notin M
      /\ kind = "map" => v \notin M /\ v # k
  <2>1. n \in Nat
    BY CollectionsAssumption
  <2> QED
    BY <2>1, LiteralMakes DEF LiteralValue, Cells
<1>3. i \in Nat /\ i - 1 < MaxWord /\ b.length \in Nat /\ b.length < MaxWord /\ b.length <= i
  BY <1>1, BlockFields, CollectionsAssumption
<1>4. at \in 0..b.length
  <2>1. FindAmong(what', b, what'[k]) \in -1..(b.length - 1)
    BY <1>1, FindInUse
  <2> QED
    BY <1>3, <2>1
<1>5. AddEntry(st, k, v) = IF at = 0 THEN [st EXCEPT !.b = g]
                           ELSE [b |-> IF kind = "map" THEN r ELSE b,
                                 lost |-> st.lost \cup (IF kind = "map" THEN {k, b.values[at]}
                                                                          ELSE {k})]
  BY DEF AddEntry
<1> HIDE DEF at, k, v, M
<1>6. CASE at = 0
  <2>1. /\ g \in Blocks /\ Separate(g) /\ g.length = b.length + 1
        /\ Owned(g) = Owned(b) \cup more
    <3>1. k \notin Owned(b) /\ (kind = "map" => v \notin Owned(b) /\ v # k)
      BY <1>1, <1>2
    <3> HIDE DEF b
    <3> QED
      BY <1>1, <1>2, <1>3, <3>1, EntryAppended
  <2> HIDE DEF g
  <2> DEFINE end == [b |-> g, lost |-> st.lost]
  <2>2. AddEntry(st, k, v) = end
    BY <1>1, <1>5, <1>6
  <2>3. more \cap M = {}
    BY <1>2
  <2>4. Owned(g) \cap st.lost = {} /\ Owned(g) \cup st.lost = LiteralMade(n, i)
    <3> HIDE DEF more, b
    <3> QED
      BY <1>1, <1>2, <2>1, <2>3
  <2>5. end \in LiteralStates(n, i)
    BY <1>1, <1>3, <2>1, <2>4 DEF LiteralStates
  <2> QED
    BY <2>2, <2>5 DEF k, v
<1>7. CASE at # 0 /\ kind = "map"
  <2> DEFINE x == b.values[at]
  <2>1. /\ r \in Blocks /\ Separate(r) /\ r.length = b.length
        /\ Owned(r) = (Owned(b) \ {x}) \cup {v} /\ x \in Owned(b)
    <3>1. at \in 1..b.length /\ v \notin Owned(b)
      BY <1>1, <1>2, <1>3, <1>4, <1>7
    <3> HIDE DEF b
    <3> QED
      BY <1>1, <1>2, <1>7, <3>1, ValueReplaced
  <2> HIDE DEF r, x
  <2> DEFINE end == [b |-> r, lost |-> st.lost \cup {k, x}]
  <2>2. AddEntry(st, k, v) = end
    BY <1>5, <1>7 DEF x
  <2>3. /\ Owned(r) \cap (st.lost \cup {k, x}) = {}
        /\ Owned(r) \cup (st.lost \cup {k, x}) = LiteralMade(n, i)
        /\ st.lost \cup {k, x} \subseteq Cells
    <3>1. LiteralMade(n, i) = M \cup {k, v} /\ v \notin M /\ v # k
      BY <1>2, <1>7
    <3>2. M \subseteq Cells
      <4>1. Owned(b) \subseteq Cells
        <5>1. \A j \in 1..b.length : b.keys[j] \in Cells /\ b.values[j] \in Cells
          BY <1>1, BlockFields, ElementOfSeq
        <5> QED
          BY <5>1 DEF Owned, Column
      <4> QED
        BY <1>1, <4>1
    <3> HIDE DEF b
    <3> QED
      BY <1>1, <1>2, <2>1, <3>1, <3>2
  <2>4. end \in LiteralStates(n, i)
    BY <1>3, <2>1, <2>3 DEF LiteralStates
  <2> QED
    BY <2>2, <2>4 DEF k, v
<1>8. CASE at # 0 /\ kind # "map"
  <2> DEFINE end == [b |-> b, lost |-> st.lost \cup {k}]
  <2>1. AddEntry(st, k, v) = end
    BY <1>5, <1>8
  <2>2. /\ Owned(b) \cap (st.lost \cup {k}) = {}
        /\ Owned(b) \cup (st.lost \cup {k}) = LiteralMade(n, i)
    BY <1>1, <1>2, <1>8
  <2>3. end \in LiteralStates(n, i)
    BY <1>1, <1>2, <1>3, <2>2 DEF LiteralStates
  <2> QED
    BY <2>1, <2>3 DEF k, v
<1> QED
  BY <1>6, <1>7, <1>8

\* The loop ends, and keeps what each turn keeps.
LEMMA LiteralTurns ==
    ASSUME NEW n \in Nat, NEW S, [b |-> EmptyBlock, lost |-> {}] \in S[0],
           \A i \in 1..n : \A st \in S[i - 1] : AddEntry(st, Fresh(i), LiteralValue(n, i)) \in S[i]
    PROVE  LET after[i \in 0..n] == IF i = 0 THEN [b |-> EmptyBlock, lost |-> {}]
                                    ELSE AddEntry(after[i - 1], Fresh(i), LiteralValue(n, i))
           IN  after[n] \in S[n]
<1> DEFINE base == [b |-> EmptyBlock, lost |-> {}]
           Turn(i, st) == AddEntry(st, Fresh(i), LiteralValue(n, i))
           F == [i \in 1..n |-> [st \in S[i - 1] |-> Turn(i, st)]]
           Table(f) == [i \in 0..n |-> IF i = 0 THEN base ELSE Turn(i, f[i - 1])]
           after == CHOOSE f : f = Table(f)
<1>1. base \in S[0] /\ \A i \in 1..n : \A st \in S[i - 1] : Turn(i, st) \in S[i]
  OBVIOUS
<1>2. LoopRuns(n, S, base, F)
  <2>1. \A i \in 1..n : F[i] \in [S[i - 1] -> S[i]]
    <3> HIDE DEF Turn, base
    <3> QED
      BY <1>1
  <2> HIDE DEF F, base
  <2> QED
    BY <1>1, <2>1, Iteration
<1> HIDE DEF Turn, base
<1>3. PICK g : IsLoop(g, n, base, F) /\ \A i \in 0..n : g[i] \in S[i]
  BY <1>2 DEF LoopRuns
<1> DEFINE table == [i \in 0..n |-> g[i]]
<1>4. table = Table(table)
  <2>1. g[0] = base
    BY <1>3 DEF IsLoop
  <2>2. ASSUME NEW i \in 0..n, i # 0 PROVE g[i] = Turn(i, g[i - 1])
    <3>1. i \in 1..n /\ i - 1 \in 0..n
      BY <2>2
    <3> QED
      BY <1>3, <3>1 DEF IsLoop
  <2>3. \A i \in 0..n : i # 0 => table[i - 1] = g[i - 1]
    OBVIOUS
  <2> QED
    BY <2>1, <2>2, <2>3
<1> HIDE DEF table
<1>5. after = Table(after)
  BY <1>4
<1> HIDE DEF after
<1>6. after[n] \in S[n]
  <2>1. after[0] \in S[0]
    BY <1>1, <1>5
  <2>2. ASSUME NEW i \in 1..n, after[i - 1] \in S[i - 1] PROVE after[i] \in S[i]
    <3>1. i \in 0..n /\ i - 1 \in 0..n /\ i # 0
      OBVIOUS
    <3>2. after[i] = Turn(i, after[i - 1])
      BY <1>5, <3>1
    <3> QED
      BY <1>1, <2>2, <3>1, <3>2
  <2>3. \A i \in 0..n : after[i] \in S[i]
    BY <2>1, <2>2, LoopKeeps
  <2> QED
    BY <2>3
<1> QED
  BY <1>6 DEF after, Turn, base

\* What the loop starts from.
LEMMA LiteralStart ==
    ASSUME NEW n \in Nat
    PROVE  [b |-> EmptyBlock, lost |-> {}] \in LiteralStates(n, 0)
<1>1. EmptyBlock \in Blocks
  <2>1. 0 \in 0..MaxWord /\ <<>> \in Seq(Cells) /\ Len(<<>>) = 0
    BY CollectionsAssumption
  <2> QED
    BY <2>1 DEF EmptyBlock, Blocks
<1>2. EmptyBlock.length = 0 /\ \A cells : Column(cells, 0) = {} /\ Distinct(cells, 0)
  BY DEF EmptyBlock, Column, Distinct
<1>3. Separate(EmptyBlock)
  BY <1>2 DEF Separate
<1>4. Owned(EmptyBlock) = {}
  BY <1>2 DEF Owned
<1>5. LiteralMade(n, 0) = {}
  BY DEF LiteralMade
<1> QED
  BY <1>1, <1>2, <1>3, <1>4, <1>5 DEF LiteralStates

LEMMA LiteralLoop ==
    ASSUME Len(what) \in Nat, kind \in {"map", "set"}, NEW n \in 0..MaxWord
    PROVE  LET after[i \in 0..n] == IF i = 0 THEN [b |-> EmptyBlock, lost |-> {}]
                                    ELSE AddEntry(after[i - 1], Fresh(i), LiteralValue(n, i))
           IN  after[n] \in LiteralStates(n, n)
<1> DEFINE S == [i \in 0..n |-> LiteralStates(n, i)]
<1>1. n \in Nat
  BY CollectionsAssumption
<1>2. /\ S[0] = LiteralStates(n, 0) /\ S[n] = LiteralStates(n, n)
      /\ \A i \in 1..n : S[i - 1] = LiteralStates(n, i - 1) /\ S[i] = LiteralStates(n, i)
  BY <1>1
<1>3. [b |-> EmptyBlock, lost |-> {}] \in S[0]
  BY <1>1, <1>2, LiteralStart
<1> HIDE DEF S
<1>4. \A i \in 1..n : \A st \in S[i - 1] : AddEntry(st, Fresh(i), LiteralValue(n, i)) \in S[i]
  BY <1>2, AddEntryKeeps
<1> QED
  BY <1>1, <1>2, <1>3, <1>4, LiteralTurns

\* What a program creates for a literal.
LEMMA LiteralCreates ==
    ASSUME IInv, NEW n \in Nat, NEW keys \in [1..n -> Keys]
    PROVE  LET values == [i \in 1..n |-> Value(IF kind = "map" THEN n + i ELSE i)]
           IN  /\ keys \in Seq(Things) /\ Len(keys) = n
               /\ values \in Seq(Things) /\ Len(values) = n
               /\ keys \o values \in Seq(Things) /\ Len(keys \o values) = 2 * n
<1> DEFINE values == [i \in 1..n |-> Value(IF kind = "map" THEN n + i ELSE i)]
<1>1. keys \in [1..n -> Things]
  BY DEF Things
<1>2. keys \in Seq(Things) /\ Len(keys) = n
  BY <1>1, SeqDef
<1>3. values \in [1..n -> Things]
  <2>1. what \in Seq(Things)
    BY DEF IInv
  <2>2. Len(what) \in Nat
    BY <2>1, LenProperties
  <2>3. \A i \in Nat : Value(i) \in Things
    BY <2>2 DEF Value, Fresh, Things
  <2> QED
    BY <2>3
<1> HIDE DEF values
<1>4. values \in Seq(Things) /\ Len(values) = n
  BY <1>3, SeqDef
<1>5. keys \o values \in Seq(Things) /\ Len(keys \o values) = Len(keys) + Len(values)
  BY <1>2, <1>4, ConcatProperties
<1> QED
  BY <1>2, <1>4, <1>5 DEF values

\* VecNew, MapNew, SetNew and the literals.
LEMMA LiteralKeeps ==
    ASSUME IInv, NEW c \in Names, NEW n \in Literals, NEW keys \in [1..n -> Keys], Literal(c, keys)
    PROVE  IInv'
<1> DEFINE L == Len(what)
           values == [i \in 1..n |-> Value(IF kind = "map" THEN n + i ELSE i)]
           value(i) == IF kind = "map" THEN Fresh(n + i) ELSE None
           made == CASE kind = "vec" -> values
                     [] kind = "set" -> keys
                     [] kind = "map" -> keys \o values
           after[i \in 0..n] == IF i = 0 THEN [b |-> EmptyBlock, lost |-> {}]
                                ELSE AddEntry(after[i - 1], Fresh(i), value(i))
           end == after[n]
           vec == [length |-> n, capacity |-> n, keys |-> [i \in 1..n |-> None],
                   values |-> [i \in 1..n |-> Fresh(i)]]
           r == IF kind = "vec" THEN vec ELSE end.b
           W == IF kind = "vec" THEN {} ELSE end.lost
           N == IF kind = "map" THEN 2 * n ELSE n
<1>1. n \in 0..MaxWord /\ n \in Nat /\ kind \in {"vec", "map", "set"}
  BY CollectionsAssumption DEF IInv
<1>2. Len(keys) = n
  BY <1>1, LiteralCreates
<1>3. /\ what' = what \o made /\ dropped' = Dropping(<<>>) /\ UNCHANGED <<kind, out>>
      /\ block' = [block EXCEPT ![c] = r] /\ overwritten' = overwritten \cup W
      /\ OwnedBy(c) = {}
  BY <1>2 DEF Literal, Create, Returns, OwnedBy
<1>4. made \in Seq(Things) /\ Len(made) = N
  BY <1>1, LiteralCreates
<1> HIDE DEF made
<1>5. L \in Nat /\ Resources = 1..L /\ Resources \subseteq DOMAIN what'
  BY <1>3, <1>4, Created
<1>6. /\ r \in Blocks /\ Separate(r) /\ Owned(r) \cap W = {}
      /\ Owned(r) \cup W = (L + 1)..(L + N)
  <2>1. CASE kind = "vec"
    <3>1. /\ vec \in Blocks /\ Separate(vec) /\ Owned(vec) = (L + 1)..(L + n)
      BY <1>1, <1>5, <2>1, FreshBlock
    <3> QED
      BY <2>1, <3>1
  <2>2. CASE kind # "vec"
    <3>1. end \in LiteralStates(n, n)
      BY <1>1, <1>5, <2>2, LiteralLoop DEF LiteralValue
    <3> HIDE DEF end
    <3>2. /\ end.b \in Blocks /\ Separate(end.b) /\ Owned(end.b) \cap end.lost = {}
          /\ Owned(end.b) \cup end.lost = LiteralMade(n, n)
      BY <3>1 DEF LiteralStates
    <3>3. LiteralMade(n, n) = (L + 1)..(L + N)
      <4>1. {Fresh(j) : j \in 1..n} = (L + 1)..(L + n)
        <5>1. \A x \in (L + 1)..(L + n) : x - L \in 1..n /\ x = L + (x - L)
          BY <1>1, <1>5
        <5>2. \A j \in 1..n : L + j \in (L + 1)..(L + n)
          BY <1>1, <1>5
        <5> QED
          BY <5>1, <5>2 DEF Fresh
      <4>2. {Fresh(n + j) : j \in 1..n} = (L + n + 1)..(L + 2 * n)
        <5>1. \A x \in (L + n + 1)..(L + 2 * n) : x - (L + n) \in 1..n /\ x = L + (n + (x - (L + n)))
          BY <1>1, <1>5
        <5>2. \A j \in 1..n : L + (n + j) \in (L + n + 1)..(L + 2 * n)
          BY <1>1, <1>5
        <5> QED
          BY <5>1, <5>2 DEF Fresh
      <4>3. ((L + 1)..(L + n)) \cup ((L + n + 1)..(L + 2 * n)) = (L + 1)..(L + 2 * n)
        BY <1>1, <1>5
      <4> HIDE DEF L
      <4> QED
        BY <2>2, <4>1, <4>2, <4>3 DEF LiteralMade
    <3> QED
      BY <2>2, <3>2, <3>3
  <2> QED
    BY <2>1, <2>2
<1> HIDE DEF r, W, N
<1>7. Exchanged(c, r, made, {}, {}, W)
  BY <1>3, <1>4, <1>5, <1>6, NothingDropped, AbsentAssumption DEF Exchanged
<1> QED
  BY <1>7, Exchange

-----------------------------------------------------------------------------
(* The invariant *)

LEMMA InitIInv == Init => IInv
<1> SUFFICES ASSUME Init PROVE IInv
  OBVIOUS
<1>1. Resources = {} /\ what \in Seq(Things)
  BY DEF Init, Resources
<1>2. /\ block \in [Names -> Blocks \cup {Absent}] /\ \A c \in Names : block[c] = Absent
  BY DEF Init
<1>3. Held = {} /\ \A c \in Names : OwnedBy(c) = {}
  BY <1>2 DEF Held, OwnedBy
<1>4. dropped \in [Resources -> {0, 1}] /\ Dropped = {}
  BY <1>1 DEF Init, Dropped
<1> QED
  BY <1>1, <1>2, <1>3, <1>4 DEF Init, IInv, Partition, Present

LEMMA NextIInv == IInv /\ [Next]_vars => IInv'
<1> SUFFICES ASSUME IInv, [Next]_vars PROVE IInv'
  OBVIOUS
<1>1. CASE UNCHANGED vars
  BY <1>1, IdleKeeps DEF vars
<1>2. CASE UseAnswer
  BY <1>2, IdleKeeps DEF UseAnswer, history
<1>3. ASSUME NEW c \in Names, Call(c) PROVE IInv'
  <2>1. CASE \E n \in Literals : \E keys \in [1..n -> Keys] : Literal(c, keys)
    BY <2>1, LiteralKeeps
  <2>2. CASE \E i \in Indices : VecRemove(c, i) \/ VecInsert(c, i)
    BY <2>2, VecRemoveKeeps, VecInsertKeeps, CollectionsAssumption
  <2>3. CASE \E k \in Keys : MapInsert(c, k) \/ MapRemove(c, k) \/ SetInsert(c, k) \/ SetRemove(c, k)
    BY <2>3, MapInsertKeeps, MapRemoveKeeps, SetInsertKeeps, SetRemoveKeeps
  <2>4. CASE VecPop(c) \/ Clear(c) \/ DropCollection(c)
    BY <2>4, VecPopKeeps, ClearKeeps, DropCollectionKeeps
  <2>5. CASE Read(c)
    BY <2>5, IdleKeeps DEF Read, Answers, history
  <2>6. CASE \E d \in Names : CloneCollection(c, d) \/ Concatenate(c, d)
    BY <2>6, CloneCollectionKeeps, ConcatenateKeeps
  <2>7. CASE \E d \in Names : Compare(c, d)
    BY <2>7, IdleKeeps DEF Compare, Answers, history
  <2> QED
    BY <1>3, <2>1, <2>2, <2>3, <2>4, <2>5, <2>6, <2>7 DEF Call
<1> QED
  BY <1>1, <1>2, <1>3 DEF Next

\* Whatever a program does with its collections, the resources of the cells in
\* use, those dropped, those returned and those a literal overwrote are all it
\* created, and no two of these share one.
THEOREM CollectionsInductive == Spec => []IInv
BY InitIInv, NextIInv, PTL DEF Spec

\* The cells in use of all collections, seen from a resource.
LEMMA PlacesOfOne ==
    ASSUME IInv, NEW r \in Resources
    PROVE  Cardinality(Places(r)) = IF r \in Held THEN 1 ELSE 0
<1> DEFINE U == [c \in Present |-> Used(block[c])]
<1>1. ASSUME NEW c \in Present
      PROVE  /\ c \in Names
             /\ \A i \in DOMAIN U[c] : i \in 1..2 * MaxWord /\ U[c][i] \in OwnedBy(c)
             /\ \A i, j \in DOMAIN U[c] : U[c][i] = U[c][j] => i = j
             /\ \A x \in OwnedBy(c) : \E i \in DOMAIN U[c] : U[c][i] = x
  <2> DEFINE b == block[c]
             u == Used(b)
  <2>1. c \in Names /\ b # Absent
    BY DEF Present
  <2>2. b \in Blocks /\ Separate(b) /\ OwnedBy(c) = Owned(b) /\ kind \in {"vec", "map", "set"}
    BY <2>1, PresentBlock DEF IInv
  <2>3. /\ u \in Seq(Cells) /\ Len(u) <= 2 * MaxWord /\ DOMAIN u = 1..Len(u)
        /\ \A i, j \in DOMAIN u : u[i] = u[j] => i = j
        /\ {u[i] : i \in DOMAIN u} = OwnedBy(c)
    <3> HIDE DEF b
    <3> QED
      BY <2>2, UsedCells
  <2>4. U[c] = u
    OBVIOUS
  <2> HIDE DEF u, U, b
  <2>5. \A i \in DOMAIN u : i \in 1..2 * MaxWord
    BY <2>3, LenProperties, CollectionsAssumption
  <2> QED
    BY <2>1, <2>3, <2>4, <2>5
<1>2. Places(r) = {p \in Present \X (1..2 * MaxWord) : p[2] \in DOMAIN U[p[1]] /\ U[p[1]][p[2]] = r}
  BY DEF Places
<1> HIDE DEF U
<1>3. ASSUME r \in Held
      PROVE  Cardinality(Places(r)) = 1
  <2>1. PICK c \in Names : r \in OwnedBy(c)
    BY <1>3 DEF Held
  <2>2. c \in Present
    BY <2>1 DEF OwnedBy, Present
  <2>3. PICK i \in DOMAIN U[c] : U[c][i] = r
    BY <1>1, <2>1, <2>2
  <2>4. <<c, i>> \in Places(r)
    BY <1>1, <1>2, <2>2, <2>3
  <2>5. ASSUME NEW d \in Present, NEW j \in DOMAIN U[d], U[d][j] = r PROVE d = c /\ j = i
    <3>1. r \in OwnedBy(d) /\ d \in Names
      BY <1>1, <2>5
    <3>2. d = c
      BY <2>1, <3>1 DEF IInv, Partition
    <3> QED
      BY <1>1, <2>2, <2>3, <2>5, <3>2
  <2>6. Places(r) = {<<c, i>>}
    <3>1. ASSUME NEW p \in Places(r) PROVE p = <<c, i>>
      <4>1. /\ p \in Present \X (1..2 * MaxWord)
            /\ p[2] \in DOMAIN U[p[1]] /\ U[p[1]][p[2]] = r
        BY <1>2
      <4>2. p[1] \in Present /\ p = <<p[1], p[2]>>
        BY <4>1
      <4> QED
        BY <2>5, <4>1, <4>2
    <3> QED
      BY <2>4, <3>1
  <2> QED
    BY <2>6, FS_Singleton
<1>4. ASSUME r \notin Held
      PROVE  Cardinality(Places(r)) = 0
  <2>1. ASSUME NEW p \in Places(r) PROVE FALSE
    <3>1. p[1] \in Present /\ p[2] \in DOMAIN U[p[1]] /\ U[p[1]][p[2]] = r
      BY <1>2
    <3>2. p[1] \in Names /\ r \in OwnedBy(p[1])
      BY <1>1, <3>1
    <3> QED
      BY <1>4, <3>2 DEF Held
  <2>2. Places(r) = {}
    BY <2>1
  <2> QED
    BY <2>2, FS_EmptySet
<1> QED
  BY <1>3, <1>4

\* Every resource the program hands to the generated Vec, Map and Set helpers
\* has exactly one owner, whatever the order of calls, the growth of the arrays
\* and the equality and hash of the elements.
THEOREM CollectionsOwnOnce == Spec => []OwnedOnce
<1>1. IInv => OwnedOnce
  <2> SUFFICES ASSUME IInv, NEW r \in Resources
               PROVE  Cardinality(Places(r)) + dropped[r] + (IF r \in out THEN 1 ELSE 0)
                         + (IF r \in overwritten THEN 1 ELSE 0) = 1
    BY DEF OwnedOnce
  <2>1. Cardinality(Places(r)) = IF r \in Held THEN 1 ELSE 0
    BY PlacesOfOne
  <2>2. dropped[r] = IF r \in Dropped THEN 1 ELSE 0
    BY DEF IInv, Dropped
  <2>3. /\ r \in Held \/ r \in Dropped \/ r \in out \/ r \in overwritten
        /\ ~(r \in Held /\ r \in Dropped) /\ ~(r \in Held /\ r \in out)
        /\ ~(r \in Held /\ r \in overwritten) /\ ~(r \in Dropped /\ r \in out)
        /\ ~(r \in Dropped /\ r \in overwritten) /\ ~(r \in out /\ r \in overwritten)
    BY DEF IInv, Partition
  <2> QED
    BY <2>1, <2>2, <2>3
<1> QED
  BY <1>1, CollectionsInductive, PTL

-----------------------------------------------------------------------------
(* The refinement *)

\* What the cells of a Map or a Set stand for, entry by entry.
LEMMA MapView ==
    ASSUME kind = "map", NEW w, NEW b, Filled(w, b)
    PROVE  \A i \in 1..b.length :
              View(w, b)[MeaningOf(w[b.keys[i]])] = MeaningOf(w[b.values[i]])
<1> DEFINE K(i) == MeaningOf(w[b.keys[i]])
           V(i) == MeaningOf(w[b.values[i]])
           Has == {K(i) : i \in 1..b.length}
<1>1. View(w, b) = [m \in Has |-> V(CHOOSE i \in 1..b.length : K(i) = m)]
  BY DEF View
<1>2. ASSUME NEW i \in 1..b.length PROVE (CHOOSE j \in 1..b.length : K(j) = K(i)) = i
  <2>1. \A j \in 1..b.length : K(j) = K(i) => j = i
    BY DEF Filled, HasKeys
  <2> HIDE DEF K
  <2> QED
    BY <2>1
<1> QED
  BY <1>1, <1>2

LEMMA MapDomain ==
    ASSUME kind = "map", NEW w, NEW b
    PROVE  LET Has == {MeaningOf(w[b.keys[i]]) : i \in 1..b.length}
           IN  DOMAIN View(w, b) = Has /\ View(w, b) = [m \in Has |-> View(w, b)[m]]
BY DEF View

LEMMA SetView ==
    ASSUME kind = "set", NEW w, NEW b
    PROVE  View(w, b) = [m \in {MeaningOf(w[b.keys[i]]) : i \in 1..b.length} |-> TRUE]
BY DEF View

LEMMA VecView ==
    ASSUME kind = "vec", NEW w, NEW b, NEW n \in Nat, b.length = n
    PROVE  /\ View(w, b) = [i \in 1..n |-> MeaningOf(w[b.values[i]])]
           /\ DOMAIN View(w, b) = 1..n
           /\ Len(View(w, b)) = n
BY DEF View

\* The search finds a key that means the same, if there is one.
LEMMA Found ==
    ASSUME ElementsAgree, NEW w, NEW b \in Blocks, Filled(w, b), HasKeys, NEW key \in Keys
    PROVE  LET at == FindAmong(w, b, key)
           IN  \/ at = -1 /\ \A i \in 1..b.length : MeaningOf(w[b.keys[i]]) # MeaningOf(key)
               \/ at + 1 \in 1..b.length /\ MeaningOf(w[b.keys[at + 1]]) = MeaningOf(key)
<1> DEFINE S == {i \in 1..b.length : /\ HashOf(w[b.keys[i]]) = HashOf(key)
                                     /\ Equals(w[b.keys[i]], key)}
<1>1. S = {i \in 1..b.length : MeaningOf(w[b.keys[i]]) = MeaningOf(key)}
  <2>1. ASSUME NEW i \in 1..b.length
        PROVE  (HashOf(w[b.keys[i]]) = HashOf(key) /\ Equals(w[b.keys[i]], key))
                  <=> MeaningOf(w[b.keys[i]]) = MeaningOf(key)
    <3>1. w[b.keys[i]] \in Keys
      BY DEF Filled
    <3> QED
      BY <3>1 DEF ElementsAgree, Same
  <2> QED
    BY <2>1
<1>2. CASE S = {}
  BY <1>1, <1>2 DEF FindAmong
<1>3. CASE S # {}
  <2> DEFINE first == CHOOSE i \in S : \A j \in S : i <= j
  <2>1. S \subseteq Nat
    OBVIOUS
  <2>2. first \in S
    <3> HIDE DEF S
    <3> QED
      BY <1>3, <2>1, FirstIndex
  <2>3. FindAmong(w, b, key) = first - 1
    BY <1>3 DEF FindAmong
  <2>4. first \in 1..b.length /\ MeaningOf(w[b.keys[first]]) = MeaningOf(key)
    BY <1>1, <2>2
  <2>5. first \in Nat /\ FindAmong(w, b, key) + 1 = first
    <3> HIDE DEF first
    <3> QED
      BY <2>3, <2>4, BlockFields
  <2> QED
    BY <2>4, <2>5
<1> QED
  BY <1>2, <1>3

\* A block stands for what it did when the resources it owns are what they were.
LEMMA ViewKept ==
    ASSUME kind \in {"vec", "map", "set"}, NEW w, NEW v, NEW b,
           \A r \in Owned(b) : w[r] = v[r]
    PROVE  View(w, b) = View(v, b) /\ (Filled(v, b) => Filled(w, b))
<1>1. ASSUME HasKeys PROVE \A i \in 1..b.length : w[b.keys[i]] = v[b.keys[i]]
  BY <1>1 DEF Owned, Column
<1>2. ASSUME HasValues PROVE \A i \in 1..b.length : w[b.values[i]] = v[b.values[i]]
  BY <1>2 DEF Owned, Column
<1>3. View(w, b) = View(v, b)
  <2>1. CASE kind = "vec"
    BY <1>2, <2>1 DEF View, HasValues
  <2>2. CASE kind = "set"
    <3> DEFINE Has(u) == {MeaningOf(u[b.keys[i]]) : i \in 1..b.length}
    <3>1. Has(w) = Has(v)
      BY <1>1, <2>2 DEF HasKeys
    <3>2. View(w, b) = [m \in Has(w) |-> TRUE] /\ View(v, b) = [m \in Has(v) |-> TRUE]
      BY <2>2, SetView
    <3> HIDE DEF Has
    <3> QED
      BY <3>1, <3>2
  <2>3. CASE kind = "map"
    <3> DEFINE K(i) == MeaningOf(w[b.keys[i]])
               L(i) == MeaningOf(v[b.keys[i]])
    <3>1. {K(i) : i \in 1..b.length} = {L(i) : i \in 1..b.length}
      BY <1>1, <2>3 DEF HasKeys
    <3>2. \A m : (CHOOSE i \in 1..b.length : K(i) = m) = (CHOOSE i \in 1..b.length : L(i) = m)
      BY <1>1, <2>3 DEF HasKeys
    <3> DEFINE At(m) == CHOOSE i \in 1..b.length : K(i) = m
               Bt(m) == CHOOSE i \in 1..b.length : L(i) = m
               Has == {K(i) : i \in 1..b.length}
    <3>3. \A m \in Has : At(m) \in 1..b.length
      OBVIOUS
    <3>4. /\ View(w, b) = [m \in Has |-> MeaningOf(w[b.values[At(m)]])]
          /\ View(v, b) = [m \in {L(i) : i \in 1..b.length} |-> MeaningOf(v[b.values[Bt(m)]])]
      BY <2>3 DEF View
    <3>5. \A m \in Has : w[b.values[At(m)]] = v[b.values[At(m)]] /\ At(m) = Bt(m)
      <4> HIDE DEF Has, At
      <4>1. \A m \in Has : w[b.values[At(m)]] = v[b.values[At(m)]]
        BY <1>2, <2>3, <3>3 DEF HasValues
      <4> QED
        BY <3>2, <4>1 DEF At
    <3>6. Has = {L(i) : i \in 1..b.length}
      BY <3>1
    <3> HIDE DEF K, L, At, Bt, Has
    <3> QED
      BY <3>4, <3>5, <3>6
  <2> QED
    BY <2>1, <2>2, <2>3
<1>4. Filled(v, b) => Filled(w, b)
  BY <1>1, <1>2 DEF Filled
<1> QED
  BY <1>3, <1>4

-----------------------------------------------------------------------------
(* From blocks to the contents of all names *)

Filling == \A c \in Present : Filled(what, block[c])

\* What the resources of all collections are is not changed by a call.
LEMMA WhatKept ==
    ASSUME IInv, NEW made \in Seq(Things), what' = what \o made
    PROVE  /\ \A r \in Resources : what'[r] = what[r]
           /\ \A n \in 1..Len(made) : Fresh(n) \in DOMAIN what' /\ what'[Fresh(n)] = made[n]
<1>1. what \in Seq(Things)
  BY DEF IInv
<1> QED
  BY <1>1 DEF Resources, Fresh

\* A name whose block a call leaves alone stands for what it did.
LEMMA OthersKept ==
    ASSUME RInv, kind' = kind, \A r \in Resources : what'[r] = what[r],
           NEW c \in Names, block'[c] = block[c]
    PROVE  /\ Contents(c)' = Contents(c)
           /\ block[c] # Absent => Filled(what, block[c])'
<1>1. CASE block[c] = Absent
  BY <1>1 DEF Contents
<1>2. CASE block[c] # Absent
  <2>1. /\ kind \in {"vec", "map", "set"} /\ Owned(block[c]) \subseteq Resources
        /\ Filled(what, block[c])
    BY <1>2, PresentBlock DEF RInv, IInv, Present
  <2>2. View(what', block[c]) = View(what, block[c]) /\ Filled(what', block[c])
    BY <2>1, ViewKept
  <2>3. View(what, block[c])' = View(what', block[c])
    BY DEF View
  <2>4. Filled(what, block[c])' <=> Filled(what', block[c])
    BY DEF Filled, HasKeys, HasValues
  <2> QED
    BY <1>2, <2>2, <2>3, <2>4 DEF Contents
<1> QED
  BY <1>1, <1>2

\* What a collection stands for is not the mark of a name without one.
LEMMA ViewPresent ==
    ASSUME NamesAgree, kind \in {"vec", "map", "set"}, NEW w, NEW b \in Blocks, Filled(w, b)
    PROVE  View(w, b) # Absent
<1> DEFINE M == {MeaningOf(x) : x \in Keys \cup Items}
           Has == {MeaningOf(w[b.keys[i]]) : i \in 1..b.length}
<1>1. /\ Absent \notin Short(M)
      /\ \A S \in SUBSET M : Absent \notin [S -> M] /\ Absent \notin [S -> {TRUE}]
  BY DEF NamesAgree
<1>2. b.length \in 0..MaxWord
  BY BlockFields
<1>3. HasKeys => Has \in SUBSET M
  BY DEF Filled
<1>4. HasValues => \A i \in 1..b.length : MeaningOf(w[b.values[i]]) \in M
  BY DEF Filled
<1>5. CASE kind = "vec"
  <2>1. View(w, b) \in [1..b.length -> M]
    <3> HIDE DEF M
    <3> QED
      BY <1>4, <1>5 DEF View, HasValues
  <2> QED
    BY <1>1, <1>2, <2>1 DEF Short
<1>6. CASE kind = "set"
  <2>1. View(w, b) \in [Has -> {TRUE}]
    BY <1>6, SetView
  <2> HIDE DEF M, Has
  <2> QED
    BY <1>1, <1>3, <1>6, <2>1 DEF HasKeys
<1>7. CASE kind = "map"
  <2>1. \A i \in 1..b.length : View(w, b)[MeaningOf(w[b.keys[i]])] \in M
    <3>1. ASSUME NEW i \in 1..b.length
          PROVE  View(w, b)[MeaningOf(w[b.keys[i]])] = MeaningOf(w[b.values[i]])
      BY <1>7, MapView
    <3> HIDE DEF M
    <3> QED
      BY <1>4, <1>7, <3>1 DEF HasValues
  <2>2. View(w, b) = [m \in Has |-> View(w, b)[m]]
    BY <1>7, MapDomain
  <2>3. View(w, b) \in [Has -> M]
    <3>1. \A m \in Has : View(w, b)[m] \in M
      BY <2>1
    <3> HIDE DEF Has, M
    <3> QED
      BY <2>2, <3>1
  <2> HIDE DEF M, Has
  <2> QED
    BY <1>1, <1>3, <1>7, <2>3 DEF HasKeys
<1> QED
  BY <1>5, <1>6, <1>7

\* A call that leaves b in c.
LEMMA Becomes ==
    ASSUME RInv, kind' = kind, NEW made \in Seq(Things), what' = what \o made,
           NEW c \in Names, NEW b, Filled(what', b), b # Absent,
           block' = [block EXCEPT ![c] = b]
    PROVE  /\ Filling'
           /\ Abstract!Becomes(c, View(what', b), answer')
<1>1. \A r \in Resources : what'[r] = what[r]
  BY WhatKept DEF RInv
<1>2. block \in [Names -> Blocks \cup {Absent}]
  BY DEF RInv, IInv
<1>3. \A d \in Names : block'[d] = IF d = c THEN b ELSE block[d]
  BY <1>2
<1>4. View(what, block[c])' = View(what', b) /\ (Filled(what, block[c])' <=> Filled(what', b))
  <2>1. block'[c] = b
    BY <1>3
  <2>2. View(what, block[c])' = View(what', b)
    <3>1. View(what, block[c])' = View(what', block'[c])
      BY DEF View
    <3> QED
      BY <2>1, <3>1
  <2>3. Filled(what, block[c])' <=> Filled(what', b)
    BY <2>1 DEF Filled, HasKeys, HasValues
  <2> QED
    BY <2>2, <2>3
<1>5. \A d \in Names \ {c} : Contents(d)' = Contents(d)
  BY <1>1, <1>3, OthersKept
<1>6. Contents(c)' = View(what', b)
  BY <1>3, <1>4 DEF Contents
<1>7. \A d \in Names \ {c} : block[d] # Absent => Filled(what, block[d])'
  BY <1>1, <1>3, OthersKept
<1>8. Filling'
  BY <1>3, <1>4, <1>7 DEF Filling, Present
<1>9. [d \in Names |-> Contents(d)]' = [[d \in Names |-> Contents(d)] EXCEPT ![c] = View(what', b)]
  BY <1>5, <1>6
<1> QED
  BY <1>8, <1>9 DEF Abstract!Becomes

\* A call that takes the collection from c.
LEMMA Vanishes ==
    ASSUME RInv, kind' = kind, UNCHANGED what, NEW c \in Names,
           block' = [block EXCEPT ![c] = Absent]
    PROVE  Filling' /\ Abstract!Becomes(c, Absent, answer')
<1>1. block \in [Names -> Blocks \cup {Absent}]
  BY DEF RInv, IInv
<1>2. \A d \in Names : block'[d] = IF d = c THEN Absent ELSE block[d]
  BY <1>1
<1>3. \A d \in Names \ {c} : Contents(d)' = Contents(d)
  BY <1>2, OthersKept
<1>4. Contents(c)' = Absent
  BY <1>2 DEF Contents
<1>5. \A d \in Names \ {c} : block[d] # Absent => Filled(what, block[d])'
  BY <1>2, OthersKept
<1>6. Filling'
  BY <1>2, <1>5 DEF Filling, Present
<1>7. [d \in Names |-> Contents(d)]' = [[d \in Names |-> Contents(d)] EXCEPT ![c] = Absent]
  BY <1>3, <1>4
<1> QED
  BY <1>6, <1>7 DEF Abstract!Becomes

\* A call that changes no collection.
LEMMA ContentsKept ==
    ASSUME RInv, UNCHANGED <<kind, block, what>>
    PROVE  Filling' /\ UNCHANGED [d \in Names |-> Contents(d)]
BY OthersKept DEF Filling, Present, Contents, View, Filled, HasKeys, HasValues, RInv

\* What an abstract call may assume of the collection it is given.
LEMMA Given ==
    ASSUME RInv, NamesAgree, NEW c \in Names, block[c] # Absent
    PROVE  /\ block[c] \in Blocks /\ Filled(what, block[c]) /\ block[c].length \in Nat
           /\ Contents(c) = View(what, block[c]) /\ Contents(c) # Absent
           /\ Owned(block[c]) \subseteq Resources
           /\ kind \in {"vec", "map", "set"}
<1>1. /\ block[c] \in Blocks /\ Filled(what, block[c]) /\ kind \in {"vec", "map", "set"}
      /\ Owned(block[c]) \subseteq Resources
  BY PresentBlock DEF RInv, IInv, Present
<1> QED
  BY <1>1, ViewPresent, BlockFields DEF Contents

-----------------------------------------------------------------------------
(* Each call is a call of the specification *)

Simulated == Filling' /\ (Abstract!Next \/ UNCHANGED Abstract!vars)

\* An array into which an element was inserted, or from which one was removed.
LEMMA SlicesOf ==
    ASSUME NEW S, NEW s \in Seq(S), NEW i \in 0..Len(s), NEW k \in 1..(Len(s) + 1)
    PROVE  /\ SubSeq(s, 1, i) \in Seq(S) /\ Len(SubSeq(s, 1, i)) = i
           /\ \A j \in 1..i : SubSeq(s, 1, i)[j] = s[j]
           /\ SubSeq(s, k, Len(s)) \in Seq(S) /\ Len(SubSeq(s, k, Len(s))) = Len(s) - k + 1
           /\ \A j \in 1..(Len(s) - k + 1) : SubSeq(s, k, Len(s))[j] = s[k + j - 1]
<1>1. Len(s) \in Nat /\ i \in Int /\ k \in Int
  BY LenProperties
<1>2. (\A j \in 1..i : s[j] \in S) /\ (\A j \in k..Len(s) : s[j] \in S)
  BY <1>1, ElementOfSeq
<1>3. /\ SubSeq(s, 1, i) \in Seq(S) /\ Len(SubSeq(s, 1, i)) = IF 1 <= i THEN i - 1 + 1 ELSE 0
      /\ \A j \in 1..(i - 1 + 1) : SubSeq(s, 1, i)[j] = s[1 + j - 1]
  BY <1>1, <1>2, SubSeqProperties
<1>4. /\ SubSeq(s, k, Len(s)) \in Seq(S)
      /\ Len(SubSeq(s, k, Len(s))) = IF k <= Len(s) THEN Len(s) - k + 1 ELSE 0
      /\ \A j \in 1..(Len(s) - k + 1) : SubSeq(s, k, Len(s))[j] = s[k + j - 1]
  BY <1>1, <1>2, SubSeqProperties
<1> QED
  BY <1>1, <1>3, <1>4

LEMMA Inserted ==
    ASSUME NEW S, NEW s \in Seq(S), NEW i \in 0..Len(s), NEW e \in S, NEW t,
           t = [j \in 1..(Len(s) + 1) |->
                   IF j <= i THEN s[j] ELSE IF j = i + 1 THEN e ELSE s[j - 1]]
    PROVE  t = Abstract!InsertAt(s, i + 1, e)
<1> DEFINE low == SubSeq(s, 1, i)
           high == SubSeq(s, i + 1, Len(s))
           n == Len(s)
<1>1. n \in Nat /\ i + 1 \in 1..(n + 1)
  BY LenProperties
<1>2. /\ low \in Seq(S) /\ Len(low) = i /\ \A j \in 1..i : low[j] = s[j]
      /\ high \in Seq(S) /\ Len(high) = n - i /\ \A j \in 1..(n - i) : high[j] = s[i + j]
  BY <1>1, SlicesOf
<1>3. <<e>> \in Seq(S) /\ Len(<<e>>) = 1 /\ <<e>>[1] = e
  OBVIOUS
<1> DEFINE head == low \o <<e>>
           all == head \o high
<1> HIDE DEF low, high
<1>4. /\ head \in Seq(S) /\ Len(head) = i + 1
      /\ \A j \in 1..(i + 1) : head[j] = IF j <= i THEN s[j] ELSE e
  <2>1. /\ head \in Seq(S) /\ Len(head) = Len(low) + Len(<<e>>)
        /\ \A j \in 1..(Len(low) + Len(<<e>>)) :
              head[j] = IF j <= Len(low) THEN low[j] ELSE <<e>>[j - Len(low)]
    BY <1>2, <1>3, ConcatProperties
  <2> QED
    BY <1>1, <1>2, <1>3, <2>1
<1> HIDE DEF head
<1>5. /\ all \in Seq(S) /\ Len(all) = n + 1
      /\ \A j \in 1..(n + 1) : all[j] = IF j <= i + 1 THEN head[j] ELSE high[j - (i + 1)]
  <2>1. /\ all \in Seq(S) /\ Len(all) = Len(head) + Len(high)
        /\ \A j \in 1..(Len(head) + Len(high)) :
              all[j] = IF j <= Len(head) THEN head[j] ELSE high[j - Len(head)]
    <3>1. head \in Seq(S) /\ high \in Seq(S)
      BY <1>2, <1>4
    <3> QED
      BY <3>1, ConcatProperties
  <2> QED
    BY <1>1, <1>2, <1>4, <2>1
<1> HIDE DEF all, n
<1>6. DOMAIN all = 1..(n + 1) /\ all = [j \in 1..(n + 1) |-> all[j]]
  BY <1>1, <1>5, LenProperties
<1>7. ASSUME NEW j \in 1..(n + 1)
      PROVE  all[j] = IF j <= i THEN s[j] ELSE IF j = i + 1 THEN e ELSE s[j - 1]
  <2>1. CASE j <= i + 1
    BY <1>1, <1>4, <1>5, <2>1
  <2>2. CASE j > i + 1
    <3>1. all[j] = high[j - (i + 1)]
      BY <1>1, <1>5, <2>2
    <3>2. j - (i + 1) \in 1..(n - i) /\ i + (j - (i + 1)) = j - 1 /\ ~(j <= i) /\ j # i + 1
      BY <1>1, <2>2
    <3>3. high[j - (i + 1)] = s[i + (j - (i + 1))]
      BY <1>2, <3>2
    <3> QED
      BY <3>1, <3>2, <3>3
  <2> QED
    BY <1>1, <2>1, <2>2
<1>8. t = all
  BY <1>6, <1>7 DEF n
<1>9. Abstract!InsertAt(s, i + 1, e) = all
  <2>1. SubSeq(s, 1, (i + 1) - 1) = low /\ SubSeq(s, i + 1, Len(s)) = high
    BY DEF low, high, n
  <2>2. Abstract!InsertAt(s, i + 1, e) = SubSeq(s, 1, (i + 1) - 1) \o <<e>> \o SubSeq(s, i + 1, Len(s))
    BY DEF Abstract!InsertAt
  <2> QED
    BY <2>1, <2>2 DEF all, head
<1> QED
  BY <1>8, <1>9

LEMMA Removed ==
    ASSUME NEW S, NEW s \in Seq(S), NEW i \in 0..(Len(s) - 1), NEW t,
           t = [j \in 1..(Len(s) - 1) |-> IF j <= i THEN s[j] ELSE s[j + 1]]
    PROVE  t = Abstract!RemoveAt(s, i + 1)
<1> DEFINE n == Len(s)
           low == SubSeq(s, 1, i)
           high == SubSeq(s, i + 2, n)
           all == low \o high
<1>1. n \in Nat /\ i + 2 \in 1..(n + 1) /\ i \in 0..n
  BY LenProperties
<1>2. /\ low \in Seq(S) /\ Len(low) = i /\ \A j \in 1..i : low[j] = s[j]
      /\ high \in Seq(S) /\ Len(high) = n - i - 1
      /\ \A j \in 1..(n - i - 1) : high[j] = s[i + 1 + j]
  BY <1>1, SlicesOf
<1> HIDE DEF low, high
<1>3. /\ all \in Seq(S) /\ Len(all) = n - 1
      /\ \A j \in 1..(n - 1) : all[j] = IF j <= i THEN low[j] ELSE high[j - i]
  <2>1. /\ all \in Seq(S) /\ Len(all) = Len(low) + Len(high)
        /\ \A j \in 1..(Len(low) + Len(high)) :
              all[j] = IF j <= Len(low) THEN low[j] ELSE high[j - Len(low)]
    BY <1>2, ConcatProperties
  <2> QED
    BY <1>1, <1>2, <2>1
<1> HIDE DEF all, n
<1>4. all = [j \in 1..(n - 1) |-> all[j]]
  BY <1>1, <1>3, LenProperties
<1>5. ASSUME NEW j \in 1..(n - 1)
      PROVE  all[j] = IF j <= i THEN s[j] ELSE s[j + 1]
  <2>1. CASE j <= i
    BY <1>1, <1>2, <1>3, <2>1
  <2>2. CASE j > i
    <3>1. j - i \in 1..(n - i - 1) /\ i + 1 + (j - i) = j + 1 /\ ~(j <= i)
      BY <1>1, <2>2
    <3>2. all[j] = high[j - i] /\ high[j - i] = s[i + 1 + (j - i)]
      BY <1>2, <1>3, <3>1
    <3> QED
      BY <3>1, <3>2
  <2> QED
    BY <1>1, <2>1, <2>2
<1>6. t = all
  BY <1>4, <1>5 DEF n
<1>7. Abstract!RemoveAt(s, i + 1) = all
  <2>1. SubSeq(s, 1, (i + 1) - 1) = low /\ SubSeq(s, (i + 1) + 1, Len(s)) = high
    BY <1>1 DEF low, high, n
  <2>2. Abstract!RemoveAt(s, i + 1) = SubSeq(s, 1, (i + 1) - 1) \o SubSeq(s, (i + 1) + 1, Len(s))
    BY DEF Abstract!RemoveAt
  <2> QED
    BY <2>1, <2>2 DEF all
<1> QED
  BY <1>6, <1>7

LEMMA VecSeq ==
    ASSUME kind = "vec", NEW w, NEW b \in Blocks, Filled(w, b)
    PROVE  View(w, b) \in Seq({MeaningOf(x) : x \in Items}) /\ Len(View(w, b)) = b.length
<1> DEFINE M == {MeaningOf(x) : x \in Items}
<1>1. b.length \in Nat
  BY BlockFields
<1>2. \A i \in 1..b.length : MeaningOf(w[b.values[i]]) \in M
  BY DEF Filled, HasValues
<1>3. View(w, b) = [i \in 1..b.length |-> MeaningOf(w[b.values[i]])]
  BY <1>1, VecView
<1> HIDE DEF M
<1>4. View(w, b) \in [1..b.length -> M]
  BY <1>2, <1>3
<1>5. View(w, b) \in Seq(M)
  BY <1>1, <1>4, SeqDef
<1>6. Len(View(w, b)) = b.length
  BY <1>1, VecView
<1> QED
  BY <1>5, <1>6 DEF M

LEMMA EmptyView ==
    ASSUME kind \in {"vec", "map", "set"}, NEW w, NEW b, b.length = 0
    PROVE  View(w, b) = <<>> /\ Filled(w, b)
<1>1. Filled(w, b)
  BY DEF Filled
<1>2. View(w, b) = <<>>
  BY DEF View
<1> QED
  BY <1>1, <1>2

LEMMA ClearImplements ==
    ASSUME RInv, HelpersAgree, NEW c \in Names, Clear(c)
    PROVE  Simulated
<1> DEFINE b == block[c]
           r == [b EXCEPT !.length = 0]
<1>1. /\ b \in Blocks /\ Contents(c) # Absent /\ kind \in {"vec", "map", "set"}
  BY Given DEF Clear, HelpersAgree
<1>2. r \in Blocks /\ r.length = 0
  BY <1>1, BlockFields, AllRemoved
<1>3. r # Absent
  BY <1>2, AbsentAssumption
<1>4. /\ <<>> \in Seq(Things) /\ what' = what \o <<>>
  BY NothingMade DEF Clear, RInv
<1>5. block' = [block EXCEPT ![c] = r] /\ kind' = kind /\ answer' = None
  BY DEF Clear, Returns
<1>6. View(what', r) = <<>> /\ Filled(what', r)
  BY <1>1, <1>2, EmptyView
<1> HIDE DEF r, b
<1>7. Filling' /\ Abstract!Becomes(c, <<>>, None)
  BY <1>3, <1>4, <1>5, <1>6, Becomes
<1>8. Abstract!Clear(c)
  BY <1>1, <1>7 DEF Abstract!Clear
<1> QED
  BY <1>7, <1>8 DEF Simulated, Abstract!Next

LEMMA DropImplements ==
    ASSUME RInv, HelpersAgree, NEW c \in Names, DropCollection(c)
    PROVE  Simulated
<1>1. Contents(c) # Absent
  BY Given DEF DropCollection, HelpersAgree
<1>2. /\ UNCHANGED what /\ kind' = kind /\ answer' = None
      /\ block' = [block EXCEPT ![c] = Absent]
  BY DEF DropCollection, Returns
<1>3. Filling' /\ Abstract!Becomes(c, Absent, None)
  BY <1>2, Vanishes
<1>4. Abstract!Drop(c)
  BY <1>1, <1>3 DEF Abstract!Drop
<1> QED
  BY <1>3, <1>4 DEF Simulated, Abstract!Next

LEMMA AbortImplements ==
    ASSUME RInv, Abort
    PROVE  Simulated
<1>1. Filling' /\ UNCHANGED [d \in Names |-> Contents(d)]
  BY ContentsKept DEF Abort, history
<1> QED
  BY <1>1 DEF Simulated, Abort, Abstract!vars

LEMMA UseAnswerImplements ==
    ASSUME RInv, UseAnswer
    PROVE  Simulated
<1>1. Filling' /\ UNCHANGED [d \in Names |-> Contents(d)]
  BY ContentsKept DEF UseAnswer, history
<1>2. Abstract!Forget
  BY <1>1 DEF UseAnswer, Abstract!Forget
<1> QED
  BY <1>1, <1>2 DEF Simulated, Abstract!Next

\* The items a call creates are items of the specification.
LEMMA ItemMade ==
    ASSUME IInv, NEW made \in Seq(Things), Create(made), NEW n \in 1..Len(made)
    PROVE  Value(n) \in Items
<1>1. /\ Len(what) \in Nat /\ Len(made) \in Nat /\ MaxEntries \in Nat
      /\ Len(what) + Len(made) <= (IF kind = "map" THEN 2 ELSE 1) * MaxEntries
  BY LenProperties, CollectionsAssumption DEF IInv, Create
<1>2. Fresh(n) \in 1..2 * MaxEntries
  <2>1. (IF kind = "map" THEN 2 ELSE 1) * MaxEntries <= 2 * MaxEntries
    BY <1>1
  <2> QED
    BY <1>1, <2>1 DEF Fresh
<1> QED
  BY <1>2 DEF Items, Value

LEMMA VecInsertImplements ==
    ASSUME RInv, HelpersAgree, NEW c \in Names, NEW i \in Indices, VecInsert(c, i)
    PROVE  Simulated
<1> DEFINE b == block[c]
           n == b.length
           g == Reserve(b, n + 1)
           x == Fresh(1)
           cells == [OpenGap(g.values, i, n) EXCEPT ![i + 1] = x]
           r == [Reserve(b, b.length + 1) EXCEPT !.length = @ + 1,
                        !.values = [OpenGap(@, i, b.length) EXCEPT ![i + 1] = Fresh(1)]]
           made == <<Value(1)>>
<1>1. CASE i > n \/ n = MaxWord \/ ~CanReserve(b, n + 1)
  BY <1>1, AbortImplements DEF VecInsert
<1>2. CASE ~(i > n \/ n = MaxWord \/ ~CanReserve(b, n + 1))
  <2>1. /\ kind = "vec" /\ b # Absent /\ ~(i > n) /\ n # MaxWord
        /\ Create(made) /\ block' = [block EXCEPT ![c] = r] /\ kind' = kind /\ answer' = None
    BY <1>2 DEF VecInsert, Returns
  <2>2. /\ b \in Blocks /\ Filled(what, b) /\ Contents(c) = View(what, b) /\ Contents(c) # Absent
        /\ Owned(b) \subseteq Resources /\ n \in Nat /\ n <= MaxWord /\ MaxWord \in Nat
    BY <2>1, Given, BlockFields DEF HelpersAgree
  <2>3. i \in 0..n /\ n + 1 \in 1..MaxWord
    BY <2>1, <2>2, CollectionsAssumption
  <2>4. /\ g \in Blocks /\ g.length = n /\ n + 1 <= g.capacity
        /\ \A j \in 1..n : g.values[j] = b.values[j]
    BY <2>2, <2>3, ReserveGrows
  <2>5. /\ g.values \in Seq(Cells) /\ Len(g.values) = g.capacity /\ g.capacity \in Nat
        /\ DOMAIN g.values = 1..g.capacity
    BY <2>4, BlockFields
  <2>6. r.length = n + 1 /\ r.values = cells
    BY <2>4 DEF Blocks
  <2>7. ASSUME NEW j \in 1..(n + 1)
        PROVE  cells[j] = IF j <= i THEN b.values[j] ELSE IF j = i + 1 THEN x ELSE b.values[j - 1]
    <3>1. j \in 1..g.capacity
      BY <2>2, <2>4, <2>5
    <3>2. cells[j] = IF j = i + 1 THEN x ELSE IF j > i + 1 THEN g.values[j - 1] ELSE g.values[j]
      BY <2>2, <2>3, <2>5, <3>1 DEF OpenGap
    <3> QED
      BY <2>2, <2>3, <2>4, <3>2
  <2>8. made \in Seq(Things) /\ Len(made) = 1 /\ what' = what \o made
    BY <2>1, OneThing DEF RInv, Create
  <2>9. Value(1) \in Items
    <3>1. 1 \in 1..Len(made)
      BY <2>8
    <3> HIDE DEF made
    <3> QED
      BY <2>1, <2>8, <3>1, ItemMade DEF RInv
  <2>10. (\A q \in Resources : what'[q] = what[q]) /\ what'[x] = Value(1)
    <3>1. 1 \in 1..Len(made) /\ made[1] = Value(1)
      BY <2>8
    <3> HIDE DEF made
    <3> QED
      BY <2>8, <3>1, WhatKept DEF RInv
  <2>11. \A j \in 1..n : b.values[j] \in Resources
    BY <2>1, <2>2 DEF Owned, HasValues, Column
  <2> HIDE DEF b, g, cells, made, x, r, n
  <2>12. ASSUME NEW j \in 1..(n + 1)
         PROVE  what'[r.values[j]] = IF j <= i THEN what[b.values[j]]
                                     ELSE IF j = i + 1 THEN Value(1) ELSE what[b.values[j - 1]]
    <3>1. CASE j <= i
      BY <2>3, <2>6, <2>7, <2>10, <2>11, <2>2, <3>1
    <3>2. CASE j = i + 1
      BY <2>3, <2>6, <2>7, <2>10, <2>2, <3>2
    <3>3. CASE j > i + 1
      <4>1. j - 1 \in 1..n
        BY <2>2, <2>3, <3>3
      <4> QED
        BY <2>3, <2>6, <2>7, <2>10, <2>11, <2>2, <3>3, <4>1
    <3> QED
      BY <2>2, <2>3, <3>1, <3>2, <3>3
  <2>13. Filled(what', r)
    <3>1. \A j \in 1..n : what[b.values[j]] \in Items
      BY <2>1, <2>2 DEF Filled, HasValues, n
    <3>2. ASSUME NEW j \in 1..(n + 1) PROVE what'[r.values[j]] \in Items
      <4>1. CASE j <= i
        BY <2>2, <2>3, <2>12, <3>1, <4>1
      <4>2. CASE j = i + 1
        BY <2>2, <2>3, <2>9, <2>12, <4>2
      <4>3. CASE j > i + 1
        <5>1. j - 1 \in 1..n /\ ~(j <= i) /\ j # i + 1
          BY <2>2, <2>3, <4>3
        <5> QED
          BY <2>12, <3>1, <5>1
      <4> QED
        BY <2>2, <2>3, <4>1, <4>2, <4>3
    <3> QED
      BY <2>1, <2>6, <3>2 DEF Filled, HasKeys
  <2>14. View(what', r) = Abstract!InsertAt(View(what, b), i + 1, MeaningOf(Value(1)))
    <3> DEFINE S == {MeaningOf(y) : y \in Items}
               s == View(what, b)
    <3>1. s \in Seq(S) /\ Len(s) = n /\ MeaningOf(Value(1)) \in S
      BY <2>1, <2>2, <2>9, VecSeq DEF n
    <3>2. \A j \in 1..n : s[j] = MeaningOf(what[b.values[j]])
      BY <2>1, <2>2, VecView DEF n
    <3>3. View(what', r) = [j \in 1..(n + 1) |-> MeaningOf(what'[r.values[j]])]
      BY <2>1, <2>2, <2>6, VecView
    <3> HIDE DEF s, S
    <3>4. ASSUME NEW j \in 1..(n + 1)
          PROVE  MeaningOf(what'[r.values[j]]) =
                    IF j <= i THEN s[j] ELSE IF j = i + 1 THEN MeaningOf(Value(1)) ELSE s[j - 1]
      BY <2>2, <2>3, <2>12, <3>2
    <3>5. View(what', r) = [j \in 1..(Len(s) + 1) |->
                    IF j <= i THEN s[j] ELSE IF j = i + 1 THEN MeaningOf(Value(1)) ELSE s[j - 1]]
      BY <3>1, <3>3, <3>4
    <3>6. i \in 0..Len(s)
      BY <2>3, <3>1
    <3> QED
      BY <3>1, <3>5, <3>6, Inserted DEF s
  <2>15. r # Absent
    <3>1. r \in Blocks
      <4>1. Separate(b)
        BY <2>1, PresentBlock DEF RInv, b
      <4>2. x \in Cells /\ x \notin Owned(b)
        BY <2>2, Created, <2>8 DEF x, Fresh, RInv, Resources, Cells
      <4> QED
        <5>1. b.length < MaxWord /\ i \in 0..b.length
          BY <2>2, <2>3 DEF n
        <5> QED
          BY <2>1, <2>2, <4>1, <4>2, <5>1, VecGrown DEF r, x
    <3> QED
      BY <3>1, AbsentAssumption
  <2>16. Filling' /\ Abstract!Becomes(c, View(what', r), None)
    BY <2>1, <2>8, <2>13, <2>15, Becomes
  <2>17. Abstract!Insert(c, i, Value(1))
    <3>1. i <= Len(Contents(c))
      <4>1. Len(View(what, b)) = n
        BY <2>1, <2>2, VecSeq DEF n
      <4> QED
        BY <2>2, <2>3, <4>1
    <3> QED
      BY <2>1, <2>2, <2>14, <2>16, <3>1 DEF Abstract!Insert
  <2> QED
    BY <2>9, <2>16, <2>17 DEF Simulated, Abstract!Next
<1> QED
  BY <1>1, <1>2

\* An array from which a call takes the element at i.
LEMMA ItemTaken ==
    ASSUME kind = "vec", NEW b \in Blocks, Filled(what, b), NEW i \in 0..(b.length - 1)
    PROVE  LET r == [b EXCEPT !.length = @ - 1, !.values = CloseGap(@, i, b.length)]
           IN  /\ Filled(what, r)
               /\ View(what, r) = Abstract!RemoveAt(View(what, b), i + 1)
<1> DEFINE r == [b EXCEPT !.length = @ - 1, !.values = CloseGap(@, i, b.length)]
           n == b.length
           S == {MeaningOf(y) : y \in Items}
           s == View(what, b)
<1>1. /\ n \in Nat /\ n <= b.capacity /\ b.capacity \in Nat /\ DOMAIN b.values = 1..b.capacity
  BY BlockFields
<1>2. r.length = n - 1 /\ r.values = CloseGap(b.values, i, n) /\ n - 1 \in Nat
  BY <1>1 DEF Blocks
<1>3. ASSUME NEW j \in 1..(n - 1)
      PROVE  /\ r.values[j] = IF j <= i THEN b.values[j] ELSE b.values[j + 1]
             /\ j \in 1..n /\ j + 1 \in 1..n
  BY <1>1, <1>2 DEF CloseGap
<1>4. \A j \in 1..n : what[b.values[j]] \in Items
  BY DEF Filled, HasValues
<1> HIDE DEF r
<1>5. Filled(what, r)
  <2>1. ASSUME NEW j \in 1..(n - 1) PROVE what[r.values[j]] \in Items
    BY <1>3, <1>4
  <2> QED
    BY <1>2, <2>1 DEF Filled, HasKeys
<1>6. s \in Seq(S) /\ Len(s) = n /\ \A j \in 1..n : s[j] = MeaningOf(what[b.values[j]])
  BY <1>1, VecSeq, VecView
<1>7. View(what, r) = [j \in 1..(n - 1) |-> MeaningOf(what[r.values[j]])]
  BY <1>2, VecView
<1> HIDE DEF n, s, S
<1>8. View(what, r) = [j \in 1..(Len(s) - 1) |-> IF j <= i THEN s[j] ELSE s[j + 1]]
  <2>1. ASSUME NEW j \in 1..(n - 1)
        PROVE  MeaningOf(what[r.values[j]]) = IF j <= i THEN s[j] ELSE s[j + 1]
    BY <1>3, <1>6
  <2> QED
    BY <1>6, <1>7, <2>1
<1>9. View(what, r) = Abstract!RemoveAt(s, i + 1)
  <2>1. i \in 0..(Len(s) - 1)
    BY <1>6 DEF n
  <2> QED
    BY <1>6, <1>8, <2>1, Removed
<1> QED
  BY <1>5, <1>9 DEF r, s

LEMMA VecRemoveImplements ==
    ASSUME RInv, HelpersAgree, NEW c \in Names, NEW i \in Indices, VecRemove(c, i)
    PROVE  Simulated
<1> DEFINE b == block[c]
           r == [b EXCEPT !.length = @ - 1, !.values = CloseGap(@, i, b.length)]
           s == View(what, b)
<1>1. /\ kind = "vec" /\ b # Absent /\ i \in Nat
  BY CollectionsAssumption DEF VecRemove
<1>2. /\ b \in Blocks /\ Filled(what, b) /\ Contents(c) = s /\ Contents(c) # Absent
      /\ b.length \in Nat
  BY <1>1, Given DEF HelpersAgree
<1>3. CASE i >= b.length
  BY <1>3, AbortImplements DEF VecRemove
<1>4. CASE ~(i >= b.length)
  <2>1. /\ block' = [block EXCEPT ![c] = r] /\ kind' = kind /\ UNCHANGED what
        /\ answer' = <<"removed", MeaningOf(what[b.values[i + 1]])>>
    BY <1>4 DEF VecRemove, Returns
  <2>2. i \in 0..(b.length - 1)
    BY <1>1, <1>2, <1>4
  <2>3. Filled(what, r) /\ View(what, r) = Abstract!RemoveAt(s, i + 1)
    BY <1>1, <1>2, <2>2, ItemTaken
  <2>4. r # Absent
    <3>1. r \in Blocks
      BY <1>1, <1>2, <2>2, ItemRemoved, PresentBlock DEF RInv
    <3> QED
      BY <3>1, AbsentAssumption
  <2>5. <<>> \in Seq(Things) /\ what' = what \o <<>>
    BY <2>1, NothingMade DEF RInv
  <2>6. s[i + 1] = MeaningOf(what[b.values[i + 1]]) /\ i < Len(s)
    BY <1>1, <1>2, <2>2, VecView
  <2> HIDE DEF r, s
  <2>7. Filling' /\ Abstract!Becomes(c, View(what, r), answer')
    BY <2>1, <2>3, <2>4, <2>5, Becomes
  <2>8. Abstract!RemoveIndex(c, i)
    BY <1>1, <1>2, <2>1, <2>3, <2>6, <2>7 DEF Abstract!RemoveIndex
  <2> QED
    BY <2>7, <2>8 DEF Simulated, Abstract!Next
<1> QED
  BY <1>3, <1>4

LEMMA VecPopImplements ==
    ASSUME RInv, HelpersAgree, NEW c \in Names, VecPop(c)
    PROVE  Simulated
<1> DEFINE b == block[c]
           n == b.length
           r == [b EXCEPT !.length = @ - 1]
           s == View(what, b)
           S == {MeaningOf(y) : y \in Items}
<1>1. kind = "vec" /\ b # Absent
  BY DEF VecPop
<1>2. /\ b \in Blocks /\ Filled(what, b) /\ Contents(c) = s /\ Contents(c) # Absent
      /\ n \in Nat
  BY <1>1, Given DEF HelpersAgree
<1>3. <<>> \in Seq(Things) /\ what' = what \o <<>> /\ UNCHANGED what
  BY NothingMade DEF RInv, VecPop
<1>4. s \in Seq(S) /\ Len(s) = n
  BY <1>1, <1>2, VecSeq
<1>5. CASE n = 0
  <2>1. block' = [block EXCEPT ![c] = b] /\ kind' = kind /\ answer' = <<"removed", None>>
    BY <1>5 DEF VecPop, Returns
  <2>2. s = <<>>
    BY <1>1, <1>5, EmptyView
  <2> HIDE DEF s, b
  <2>3. Filling' /\ Abstract!Becomes(c, s, answer')
    BY <1>1, <1>2, <1>3, <2>1, Becomes DEF s
  <2>4. Abstract!Pop(c)
    BY <1>1, <1>2, <2>1, <2>2, <2>3 DEF Abstract!Pop
  <2> QED
    BY <2>3, <2>4 DEF Simulated, Abstract!Next
<1>6. CASE n # 0
  <2>1. /\ block' = [block EXCEPT ![c] = r] /\ kind' = kind
        /\ answer' = <<"removed", MeaningOf(what[b.values[n]])>>
    BY <1>6 DEF VecPop, Returns
  <2>2. r.length = n - 1 /\ r.values = b.values /\ n - 1 \in Nat
    BY <1>2, <1>6 DEF Blocks
  <2>3. r # Absent
    <3>1. r \in Blocks
      BY <1>1, <1>2, <1>6, LastRemoved, PresentBlock DEF RInv
    <3> QED
      BY <3>1, AbsentAssumption
  <2>4. Filled(what, r)
    BY <1>1, <1>2, <2>2 DEF Filled, HasKeys, HasValues
  <2>5. \A j \in 1..n : s[j] = MeaningOf(what[b.values[j]])
    BY <1>1, <1>2, VecView
  <2>6. View(what, r) = [j \in 1..(n - 1) |-> MeaningOf(what[b.values[j]])]
    <3>1. View(what, r) = [j \in 1..(n - 1) |-> MeaningOf(what[r.values[j]])]
      <4> HIDE DEF r
      <4> QED
        BY <1>1, <2>2, VecView
    <3> QED
      BY <2>2, <3>1
  <2> HIDE DEF r, s, n, b, S
  <2>7. View(what, r) = Abstract!Front(s) /\ s # <<>>
    <3>1. /\ SubSeq(s, 1, n - 1) \in Seq(S) /\ Len(SubSeq(s, 1, n - 1)) = n - 1
          /\ \A j \in 1..(n - 1) : SubSeq(s, 1, n - 1)[j] = s[j]
      <4>1. n - 1 \in 0..Len(s) /\ 1 \in 1..(Len(s) + 1)
        BY <1>2, <1>4, <2>2
      <4> QED
        BY <1>4, <4>1, SlicesOf
    <3>2. SubSeq(s, 1, n - 1) = [j \in 1..(n - 1) |-> SubSeq(s, 1, n - 1)[j]]
      BY <3>1, LenProperties
    <3>3. View(what, r) = SubSeq(s, 1, n - 1)
      BY <1>2, <2>5, <2>6, <3>1, <3>2
    <3> QED
      BY <1>2, <1>4, <1>6, <3>3, EmptySeq DEF Abstract!Front
  <2>8. Abstract!Last(s) = MeaningOf(what[b.values[n]])
    BY <1>2, <1>4, <1>6, <2>5 DEF Abstract!Last
  <2>9. Filling' /\ Abstract!Becomes(c, View(what, r), answer')
    BY <1>3, <2>1, <2>3, <2>4, Becomes
  <2>10. Abstract!Pop(c)
    BY <1>1, <1>2, <2>1, <2>7, <2>8, <2>9 DEF Abstract!Pop, b
  <2> QED
    BY <2>9, <2>10 DEF Simulated, Abstract!Next
<1> QED
  BY <1>5, <1>6

-----------------------------------------------------------------------------
(* Maps and Sets: entries with different keys *)

KeyAt(w, b, i) == MeaningOf(w[b.keys[i]])
EntryAt(w, b, i) == IF kind = "set" THEN TRUE ELSE MeaningOf(w[b.values[i]])
KeysOf(w, b) == {KeyAt(w, b, i) : i \in 1..b.length}

LEMMA Entries ==
    ASSUME kind \in {"map", "set"}, NEW w, NEW b, Filled(w, b)
    PROVE  /\ DOMAIN View(w, b) = KeysOf(w, b)
           /\ View(w, b) = [m \in KeysOf(w, b) |-> View(w, b)[m]]
           /\ \A i \in 1..b.length : /\ KeyAt(w, b, i) \in KeysOf(w, b)
                                     /\ View(w, b)[KeyAt(w, b, i)] = EntryAt(w, b, i)
           /\ \A i, j \in 1..b.length : KeyAt(w, b, i) = KeyAt(w, b, j) => i = j
<1>1. \A i, j \in 1..b.length : KeyAt(w, b, i) = KeyAt(w, b, j) => i = j
  BY DEF Filled, HasKeys, KeyAt
<1>2. CASE kind = "set"
  <2>1. View(w, b) = [m \in KeysOf(w, b) |-> TRUE]
    BY <1>2, SetView DEF KeysOf, KeyAt
  <2>2. \A i \in 1..b.length : KeyAt(w, b, i) \in KeysOf(w, b) /\ EntryAt(w, b, i) = TRUE
    BY <1>2 DEF KeysOf, EntryAt
  <2> QED
    BY <1>1, <2>1, <2>2
<1>3. CASE kind = "map"
  <2>1. DOMAIN View(w, b) = KeysOf(w, b) /\ View(w, b) = [m \in KeysOf(w, b) |-> View(w, b)[m]]
    BY <1>3, MapDomain DEF KeysOf, KeyAt
  <2>2. ASSUME NEW i \in 1..b.length
        PROVE  KeyAt(w, b, i) \in KeysOf(w, b) /\ View(w, b)[KeyAt(w, b, i)] = EntryAt(w, b, i)
    BY <1>3, MapView DEF KeysOf, KeyAt, EntryAt
  <2> QED
    BY <1>1, <2>1, <2>2
<1> QED
  BY <1>2, <1>3

LEMMA EntriesAre ==
    ASSUME kind \in {"map", "set"}, NEW w, NEW b, Filled(w, b),
           NEW f, f = [m \in KeysOf(w, b) |-> f[m]],
           \A i \in 1..b.length : f[KeyAt(w, b, i)] = EntryAt(w, b, i)
    PROVE  View(w, b) = f
<1>1. \A m \in KeysOf(w, b) : View(w, b)[m] = f[m]
  <2>1. ASSUME NEW i \in 1..b.length PROVE View(w, b)[KeyAt(w, b, i)] = f[KeyAt(w, b, i)]
    <3>1. View(w, b)[KeyAt(w, b, i)] = EntryAt(w, b, i)
      BY Entries
    <3> QED
      BY <3>1
  <2> QED
    BY <2>1 DEF KeysOf
<1>2. View(w, b) = [m \in KeysOf(w, b) |-> View(w, b)[m]]
  BY Entries
<1> QED
  BY <1>1, <1>2

\* An entry is what it was where its cells are.
CellsAgree(v, b, i, w, r, j) ==
    /\ w[r.keys[j]] = v[b.keys[i]]
    /\ kind = "map" => w[r.values[j]] = v[b.values[i]]

LEMMA EntryKept ==
    ASSUME kind \in {"map", "set"}, NEW v, NEW b, NEW i, NEW w, NEW r, NEW j,
           CellsAgree(v, b, i, w, r, j)
    PROVE  KeyAt(w, r, j) = KeyAt(v, b, i) /\ EntryAt(w, r, j) = EntryAt(v, b, i)
BY DEF CellsAgree, KeyAt, EntryAt

\* What a mapping is after m was given the value x, and after m was removed.
With(f, m, x) == [k \in DOMAIN f \cup {m} |-> IF k = m THEN x ELSE f[k]]
Without(f, m) == [k \in DOMAIN f \ {m} |-> f[k]]

\* A new entry behind the others.
LEMMA EntryPut ==
    ASSUME kind \in {"map", "set"}, NEW v, NEW b, NEW w, NEW r, NEW n \in Nat,
           Filled(v, b), b.length = n, r.length = n + 1,
           \A j \in 1..n : CellsAgree(v, b, j, w, r, j),
           w[r.keys[n + 1]] \in Keys,
           kind = "map" => w[r.values[n + 1]] \in Items,
           \A j \in 1..n : KeyAt(v, b, j) # KeyAt(w, r, n + 1)
    PROVE  /\ Filled(w, r)
           /\ View(w, r) = With(View(v, b), KeyAt(w, r, n + 1), EntryAt(w, r, n + 1))
<1> DEFINE m == KeyAt(w, r, n + 1)
           f == With(View(v, b), m, EntryAt(w, r, n + 1))
<1>1. \A j \in 1..n : KeyAt(w, r, j) = KeyAt(v, b, j) /\ EntryAt(w, r, j) = EntryAt(v, b, j)
  BY EntryKept
<1>2. \A i, j \in 1..n : KeyAt(v, b, i) = KeyAt(v, b, j) => i = j
  BY DEF Filled, HasKeys, KeyAt
<1>3. Filled(w, r)
  <2>1. ASSUME NEW j \in 1..(n + 1) PROVE w[r.keys[j]] \in Keys
    <3>1. CASE j \in 1..n
      BY <3>1 DEF Filled, HasKeys, CellsAgree
    <3> QED
      BY <3>1
  <2>2. ASSUME kind = "map", NEW j \in 1..(n + 1) PROVE w[r.values[j]] \in Items
    <3>1. CASE j \in 1..n
      BY <2>2, <3>1 DEF Filled, HasValues, CellsAgree
    <3> QED
      BY <2>2, <3>1
  <2>3. ASSUME NEW i \in 1..(n + 1), NEW j \in 1..(n + 1), KeyAt(w, r, i) = KeyAt(w, r, j)
        PROVE  i = j
    <3>1. CASE i \in 1..n /\ j \in 1..n
      BY <1>1, <1>2, <2>3, <3>1
    <3>2. CASE i \in 1..n /\ j = n + 1
      BY <1>1, <2>3, <3>2
    <3>3. CASE i = n + 1 /\ j \in 1..n
      BY <1>1, <2>3, <3>3
    <3> QED
      BY <3>1, <3>2, <3>3
  <2> QED
    BY <2>1, <2>2, <2>3 DEF Filled, HasKeys, HasValues, KeyAt
<1>4. KeysOf(w, r) = KeysOf(v, b) \cup {m}
  <2>1. \A x : x \in KeysOf(w, r) <=> \E j \in 1..(n + 1) : x = KeyAt(w, r, j)
    BY DEF KeysOf
  <2>2. \A x : x \in KeysOf(v, b) <=> \E j \in 1..n : x = KeyAt(v, b, j)
    BY DEF KeysOf
  <2>3. \A j \in 1..(n + 1) : j \in 1..n \/ j = n + 1
    OBVIOUS
  <2>4. n + 1 \in 1..(n + 1) /\ \A j \in 1..n : j \in 1..(n + 1)
    OBVIOUS
  <2> QED
    BY <1>1, <2>1, <2>2, <2>3, <2>4
<1>5. f = [k \in KeysOf(w, r) |-> f[k]]
  BY <1>4, Entries DEF With
<1>6. ASSUME NEW j \in 1..(n + 1) PROVE f[KeyAt(w, r, j)] = EntryAt(w, r, j)
  <2>1. CASE j \in 1..n
    <3>1. /\ KeyAt(v, b, j) \in DOMAIN View(v, b) /\ KeyAt(v, b, j) # m
          /\ View(v, b)[KeyAt(v, b, j)] = EntryAt(v, b, j)
      BY <2>1, Entries
    <3>2. f[KeyAt(v, b, j)] = EntryAt(v, b, j)
      BY <3>1 DEF With
    <3> QED
      BY <1>1, <2>1, <3>2
  <2>2. CASE j = n + 1
    BY <2>2 DEF With
  <2> QED
    BY <2>1, <2>2
<1> HIDE DEF f
<1>7. View(w, r) = f
  BY <1>3, <1>5, <1>6, EntriesAre
<1> QED
  BY <1>3, <1>7 DEF f

\* A new value for the entry at i.
LEMMA EntryRenewed ==
    ASSUME kind \in {"map", "set"}, NEW v, NEW b, NEW w, NEW r, NEW n \in Nat,
           Filled(v, b), b.length = n, r.length = n, NEW i \in 1..n,
           \A j \in 1..n : w[r.keys[j]] = v[b.keys[j]],
           \A j \in 1..n : j # i => CellsAgree(v, b, j, w, r, j),
           kind = "map" => w[r.values[i]] \in Items
    PROVE  /\ Filled(w, r)
           /\ View(w, r) = With(View(v, b), KeyAt(v, b, i), EntryAt(w, r, i))
<1> DEFINE m == KeyAt(v, b, i)
           f == With(View(v, b), m, EntryAt(w, r, i))
<1>1. \A j \in 1..n : KeyAt(w, r, j) = KeyAt(v, b, j)
  BY DEF KeyAt
<1>2. \A j \in 1..n : j # i => EntryAt(w, r, j) = EntryAt(v, b, j)
  BY DEF CellsAgree, EntryAt
<1>3. Filled(w, r)
  <2>1. ASSUME kind = "map", NEW j \in 1..n PROVE w[r.values[j]] \in Items
    BY <2>1 DEF Filled, HasValues, CellsAgree
  <2> QED
    BY <2>1 DEF Filled, HasKeys, HasValues
<1>4. KeysOf(w, r) = KeysOf(v, b) /\ m \in KeysOf(v, b)
  BY <1>1 DEF KeysOf
<1>5. f = [k \in KeysOf(w, r) |-> f[k]]
  BY <1>4, Entries DEF With
<1>6. ASSUME NEW j \in 1..n PROVE f[KeyAt(w, r, j)] = EntryAt(w, r, j)
  <2>1. CASE j # i
    <3>1. /\ KeyAt(v, b, j) \in DOMAIN View(v, b) /\ KeyAt(v, b, j) # m
          /\ View(v, b)[KeyAt(v, b, j)] = EntryAt(v, b, j)
      BY <2>1, Entries
    <3>2. f[KeyAt(v, b, j)] = EntryAt(v, b, j)
      BY <3>1 DEF With
    <3> QED
      BY <1>1, <1>2, <2>1, <3>2
  <2>2. CASE j = i
    BY <1>1, <2>2 DEF With
  <2> QED
    BY <2>1, <2>2
<1> HIDE DEF f
<1>7. View(w, r) = f
  BY <1>3, <1>5, <1>6, EntriesAre
<1> QED
  BY <1>3, <1>7 DEF f

\* The entry after i is gone and those behind it have moved up.
LEMMA EntryGone ==
    ASSUME kind \in {"map", "set"}, NEW w, NEW b, NEW r, NEW n \in Nat,
           Filled(w, b), b.length = n, NEW i \in 0..(n - 1), r.length = n - 1,
           \A j \in 1..(n - 1) : CellsAgree(w, b, IF j <= i THEN j ELSE j + 1, w, r, j)
    PROVE  /\ Filled(w, r)
           /\ View(w, r) = Without(View(w, b), KeyAt(w, b, i + 1))
<1> DEFINE m == KeyAt(w, b, i + 1)
           f == Without(View(w, b), m)
           from(j) == IF j <= i THEN j ELSE j + 1
<1>1. \A j \in 1..(n - 1) : from(j) \in 1..n /\ from(j) # i + 1
  OBVIOUS
<1>2. \A j, k \in 1..(n - 1) : from(j) = from(k) => j = k
  OBVIOUS
<1>3. \A k \in 1..n : k # i + 1 => \E j \in 1..(n - 1) : from(j) = k
  <2>1. ASSUME NEW k \in 1..n, k # i + 1 PROVE \E j \in 1..(n - 1) : from(j) = k
    <3>1. CASE k <= i
      BY <2>1, <3>1
    <3>2. CASE k > i
      <4>1. k - 1 \in 1..(n - 1) /\ from(k - 1) = k
        BY <2>1, <3>2
      <4> QED
        BY <4>1
    <3> QED
      BY <2>1, <3>1, <3>2
  <2> QED
    BY <2>1
<1>4. i + 1 \in 1..n
  OBVIOUS
<1>5. \A j \in 1..(n - 1) : CellsAgree(w, b, from(j), w, r, j)
  OBVIOUS
<1> HIDE DEF from
<1>6. \A j \in 1..(n - 1) :
          KeyAt(w, r, j) = KeyAt(w, b, from(j)) /\ EntryAt(w, r, j) = EntryAt(w, b, from(j))
  BY <1>5, EntryKept
<1>7. \A k, l \in 1..n : KeyAt(w, b, k) = KeyAt(w, b, l) => k = l
  BY DEF Filled, HasKeys, KeyAt
<1>8. Filled(w, r)
  <2>1. ASSUME NEW j \in 1..(n - 1) PROVE w[r.keys[j]] \in Keys
    BY <1>1, <1>5 DEF Filled, HasKeys, CellsAgree
  <2>2. ASSUME kind = "map", NEW j \in 1..(n - 1) PROVE w[r.values[j]] \in Items
    BY <1>1, <1>5, <2>2 DEF Filled, HasValues, CellsAgree
  <2>3. \A j, k \in 1..(n - 1) : KeyAt(w, r, j) = KeyAt(w, r, k) => j = k
    BY <1>1, <1>2, <1>6, <1>7
  <2> QED
    BY <2>1, <2>2, <2>3 DEF Filled, HasKeys, HasValues, KeyAt
<1>9. KeysOf(w, r) = KeysOf(w, b) \ {m}
  <2>1. \A x : x \in KeysOf(w, r) <=> \E j \in 1..(n - 1) : x = KeyAt(w, r, j)
    BY DEF KeysOf
  <2>2. \A x : x \in KeysOf(w, b) <=> \E j \in 1..n : x = KeyAt(w, b, j)
    BY DEF KeysOf
  <2> HIDE DEF m
  <2>3. ASSUME NEW x \in KeysOf(w, r) PROVE x \in KeysOf(w, b) /\ x # m
    BY <1>1, <1>4, <1>6, <1>7, <2>1, <2>2 DEF m
  <2>4. ASSUME NEW x \in KeysOf(w, b), x # m PROVE x \in KeysOf(w, r)
    <3>1. PICK k \in 1..n : x = KeyAt(w, b, k)
      BY <2>2
    <3>2. k # i + 1
      BY <2>4, <3>1 DEF m
    <3>3. PICK j \in 1..(n - 1) : from(j) = k
      BY <1>3, <3>2
    <3> QED
      BY <1>6, <2>1, <3>1, <3>3
  <2> QED
    BY <2>3, <2>4
<1>10. f = [k \in KeysOf(w, r) |-> f[k]]
  BY <1>9, Entries DEF Without
<1>11. ASSUME NEW j \in 1..(n - 1) PROVE f[KeyAt(w, r, j)] = EntryAt(w, r, j)
  <2>1. /\ KeyAt(w, b, from(j)) \in DOMAIN View(w, b)
        /\ View(w, b)[KeyAt(w, b, from(j))] = EntryAt(w, b, from(j))
    BY <1>1, Entries
  <2>2. KeyAt(w, b, from(j)) # m
    BY <1>1, <1>4, <1>7
  <2>3. f[KeyAt(w, b, from(j))] = EntryAt(w, b, from(j))
    BY <2>1, <2>2 DEF Without
  <2> QED
    BY <1>6, <2>3
<1> HIDE DEF f
<1>12. View(w, r) = f
  BY <1>8, <1>10, <1>11, EntriesAre
<1> QED
  BY <1>8, <1>12 DEF f

\* The cells a Map or a Set has after a new entry.
LEMMA AppendedCells ==
    ASSUME NEW b \in Blocks, b.length < MaxWord, NEW k \in Cells, NEW v \in Cells
    PROVE  LET n == b.length
               g == Reserve(b, b.length + 1)
               r == [g EXCEPT !.length = @ + 1, !.keys[b.length + 1] = k,
                              !.values[b.length + 1] = v]
               q == [g EXCEPT !.length = @ + 1, !.keys[b.length + 1] = k]
           IN  /\ r.length = n + 1 /\ r.keys[n + 1] = k /\ r.values[n + 1] = v
               /\ q.length = n + 1 /\ q.keys[n + 1] = k
               /\ \A j \in 1..n : /\ r.keys[j] = b.keys[j] /\ r.values[j] = b.values[j]
                                  /\ q.keys[j] = b.keys[j]
<1> DEFINE n == b.length
           g == Reserve(b, n + 1)
<1>1. n \in Nat /\ n + 1 \in 1..MaxWord
  BY BlockFields
<1>2. /\ g \in Blocks /\ g.length = n /\ n + 1 <= g.capacity
      /\ \A j \in 1..n : g.keys[j] = b.keys[j] /\ g.values[j] = b.values[j]
  BY <1>1, ReserveGrows
<1>3. /\ DOMAIN g.keys = 1..g.capacity /\ DOMAIN g.values = 1..g.capacity
      /\ n + 1 \in 1..g.capacity /\ \A j \in 1..n : j \in 1..g.capacity /\ j # n + 1
  <2>1. g.capacity \in Nat /\ DOMAIN g.keys = 1..g.capacity /\ DOMAIN g.values = 1..g.capacity
    BY <1>2, BlockFields
  <2> QED
    BY <1>1, <1>2, <2>1
<1>4. g \in [length : 0..MaxWord, capacity : 0..MaxWord, keys : Seq(Cells), values : Seq(Cells)]
  BY <1>2 DEF Blocks
<1> HIDE DEF g
<1> QED
  BY <1>1, <1>2, <1>3, <1>4 DEF g

\* The cells in use are among the resources there were before a call.
LEMMA CellsHold ==
    ASSUME NEW b, Owned(b) \subseteq Resources, NEW j \in 1..b.length
    PROVE  /\ HasKeys => b.keys[j] \in Resources
           /\ HasValues => b.values[j] \in Resources
BY DEF Owned, Column

\* What a call that creates a key and an item says of them.
LEMMA EntryMade ==
    ASSUME RInv, kind = "map", NEW key \in Keys, Create(<<key, Value(2)>>)
    PROVE  /\ <<key, Value(2)>> \in Seq(Things) /\ what' = what \o <<key, Value(2)>>
           /\ \A q \in Resources : what'[q] = what[q]
           /\ what'[Fresh(1)] = key /\ what'[Fresh(2)] = Value(2) /\ Value(2) \in Items
           /\ Fresh(1) \in Cells /\ Fresh(2) \in Cells /\ Fresh(1) # Fresh(2)
           /\ Fresh(1) \notin Resources /\ Fresh(2) \notin Resources
<1> DEFINE made == <<key, Value(2)>>
<1>1. made \in Seq(Things) /\ Len(made) = 2 /\ what' = what \o made
  BY TwoThings DEF RInv, Create
<1>2. made[1] = key /\ made[2] = Value(2) /\ 1 \in 1..Len(made) /\ 2 \in 1..Len(made)
  BY <1>1
<1> HIDE DEF made
<1>3. Value(2) \in Items
  BY <1>1, <1>2, ItemMade DEF RInv, made
<1>4. (\A q \in Resources : what'[q] = what[q]) /\ what'[Fresh(1)] = key /\ what'[Fresh(2)] = Value(2)
  BY <1>1, <1>2, WhatKept DEF RInv
<1>5. Len(what) \in Nat /\ Resources = 1..Len(what)
  BY <1>1, Created DEF RInv
<1> QED
  BY <1>1, <1>3, <1>4, <1>5 DEF made, Fresh, Cells

LEMMA KeyMade ==
    ASSUME RInv, NEW key \in Keys, Create(<<key>>)
    PROVE  /\ <<key>> \in Seq(Things) /\ what' = what \o <<key>>
           /\ \A q \in Resources : what'[q] = what[q]
           /\ what'[Fresh(1)] = key /\ Fresh(1) \in Cells /\ Fresh(1) \notin Resources
           /\ Value(1) \in Items
<1> DEFINE made == <<key>>
<1>1. made \in Seq(Things) /\ Len(made) = 1 /\ what' = what \o made
  BY OneKey DEF RInv, Create
<1>2. made[1] = key /\ 1 \in 1..Len(made)
  BY <1>1
<1> HIDE DEF made
<1>3. (\A q \in Resources : what'[q] = what[q]) /\ what'[Fresh(1)] = key
  BY <1>1, <1>2, WhatKept DEF RInv
<1>4. Len(what) \in Nat /\ Resources = 1..Len(what)
  BY <1>1, Created DEF RInv
<1>5. Value(1) \in Items
  BY <1>1, <1>2, ItemMade DEF RInv, made
<1> QED
  BY <1>1, <1>3, <1>4, <1>5 DEF made, Fresh, Cells

LEMMA MapInsertImplements ==
    ASSUME RInv, HelpersAgree, NEW c \in Names, NEW key \in Keys, MapInsert(c, key)
    PROVE  Simulated
<1> DEFINE b == block[c]
           n == b.length
           i == Find(b, key)
           g == [Reserve(b, b.length + 1) EXCEPT !.length = @ + 1,
                        !.keys[b.length + 1] = Fresh(1), !.values[b.length + 1] = Fresh(2)]
           r == [b EXCEPT !.values[i + 1] = Fresh(2)]
           f == View(what, b)
           m == MeaningOf(key)
           x == MeaningOf(Value(2))
<1>1. kind = "map" /\ b # Absent
  BY DEF MapInsert
<1>2. /\ b \in Blocks /\ Filled(what, b) /\ Contents(c) = f /\ Contents(c) # Absent
      /\ n \in Nat /\ Owned(b) \subseteq Resources /\ Separate(b)
  BY <1>1, Given, PresentBlock DEF HelpersAgree, RInv
<1>3. HasKeys /\ HasValues
  BY <1>1 DEF HasKeys, HasValues
<1>4. \/ i = -1 /\ \A j \in 1..n : KeyAt(what, b, j) # m
      \/ i + 1 \in 1..n /\ KeyAt(what, b, i + 1) = m
  BY <1>2, <1>3, Found DEF HelpersAgree, Find, KeyAt
<1>5. i \in -1..(n - 1)
  BY <1>2, FindInUse DEF Find
<1>6. DOMAIN f = KeysOf(what, b)
  BY <1>1, <1>2, Entries
<1> HIDE DEF i
<1>7. CASE i < 0 /\ (n = MaxWord \/ ~CanReserve(b, n + 1))
  BY <1>7, AbortImplements DEF MapInsert, i
<1>8. CASE i < 0 /\ ~(n = MaxWord \/ ~CanReserve(b, n + 1))
  <2>1. /\ Create(<<key, Value(2)>>) /\ block' = [block EXCEPT ![c] = g] /\ kind' = kind
        /\ answer' = <<"old", None>>
    <3>1. ~(i >= 0)
      BY <1>2, <1>5, <1>8
    <3> QED
      BY <1>8, <3>1 DEF MapInsert, Returns, i
  <2>2. /\ <<key, Value(2)>> \in Seq(Things) /\ what' = what \o <<key, Value(2)>>
        /\ \A q \in Resources : what'[q] = what[q]
        /\ what'[Fresh(1)] = key /\ what'[Fresh(2)] = Value(2) /\ Value(2) \in Items
        /\ Fresh(1) \in Cells /\ Fresh(2) \in Cells /\ Fresh(1) # Fresh(2)
        /\ Fresh(1) \notin Resources /\ Fresh(2) \notin Resources
    BY <1>1, <2>1, EntryMade
  <2>3. b.length < MaxWord
    BY <1>2, <1>8, BlockFields
  <2>4. /\ g.length = n + 1 /\ g.keys[n + 1] = Fresh(1) /\ g.values[n + 1] = Fresh(2)
        /\ \A j \in 1..n : g.keys[j] = b.keys[j] /\ g.values[j] = b.values[j]
    BY <1>2, <2>2, <2>3, AppendedCells
  <2>5. g # Absent
    <3>1. g \in Blocks
      BY <1>1, <1>2, <2>2, <2>3, EntryAppended
    <3> QED
      BY <3>1, AbsentAssumption
  <2> HIDE DEF g
  <2>6. ASSUME NEW j \in 1..n PROVE CellsAgree(what, b, j, what', g, j)
    <3>1. b.keys[j] \in Resources /\ b.values[j] \in Resources
      BY <1>2, <1>3, CellsHold
    <3>2. g.keys[j] = b.keys[j] /\ g.values[j] = b.values[j]
      BY <2>4
    <3> HIDE DEF b, n
    <3> QED
      BY <2>2, <3>1, <3>2 DEF CellsAgree
  <2>7. KeyAt(what', g, n + 1) = m /\ EntryAt(what', g, n + 1) = x
    BY <1>1, <2>2, <2>4 DEF KeyAt, EntryAt
  <2>8. \A j \in 1..n : KeyAt(what, b, j) # m
    BY <1>2, <1>4, <1>5, <1>8
  <2> HIDE DEF b, f, n, m, x
  <2>9. Filled(what', g) /\ View(what', g) = With(f, m, x)
    <3>1. /\ kind \in {"map", "set"} /\ b.length = n /\ what'[g.keys[n + 1]] \in Keys
          /\ what'[g.values[n + 1]] \in Items /\ \A j \in 1..n : KeyAt(what, b, j) # KeyAt(what', g, n + 1)
      <4>1. b.length = n
        BY DEF n
      <4>2. what'[g.keys[n + 1]] \in Keys
        <5>1. g.keys[n + 1] = Fresh(1) /\ what'[Fresh(1)] = key
          BY <2>2, <2>4
        <5> QED
          BY <5>1
      <4>3. \A j \in 1..n : KeyAt(what, b, j) # KeyAt(what', g, n + 1)
        BY <2>7, <2>8
      <4> QED
        <5>1. g.values[n + 1] = Fresh(2) /\ what'[Fresh(2)] = Value(2) /\ Value(2) \in Items
          BY <2>2, <2>4
        <5> QED
          BY <1>1, <4>1, <4>2, <4>3, <5>1
    <3> QED
      BY <1>2, <2>4, <2>6, <2>7, <3>1, EntryPut DEF f
  <2>10. m \notin DOMAIN f
    BY <1>6, <2>8 DEF KeysOf, n
  <2>11. Filling' /\ Abstract!Becomes(c, With(f, m, x), answer')
    BY <2>1, <2>2, <2>5, <2>9, Becomes
  <2>12. Abstract!Put(c, key, Value(2))
    BY <1>1, <1>2, <2>1, <2>10, <2>11 DEF Abstract!Put, Abstract!At, With, m, x
  <2> QED
    BY <2>2, <2>11, <2>12 DEF Simulated, Abstract!Next
<1>9. CASE ~(i < 0)
  <2>1. /\ Create(<<key, Value(2)>>) /\ block' = [block EXCEPT ![c] = r] /\ kind' = kind
        /\ answer' = <<"old", MeaningOf(what[b.values[i + 1]])>>
    <3>1. i >= 0
      BY <1>2, <1>5, <1>9
    <3> QED
      BY <1>9, <3>1 DEF MapInsert, Returns, i
  <2>2. /\ <<key, Value(2)>> \in Seq(Things) /\ what' = what \o <<key, Value(2)>>
        /\ \A q \in Resources : what'[q] = what[q]
        /\ what'[Fresh(1)] = key /\ what'[Fresh(2)] = Value(2) /\ Value(2) \in Items
        /\ Fresh(1) \in Cells /\ Fresh(2) \in Cells /\ Fresh(1) # Fresh(2)
        /\ Fresh(1) \notin Resources /\ Fresh(2) \notin Resources
    BY <1>1, <2>1, EntryMade
  <2>3. i + 1 \in 1..n /\ KeyAt(what, b, i + 1) = m
    BY <1>4, <1>5, <1>9
  <2>4. /\ r.length = n /\ r.keys = b.keys /\ r.values[i + 1] = Fresh(2)
        /\ \A j \in 1..n : j # i + 1 => r.values[j] = b.values[j]
    <3>1. /\ DOMAIN b.values = 1..b.capacity /\ n <= b.capacity /\ b.capacity \in Nat
          /\ b \in [length : 0..MaxWord, capacity : 0..MaxWord, keys : Seq(Cells), values : Seq(Cells)]
      BY <1>2, BlockFields DEF Blocks
    <3> QED
      BY <1>2, <2>3, <3>1
  <2>5. r # Absent
    <3>1. r \in Blocks
      <4>1. Fresh(2) \notin Owned(b)
        BY <1>2, <2>2
      <4> QED
        BY <1>1, <1>2, <2>2, <2>3, <4>1, ValueReplaced
    <3> QED
      BY <3>1, AbsentAssumption
  <2> HIDE DEF r
  <2>6. /\ \A j \in 1..n : what'[r.keys[j]] = what[b.keys[j]]
        /\ \A j \in 1..n : j # i + 1 => CellsAgree(what, b, j, what', r, j)
    <3>1. \A j \in 1..n : b.keys[j] \in Resources /\ b.values[j] \in Resources
      BY <1>2, <1>3, CellsHold
    <3> HIDE DEF b, n
    <3>2. \A j \in 1..n : what'[r.keys[j]] = what[b.keys[j]]
      BY <2>2, <2>4, <3>1
    <3>3. ASSUME NEW j \in 1..n, j # i + 1 PROVE CellsAgree(what, b, j, what', r, j)
      <4>1. r.keys[j] = b.keys[j] /\ r.values[j] = b.values[j]
        BY <2>4, <3>3
      <4> QED
        BY <2>2, <3>1, <4>1 DEF CellsAgree
    <3> QED
      BY <3>2, <3>3
  <2>7. EntryAt(what', r, i + 1) = x
    BY <1>1, <2>2, <2>4 DEF EntryAt
  <2>8. m \in DOMAIN f /\ f[m] = MeaningOf(what[b.values[i + 1]])
    BY <1>1, <1>2, <1>6, <2>3, Entries DEF EntryAt
  <2> HIDE DEF b, f, n, m, x
  <2>9. Filled(what', r) /\ View(what', r) = With(f, m, x)
    <3>1. kind \in {"map", "set"} /\ b.length = n /\ what'[r.values[i + 1]] \in Items
      <4>1. r.values[i + 1] = Fresh(2) /\ what'[Fresh(2)] = Value(2) /\ Value(2) \in Items
        BY <2>2, <2>4
      <4>2. b.length = n
        BY DEF n
      <4> QED
        BY <1>1, <4>1, <4>2
    <3> QED
      BY <1>2, <2>3, <2>4, <2>6, <2>7, <3>1, EntryRenewed DEF f
  <2>10. Filling' /\ Abstract!Becomes(c, With(f, m, x), answer')
    BY <2>1, <2>2, <2>5, <2>9, Becomes
  <2>11. Abstract!Put(c, key, Value(2))
    BY <1>1, <1>2, <2>1, <2>8, <2>10 DEF Abstract!Put, Abstract!At, With, m, x
  <2> QED
    BY <2>2, <2>10, <2>11 DEF Simulated, Abstract!Next
<1> QED
  BY <1>7, <1>8, <1>9

LEMMA SetInsertImplements ==
    ASSUME RInv, HelpersAgree, NEW c \in Names, NEW element \in Keys, SetInsert(c, element)
    PROVE  Simulated
<1> DEFINE b == block[c]
           n == b.length
           i == Find(b, element)
           g == [Reserve(b, b.length + 1) EXCEPT !.length = @ + 1, !.keys[b.length + 1] = Fresh(1)]
           f == View(what, b)
           m == MeaningOf(element)
<1>1. kind = "set" /\ b # Absent
  BY DEF SetInsert
<1>2. /\ b \in Blocks /\ Filled(what, b) /\ Contents(c) = f /\ Contents(c) # Absent
      /\ n \in Nat /\ Owned(b) \subseteq Resources /\ Separate(b)
  BY <1>1, Given, PresentBlock DEF HelpersAgree, RInv
<1>3. HasKeys
  BY <1>1 DEF HasKeys
<1>4. \/ i = -1 /\ \A j \in 1..n : KeyAt(what, b, j) # m
      \/ i + 1 \in 1..n /\ KeyAt(what, b, i + 1) = m
  BY <1>2, <1>3, Found DEF HelpersAgree, Find, KeyAt
<1>5. i \in -1..(n - 1)
  BY <1>2, FindInUse DEF Find
<1>6. DOMAIN f = KeysOf(what, b) /\ \A k \in DOMAIN f : f[k] = TRUE
  <2>1. f = [k \in KeysOf(what, b) |-> TRUE]
    BY <1>1, SetView DEF KeysOf, KeyAt
  <2> QED
    BY <2>1
<1>7. None # TRUE
  BY DEF HelpersAgree, NamesAgree
<1> HIDE DEF i
<1>8. CASE i < 0 /\ (n = MaxWord \/ ~CanReserve(b, n + 1))
  BY <1>8, AbortImplements DEF SetInsert, i
<1>9. CASE i < 0 /\ ~(n = MaxWord \/ ~CanReserve(b, n + 1))
  <2>1. /\ Create(<<element>>) /\ block' = [block EXCEPT ![c] = g] /\ kind' = kind
        /\ answer' = <<"added", TRUE>>
    <3>1. ~(i >= 0)
      BY <1>2, <1>5, <1>9
    <3> QED
      BY <1>9, <3>1 DEF SetInsert, Returns, i
  <2>2. /\ <<element>> \in Seq(Things) /\ what' = what \o <<element>>
        /\ \A q \in Resources : what'[q] = what[q]
        /\ what'[Fresh(1)] = element /\ Fresh(1) \in Cells /\ Fresh(1) \notin Resources
        /\ Value(1) \in Items
    BY <2>1, KeyMade
  <2>3. b.length < MaxWord
    BY <1>2, <1>9, BlockFields
  <2>4. /\ g.length = n + 1 /\ g.keys[n + 1] = Fresh(1)
        /\ \A j \in 1..n : g.keys[j] = b.keys[j]
    BY <1>2, <2>2, <2>3, AppendedCells
  <2>5. g # Absent
    <3>1. g \in Blocks
      BY <1>1, <1>2, <2>2, <2>3, ElementAppended
    <3> QED
      BY <3>1, AbsentAssumption
  <2> HIDE DEF g
  <2>6. \A j \in 1..n : CellsAgree(what, b, j, what', g, j)
    BY <1>1, <1>2, <1>3, <2>2, <2>4, CellsHold DEF CellsAgree
  <2>7. KeyAt(what', g, n + 1) = m /\ EntryAt(what', g, n + 1) = TRUE
    BY <1>1, <2>2, <2>4 DEF KeyAt, EntryAt
  <2>8. \A j \in 1..n : KeyAt(what, b, j) # m
    BY <1>2, <1>4, <1>5, <1>9
  <2> HIDE DEF b, f, n, m
  <2>9. Filled(what', g) /\ View(what', g) = With(f, m, TRUE)
    <3>1. b.length = n
      BY DEF n
    <3>2. what'[g.keys[n + 1]] \in Keys
      BY <2>2, <2>4
    <3>3. \A j \in 1..n : KeyAt(what, b, j) # KeyAt(what', g, n + 1)
      BY <2>7, <2>8
    <3>4. kind \in {"map", "set"} /\ (kind = "map" => what'[g.values[n + 1]] \in Items)
      BY <1>1
    <3>5. Filled(what', g) /\ View(what', g) =
              With(View(what, b), KeyAt(what', g, n + 1), EntryAt(what', g, n + 1))
      BY <1>2, <2>4, <2>6, <3>1, <3>2, <3>3, <3>4, EntryPut
    <3> QED
      BY <2>7, <3>5 DEF f
  <2>10. m \notin DOMAIN f
    BY <1>6, <2>8 DEF KeysOf, n
  <2>11. Filling' /\ Abstract!Becomes(c, With(f, m, TRUE), answer')
    BY <2>1, <2>2, <2>5, <2>9, Becomes
  <2>12. Abstract!Put(c, element, Value(1))
    BY <1>1, <1>2, <2>1, <2>10, <2>11 DEF Abstract!Put, Abstract!At, With, m
  <2> QED
    BY <2>2, <2>11, <2>12 DEF Simulated, Abstract!Next
<1>10. CASE ~(i < 0)
  <2>1. /\ Create(<<element>>) /\ block' = [block EXCEPT ![c] = b] /\ kind' = kind
        /\ answer' = <<"added", FALSE>>
    <3>1. i >= 0
      BY <1>2, <1>5, <1>10
    <3> QED
      BY <1>10, <3>1 DEF SetInsert, Returns, i
  <2>2. /\ <<element>> \in Seq(Things) /\ what' = what \o <<element>>
        /\ \A q \in Resources : what'[q] = what[q]
        /\ Value(1) \in Items
    BY <2>1, KeyMade
  <2>3. i + 1 \in 1..n /\ KeyAt(what, b, i + 1) = m
    BY <1>4, <1>5, <1>10
  <2>4. m \in DOMAIN f
    BY <1>6, <2>3 DEF KeysOf
  <2>5. View(what', b) = f /\ Filled(what', b)
    BY <1>1, <1>2, <2>2, ViewKept
  <2>6. f = With(f, m, TRUE)
    <3>1. f = [k \in DOMAIN f |-> f[k]]
      BY <1>1, <1>2, Entries
    <3> HIDE DEF f
    <3> QED
      BY <1>6, <2>4, <3>1 DEF With
  <2> HIDE DEF b, f, n, m
  <2>7. Filling' /\ Abstract!Becomes(c, With(f, m, TRUE), answer')
    BY <1>1, <2>1, <2>2, <2>5, <2>6, Becomes
  <2>8. Abstract!Put(c, element, Value(1))
    <3>1. Abstract!At(f, m) # None
      BY <1>6, <1>7, <2>4 DEF Abstract!At
    <3> QED
      BY <1>1, <1>2, <2>1, <2>7, <3>1 DEF Abstract!Put, With, m
  <2> QED
    BY <2>2, <2>7, <2>8 DEF Simulated, Abstract!Next
<1> QED
  BY <1>8, <1>9, <1>10

LEMMA MapRemoveImplements ==
    ASSUME RInv, HelpersAgree, NEW c \in Names, NEW key \in Keys, MapRemove(c, key)
    PROVE  Simulated
<1> DEFINE b == block[c]
           n == b.length
           i == Find(b, key)
           r == [b EXCEPT !.length = @ - 1, !.keys = CloseGap(@, i, b.length),
                          !.values = CloseGap(@, i, b.length)]
           f == View(what, b)
           m == MeaningOf(key)
<1>1. kind = "map" /\ b # Absent
  BY DEF MapRemove
<1>2. /\ b \in Blocks /\ Filled(what, b) /\ Contents(c) = f /\ Contents(c) # Absent
      /\ n \in Nat /\ Separate(b)
  BY <1>1, Given, PresentBlock DEF HelpersAgree, RInv
<1>3. \/ i = -1 /\ \A j \in 1..n : KeyAt(what, b, j) # m
      \/ i + 1 \in 1..n /\ KeyAt(what, b, i + 1) = m
  BY <1>1, <1>2, Found DEF HelpersAgree, Find, KeyAt, HasKeys
<1>4. i \in -1..(n - 1)
  BY <1>2, FindInUse DEF Find
<1>5. DOMAIN f = KeysOf(what, b) /\ f = [k \in DOMAIN f |-> f[k]]
  BY <1>1, <1>2, Entries
<1>6. <<>> \in Seq(Things) /\ what' = what \o <<>> /\ UNCHANGED what
  BY NothingMade DEF RInv, MapRemove
<1> HIDE DEF i
<1>7. CASE i < 0
  <2>1. block' = [block EXCEPT ![c] = b] /\ kind' = kind /\ answer' = <<"removed", None>>
    BY <1>7 DEF MapRemove, Returns, i
  <2>2. m \notin DOMAIN f
    BY <1>3, <1>4, <1>5, <1>7 DEF KeysOf
  <2> HIDE DEF b, f, n, m
  <2>3. f = Without(f, m)
    BY <1>5, <2>2 DEF Without
  <2>4. Filling' /\ Abstract!Becomes(c, Without(f, m), answer')
    BY <1>1, <1>2, <1>6, <2>1, <2>3, Becomes DEF f
  <2>5. Abstract!Take(c, key)
    BY <1>1, <1>2, <2>1, <2>2, <2>4 DEF Abstract!Take, Abstract!At, Without, m
  <2> QED
    BY <2>4, <2>5 DEF Simulated, Abstract!Next
<1>8. CASE ~(i < 0)
  <2>1. /\ block' = [block EXCEPT ![c] = r] /\ kind' = kind
        /\ answer' = <<"removed", MeaningOf(what[b.values[i + 1]])>>
    BY <1>8 DEF MapRemove, Returns, i
  <2>2. i + 1 \in 1..n /\ KeyAt(what, b, i + 1) = m /\ i \in 0..(n - 1)
    BY <1>3, <1>4, <1>8
  <2>3. /\ r.length = n - 1
        /\ \A j \in 1..(n - 1) :
              /\ r.keys[j] = b.keys[IF j <= i THEN j ELSE j + 1]
              /\ r.values[j] = b.values[IF j <= i THEN j ELSE j + 1]
    <3>1. /\ DOMAIN b.values = 1..b.capacity /\ DOMAIN b.keys = 1..b.capacity
          /\ n <= b.capacity /\ b.capacity \in Nat
          /\ b \in [length : 0..MaxWord, capacity : 0..MaxWord, keys : Seq(Cells), values : Seq(Cells)]
      BY <1>2, BlockFields DEF Blocks
    <3> QED
      BY <1>2, <2>2, <3>1 DEF CloseGap
  <2>4. r # Absent
    <3>1. r \in Blocks
      BY <1>1, <1>2, <2>2, EntryRemoved
    <3> QED
      BY <3>1, AbsentAssumption
  <2> HIDE DEF r
  <2>5. \A j \in 1..(n - 1) : CellsAgree(what, b, IF j <= i THEN j ELSE j + 1, what, r, j)
    BY <2>3 DEF CellsAgree
  <2>6. m \in DOMAIN f /\ f[m] = MeaningOf(what[b.values[i + 1]])
    BY <1>1, <1>2, <1>5, <2>2, Entries DEF EntryAt
  <2> HIDE DEF b, f, n, m
  <2>7. Filled(what, r) /\ View(what, r) = Without(f, m)
    <3>1. b.length = n /\ kind \in {"map", "set"}
      BY <1>1 DEF n
    <3> QED
      BY <1>2, <2>2, <2>3, <2>5, <3>1, EntryGone DEF f
  <2>8. Filling' /\ Abstract!Becomes(c, Without(f, m), answer')
    BY <1>6, <2>1, <2>4, <2>7, Becomes
  <2>9. Abstract!Take(c, key)
    BY <1>1, <1>2, <2>1, <2>6, <2>8 DEF Abstract!Take, Abstract!At, Without, m
  <2> QED
    BY <2>8, <2>9 DEF Simulated, Abstract!Next
<1> QED
  BY <1>7, <1>8

LEMMA SetRemoveImplements ==
    ASSUME RInv, HelpersAgree, NEW c \in Names, NEW element \in Keys, SetRemove(c, element)
    PROVE  Simulated
<1> DEFINE b == block[c]
           n == b.length
           i == Find(b, element)
           r == [b EXCEPT !.length = @ - 1, !.keys = CloseGap(@, i, b.length)]
           f == View(what, b)
           m == MeaningOf(element)
<1>1. kind = "set" /\ b # Absent
  BY DEF SetRemove
<1>2. /\ b \in Blocks /\ Filled(what, b) /\ Contents(c) = f /\ Contents(c) # Absent
      /\ n \in Nat /\ Separate(b)
  BY <1>1, Given, PresentBlock DEF HelpersAgree, RInv
<1>3. \/ i = -1 /\ \A j \in 1..n : KeyAt(what, b, j) # m
      \/ i + 1 \in 1..n /\ KeyAt(what, b, i + 1) = m
  BY <1>1, <1>2, Found DEF HelpersAgree, Find, KeyAt, HasKeys
<1>4. i \in -1..(n - 1)
  BY <1>2, FindInUse DEF Find
<1>5. DOMAIN f = KeysOf(what, b) /\ f = [k \in DOMAIN f |-> f[k]]
  BY <1>1, <1>2, Entries
<1>6. <<>> \in Seq(Things) /\ what' = what \o <<>> /\ UNCHANGED what
  BY NothingMade DEF RInv, SetRemove
<1> HIDE DEF i
<1>7. CASE i < 0
  <2>1. block' = [block EXCEPT ![c] = b] /\ kind' = kind /\ answer' = <<"had", FALSE>>
    BY <1>7 DEF SetRemove, Returns, i
  <2>2. m \notin DOMAIN f
    BY <1>3, <1>4, <1>5, <1>7 DEF KeysOf
  <2> HIDE DEF b, f, n, m
  <2>3. f = Without(f, m)
    BY <1>5, <2>2 DEF Without
  <2>4. Filling' /\ Abstract!Becomes(c, Without(f, m), answer')
    BY <1>1, <1>2, <1>6, <2>1, <2>3, Becomes DEF f
  <2>5. Abstract!Take(c, element)
    <3>1. (m \in DOMAIN f) = FALSE
      BY <2>2
    <3>2. answer' = <<"had", m \in DOMAIN f>>
      BY <2>1, <3>1
    <3> QED
      BY <1>1, <1>2, <2>4, <3>2 DEF Abstract!Take, Without, m
  <2> QED
    BY <2>4, <2>5 DEF Simulated, Abstract!Next
<1>8. CASE ~(i < 0)
  <2>1. block' = [block EXCEPT ![c] = r] /\ kind' = kind /\ answer' = <<"had", TRUE>>
    BY <1>8 DEF SetRemove, Returns, i
  <2>2. i + 1 \in 1..n /\ KeyAt(what, b, i + 1) = m /\ i \in 0..(n - 1)
    BY <1>3, <1>4, <1>8
  <2>3. /\ r.length = n - 1
        /\ \A j \in 1..(n - 1) : r.keys[j] = b.keys[IF j <= i THEN j ELSE j + 1]
    <3>1. /\ DOMAIN b.keys = 1..b.capacity /\ n <= b.capacity /\ b.capacity \in Nat
          /\ b \in [length : 0..MaxWord, capacity : 0..MaxWord, keys : Seq(Cells), values : Seq(Cells)]
      BY <1>2, BlockFields DEF Blocks
    <3> QED
      BY <1>2, <2>2, <3>1 DEF CloseGap
  <2>4. r # Absent
    <3>1. r \in Blocks
      BY <1>1, <1>2, <2>2, ElementRemoved
    <3> QED
      BY <3>1, AbsentAssumption
  <2> HIDE DEF r
  <2>5. \A j \in 1..(n - 1) : CellsAgree(what, b, IF j <= i THEN j ELSE j + 1, what, r, j)
    BY <1>1, <2>3 DEF CellsAgree
  <2>6. m \in DOMAIN f
    BY <1>5, <2>2 DEF KeysOf
  <2> HIDE DEF b, f, n, m
  <2>7. Filled(what, r) /\ View(what, r) = Without(f, m)
    <3>1. b.length = n /\ kind \in {"map", "set"}
      BY <1>1 DEF n
    <3> QED
      BY <1>2, <2>2, <2>3, <2>5, <3>1, EntryGone DEF f
  <2>8. Filling' /\ Abstract!Becomes(c, Without(f, m), answer')
    BY <1>6, <2>1, <2>4, <2>7, Becomes
  <2>9. Abstract!Take(c, element)
    BY <1>1, <1>2, <2>1, <2>6, <2>8 DEF Abstract!Take, Without, m
  <2> QED
    BY <2>8, <2>9 DEF Simulated, Abstract!Next
<1> QED
  BY <1>7, <1>8

-----------------------------------------------------------------------------
(* Copies *)

\* A block whose cells in use hold what those of another do.
LEMMA Copied ==
    ASSUME kind \in {"vec", "map", "set"}, NEW v, NEW b, NEW w, NEW r, NEW n \in Nat,
           Filled(v, b), b.length = n, r.length = n,
           HasKeys => \A j \in 1..n : w[r.keys[j]] = v[b.keys[j]],
           HasValues => \A j \in 1..n : w[r.values[j]] = v[b.values[j]]
    PROVE  Filled(w, r) /\ View(w, r) = View(v, b)
<1>1. Filled(w, r)
  BY DEF Filled
<1>2. CASE kind = "vec"
  <2>1. /\ View(w, r) = [j \in 1..n |-> MeaningOf(w[r.values[j]])]
        /\ View(v, b) = [j \in 1..n |-> MeaningOf(v[b.values[j]])]
    BY <1>2, VecView
  <2> QED
    BY <1>1, <1>2, <2>1 DEF HasValues
<1>3. CASE kind \in {"map", "set"}
  <2>1. \A j \in 1..n : KeyAt(w, r, j) = KeyAt(v, b, j) /\ EntryAt(w, r, j) = EntryAt(v, b, j)
    BY <1>3 DEF KeyAt, EntryAt, HasKeys, HasValues
  <2>2. KeysOf(w, r) = KeysOf(v, b)
    BY <2>1 DEF KeysOf
  <2>3. View(v, b) = [m \in KeysOf(w, r) |-> View(v, b)[m]]
    BY <1>3, <2>2, Entries
  <2>4. \A j \in 1..n : View(v, b)[KeyAt(w, r, j)] = EntryAt(w, r, j)
    <3>1. \A j \in 1..b.length : View(v, b)[KeyAt(v, b, j)] = EntryAt(v, b, j)
      BY <1>3, Entries
    <3> QED
      BY <2>1, <3>1
  <2> DEFINE f == View(v, b)
  <2> HIDE DEF f
  <2>5. View(w, r) = f
    BY <1>1, <1>3, <2>3, <2>4, EntriesAre DEF f
  <2> QED
    BY <1>1, <2>5 DEF f
<1> QED
  BY <1>2, <1>3

\* Where the cells in use are among those a clone visits.
LEMMA UsedAt ==
    ASSUME kind \in {"vec", "map", "set"}, NEW b \in Blocks, NEW n \in Nat, b.length = n
    PROVE  /\ HasKeys => \A j \in 1..n : Used(b)[j] = b.keys[j]
           /\ HasValues => \A j \in 1..n : Used(b)[IF kind = "map" THEN n + j ELSE j] = b.values[j]
<1> DEFINE k == IF kind = "vec" THEN 0 ELSE n
           v == IF kind = "set" THEN 0 ELSE n
           low == SubSeq(b.keys, 1, k)
           high == SubSeq(b.values, 1, v)
<1>1. /\ b.keys \in Seq(Cells) /\ Len(b.keys) = b.capacity
      /\ b.values \in Seq(Cells) /\ Len(b.values) = b.capacity
      /\ b.capacity \in Nat /\ n <= b.capacity
  BY BlockFields
<1>2. /\ low \in Seq(Cells) /\ Len(low) = k /\ \A j \in 1..k : low[j] = b.keys[j]
      /\ high \in Seq(Cells) /\ Len(high) = v /\ \A j \in 1..v : high[j] = b.values[j]
  <2>1. k \in 0..Len(b.keys) /\ v \in 0..Len(b.values)
        /\ 1 \in 1..(Len(b.keys) + 1) /\ 1 \in 1..(Len(b.values) + 1)
    BY <1>1
  <2> HIDE DEF k, v
  <2> QED
    BY <1>1, <2>1, SlicesOf
<1> HIDE DEF low, high
<1>3. \A j \in 1..(k + v) : (low \o high)[j] = IF j <= k THEN low[j] ELSE high[j - k]
  BY <1>2, ConcatProperties
<1>4. Used(b) = low \o high
  BY DEF Used, low, high
<1>5. ASSUME HasKeys, NEW j \in 1..n PROVE Used(b)[j] = b.keys[j]
  <2>1. k = n /\ j \in 1..(k + v) /\ j <= k
    BY <1>5 DEF HasKeys
  <2> QED
    BY <1>2, <1>3, <1>4, <2>1
<1>6. ASSUME HasValues, NEW j \in 1..n
      PROVE  Used(b)[IF kind = "map" THEN n + j ELSE j] = b.values[j]
  <2>1. v = n
    BY <1>6 DEF HasValues
  <2>2. CASE kind = "map"
    <3>1. n + j \in 1..(k + v) /\ ~(n + j <= k) /\ (n + j) - k = j /\ j \in 1..v
      BY <2>1, <2>2
    <3>2. (low \o high)[n + j] = high[j]
      BY <1>3, <3>1
    <3>3. high[j] = b.values[j]
      BY <1>2, <3>1
    <3> QED
      BY <1>4, <2>2, <3>2, <3>3
  <2>3. CASE kind # "map"
    <3>1. k = 0 /\ j \in 1..(k + v) /\ ~(j <= k) /\ j - k = j
      BY <1>6, <2>1, <2>3 DEF HasValues
    <3> QED
      BY <1>2, <1>3, <1>4, <2>1, <2>3, <3>1
  <2> QED
    BY <2>2, <2>3
<1> QED
  BY <1>5, <1>6

LEMMA CloneImplements ==
    ASSUME RInv, HelpersAgree, NEW c \in Names, NEW d \in Names, CloneCollection(c, d)
    PROVE  Simulated
<1> DEFINE b == block[c]
           n == b.length
           old == Used(b)
           made == [i \in DOMAIN old |-> what[old[i]]]
           ks == [i \in 1..n |-> IF kind = "vec" THEN None ELSE Fresh(i)]
           vs == [i \in 1..n |-> IF kind = "set" THEN None
                                 ELSE Fresh(IF kind = "map" THEN n + i ELSE i)]
           r == [length |-> n, capacity |-> n, keys |-> ks, values |-> vs]
           f == View(what, b)
<1>1. /\ b # Absent /\ block[d] = Absent /\ what \in Seq(Things) /\ what' = what \o made
      /\ block' = [block EXCEPT ![d] = r] /\ kind' = kind /\ answer' = None
  BY DEF CloneCollection, Create, Returns, RInv, IInv
<1>2. /\ b \in Blocks /\ Filled(what, b) /\ Contents(c) = f /\ Contents(c) # Absent
      /\ n \in Nat /\ Owned(b) \subseteq Resources /\ Separate(b) /\ kind \in {"vec", "map", "set"}
      /\ n \in 0..MaxWord
  BY <1>1, Given, PresentBlock, BlockFields DEF HelpersAgree, RInv
<1>3. /\ old \in Seq(Cells) /\ DOMAIN old = 1..Len(old)
      /\ Len(old) = (IF kind = "map" THEN 2 * n ELSE n)
      /\ {old[i] : i \in DOMAIN old} = Owned(b)
  BY <1>2, UsedCells
<1>4. /\ HasKeys => \A j \in 1..n : old[j] = b.keys[j]
      /\ HasValues => \A j \in 1..n : old[IF kind = "map" THEN n + j ELSE j] = b.values[j]
  BY <1>2, UsedAt
<1>5. Contents(d) = Absent
  BY <1>1 DEF Contents
<1> HIDE DEF old, b
<1>6. made \in Seq(Things) /\ Len(made) = Len(old)
  <2>1. \A i \in DOMAIN old : what[old[i]] \in Things
    BY <1>1, <1>2, <1>3, ElementOfSeq, LenProperties DEF Resources
  <2>2. made \in [1..Len(old) -> Things] /\ Len(old) \in Nat
    BY <1>2, <1>3, <2>1
  <2> HIDE DEF made
  <2> QED
    BY <1>3, <2>2, SeqDef
<1>7. \A i \in 1..Len(old) : what'[Fresh(i)] = what[old[i]]
  <2>1. \A i \in 1..Len(old) : made[i] = what[old[i]]
    BY <1>3
  <2> HIDE DEF made
  <2> QED
    BY <1>1, <1>6, <2>1, WhatKept DEF RInv
<1>8. r \in Blocks
  <2>1. Len(what) \in Nat
    BY <1>1, LenProperties
  <2> HIDE DEF n
  <2> QED
    BY <1>2, <2>1, FreshBlock
<1>9. r # Absent /\ r.length = n /\ r.keys = ks /\ r.values = vs
  BY <1>8, AbsentAssumption
<1> HIDE DEF made, r
<1>10. HasKeys => \A j \in 1..n : what'[r.keys[j]] = what[b.keys[j]]
  <2> SUFFICES ASSUME HasKeys, NEW j \in 1..n PROVE what'[r.keys[j]] = what[b.keys[j]]
    OBVIOUS
  <2>1. ks[j] = Fresh(j)
    BY DEF HasKeys
  <2>2. j \in 1..Len(old)
    BY <1>2, <1>3
  <2> QED
    BY <1>4, <1>7, <1>9, <2>1, <2>2
<1>11. HasValues => \A j \in 1..n : what'[r.values[j]] = what[b.values[j]]
  <2> SUFFICES ASSUME HasValues, NEW j \in 1..n PROVE what'[r.values[j]] = what[b.values[j]]
    OBVIOUS
  <2> DEFINE i == IF kind = "map" THEN n + j ELSE j
  <2>1. vs[j] = Fresh(i)
    BY DEF HasValues
  <2>2. i \in 1..Len(old)
    BY <1>2, <1>3
  <2>3. old[i] = b.values[j]
    BY <1>4
  <2> HIDE DEF i
  <2> QED
    BY <1>7, <1>9, <2>1, <2>2, <2>3
<1>12. Filled(what', r) /\ View(what', r) = f
  <2>1. b.length = n /\ n \in Nat
    BY <1>2 DEF n
  <2>2. r.length = n /\ Filled(what, b) /\ kind \in {"vec", "map", "set"}
    BY <1>2, <1>9
  <2> HIDE DEF n
  <2>3. Filled(what', r) /\ View(what', r) = View(what, b)
    <3> HIDE DEF f
    <3> QED
      BY <1>10, <1>11, <2>1, <2>2, Copied
  <2> QED
    BY <2>3
<1> HIDE DEF f
<1>13. Filling' /\ Abstract!Becomes(d, f, answer')
  BY <1>1, <1>6, <1>9, <1>12, Becomes
<1>14. Abstract!Clone(c, d)
  BY <1>1, <1>2, <1>5, <1>13 DEF Abstract!Clone
<1> QED
  BY <1>13, <1>14 DEF Simulated, Abstract!Next

LEMMA ConcatenateImplements ==
    ASSUME RInv, HelpersAgree, NEW c \in Names, NEW d \in Names, Concatenate(c, d)
    PROVE  Simulated
<1> DEFINE b == block[c]
           e == block[d]
           n == b.length + e.length
           low == SubSeq(b.values, 1, b.length)
           high == SubSeq(e.values, 1, e.length)
           r == [length |-> n, capacity |-> n, keys |-> [i \in 1..n |-> None],
                 values |-> low \o high]
           S == {MeaningOf(y) : y \in Items}
           f == View(what, b)
           h == View(what, e)
<1>1. kind = "vec" /\ c # d /\ b # Absent /\ e # Absent
  BY DEF Concatenate
<1>2. CASE n > MaxWord
  BY <1>1, <1>2, AbortImplements DEF Concatenate
<1>3. CASE ~(n > MaxWord)
  <2>1. /\ block' = [block EXCEPT ![d] = Absent, ![c] = r]
        /\ UNCHANGED <<kind, what, aborted>> /\ answer' = None
    BY <1>1, <1>3 DEF Concatenate, history
  <2>2. /\ b \in Blocks /\ Filled(what, b) /\ Contents(c) = f /\ Contents(c) # Absent
        /\ b.length \in Nat
        /\ e \in Blocks /\ Filled(what, e) /\ Contents(d) = h /\ Contents(d) # Absent
        /\ e.length \in Nat
    BY <1>1, Given DEF HelpersAgree
  <2>3. /\ low \in Seq(Cells) /\ Len(low) = b.length
        /\ \A j \in 1..b.length : low[j] = b.values[j]
        /\ high \in Seq(Cells) /\ Len(high) = e.length
        /\ \A j \in 1..e.length : high[j] = e.values[j]
    <3> DEFINE k == b.length
               l == e.length
               xs == b.values
               ys == e.values
    <3>1. /\ xs \in Seq(Cells) /\ k \in 0..Len(xs) /\ 1 \in 1..(Len(xs) + 1)
          /\ ys \in Seq(Cells) /\ l \in 0..Len(ys) /\ 1 \in 1..(Len(ys) + 1)
      BY <2>2, BlockFields
    <3> HIDE DEF k, l, xs, ys
    <3>2. /\ SubSeq(xs, 1, k) \in Seq(Cells) /\ Len(SubSeq(xs, 1, k)) = k
          /\ \A j \in 1..k : SubSeq(xs, 1, k)[j] = xs[j]
      BY <3>1, SlicesOf
    <3>3. /\ SubSeq(ys, 1, l) \in Seq(Cells) /\ Len(SubSeq(ys, 1, l)) = l
          /\ \A j \in 1..l : SubSeq(ys, 1, l)[j] = ys[j]
      BY <3>1, SlicesOf
    <3> QED
      BY <3>2, <3>3 DEF k, l, xs, ys
  <2>4. r.length = n /\ r.values = low \o high /\ n \in Nat /\ r # Absent
    <3>1. r \in Blocks
      <4>1. low \o high \in Seq(Cells) /\ Len(low \o high) = Len(low) + Len(high)
        BY <2>3, ConcatProperties
      <4>2. n \in 0..MaxWord /\ [i \in 1..n |-> None] \in Seq(Cells) /\ Len([i \in 1..n |-> None]) = n
        <5>1. n \in Nat /\ n <= MaxWord /\ MaxWord \in Nat
          BY <1>3, <2>2, CollectionsAssumption
        <5> HIDE DEF n
        <5> QED
          BY <5>1, ColumnNone
      <4> HIDE DEF low, high
      <4> QED
        BY <2>3, <4>1, <4>2 DEF Blocks
    <3>2. n \in Nat
      BY <2>2
    <3>3. r.length = n /\ r.values = low \o high
      OBVIOUS
    <3> HIDE DEF r
    <3> QED
      BY <3>1, <3>2, <3>3, AbsentAssumption
  <2> HIDE DEF low, high, r
  <2>5. \A j \in 1..n : r.values[j] = IF j <= b.length THEN b.values[j] ELSE e.values[j - b.length]
    <3>1. \A j \in 1..(Len(low) + Len(high)) :
             (low \o high)[j] = IF j <= Len(low) THEN low[j] ELSE high[j - Len(low)]
      BY <2>3, ConcatProperties
    <3>2. ASSUME NEW j \in 1..n
          PROVE  r.values[j] = IF j <= b.length THEN b.values[j] ELSE e.values[j - b.length]
      <4>1. j \in 1..(Len(low) + Len(high)) /\ Len(low) = b.length
        BY <2>2, <2>3
      <4>2. CASE j <= b.length
        <5>1. j \in 1..b.length
          BY <2>2, <4>2
        <5> QED
          BY <2>3, <2>4, <3>1, <4>1, <4>2, <5>1
      <4>3. CASE ~(j <= b.length)
        <5>1. j - b.length \in 1..e.length
          BY <2>2, <4>3
        <5> QED
          BY <2>3, <2>4, <3>1, <4>1, <4>3, <5>1
      <4> QED
        BY <4>2, <4>3
    <3> QED
      BY <3>2
  <2>6. Filled(what, r)
    <3>1. ASSUME NEW j \in 1..n PROVE what[r.values[j]] \in Items
      <4>1. CASE j <= b.length
        BY <1>1, <2>2, <2>5, <4>1 DEF Filled, HasValues
      <4>2. CASE ~(j <= b.length)
        <5>1. j - b.length \in 1..e.length
          BY <2>2, <4>2
        <5> QED
          BY <1>1, <2>2, <2>5, <4>2, <5>1 DEF Filled, HasValues
      <4> QED
        BY <4>1, <4>2
    <3> QED
      BY <1>1, <2>4, <3>1 DEF Filled, HasKeys
  <2>7. View(what, r) = f \o h
    <3>1. /\ f \in Seq(S) /\ Len(f) = b.length
          /\ h \in Seq(S) /\ Len(h) = e.length
      BY <1>1, <2>2, VecSeq
    <3>2. /\ \A j \in 1..b.length : f[j] = MeaningOf(what[b.values[j]])
          /\ \A j \in 1..e.length : h[j] = MeaningOf(what[e.values[j]])
      <4>1. f = [j \in 1..b.length |-> MeaningOf(what[b.values[j]])]
        BY <1>1, <2>2, VecView
      <4>2. h = [j \in 1..e.length |-> MeaningOf(what[e.values[j]])]
        BY <1>1, <2>2, VecView
      <4> QED
        BY <4>1, <4>2
    <3>3. View(what, r) = [j \in 1..n |-> MeaningOf(what[r.values[j]])]
      <4>1. r.length = n /\ n \in Nat
        BY <2>4
      <4> HIDE DEF n
      <4>2. View(what, r) = [j \in 1..n |-> MeaningOf(what[r.values[j]])]
        BY <1>1, <4>1, VecView
      <4> QED
        BY <4>2
    <3> HIDE DEF f, h, S
    <3>4. /\ f \o h \in Seq(S) /\ Len(f \o h) = n
          /\ \A j \in 1..n : (f \o h)[j] = IF j <= b.length THEN f[j] ELSE h[j - b.length]
      <4>1. /\ f \o h \in Seq(S) /\ Len(f \o h) = Len(f) + Len(h)
            /\ \A j \in 1..(Len(f) + Len(h)) :
                  (f \o h)[j] = IF j <= Len(f) THEN f[j] ELSE h[j - Len(f)]
        BY <3>1, ConcatProperties
      <4>2. Len(f) + Len(h) = n
        BY <3>1
      <4> QED
        BY <3>1, <4>1, <4>2
    <3>5. f \o h = [j \in 1..n |-> (f \o h)[j]]
      BY <3>4, LenProperties
    <3>6. ASSUME NEW j \in 1..n PROVE (f \o h)[j] = MeaningOf(what[r.values[j]])
      <4>1. CASE j <= b.length
        <5>1. j \in 1..b.length /\ (f \o h)[j] = f[j]
          BY <2>2, <3>4, <4>1
        <5>2. r.values[j] = b.values[j]
          BY <2>5, <4>1
        <5> QED
          BY <3>2, <5>1, <5>2
      <4>2. CASE ~(j <= b.length)
        <5>1. j - b.length \in 1..e.length /\ (f \o h)[j] = h[j - b.length]
          BY <2>2, <3>4, <4>2
        <5>2. r.values[j] = e.values[j - b.length]
          BY <2>5, <4>2
        <5> QED
          BY <3>2, <5>1, <5>2
      <4> QED
        BY <4>1, <4>2
    <3> QED
      BY <3>3, <3>5, <3>6
  <2> HIDE DEF b, e, n, f, h, S
  <2>8. block \in [Names -> Blocks \cup {Absent}]
    BY DEF RInv, IInv
  <2>9. /\ block'[c] = r /\ block'[d] = Absent
        /\ \A x \in Names : x # c /\ x # d => block'[x] = block[x]
    BY <1>1, <2>1, <2>8
  <2>10. ASSUME NEW x \in Names, x # c, x # d
         PROVE  Contents(x)' = Contents(x) /\ (block[x] # Absent => Filled(what, block[x])')
    <3>1. block'[x] = block[x]
      BY <2>9, <2>10
    <3> QED
      BY <2>1, <3>1, OthersKept
  <2>11. Contents(c)' = f \o h /\ Contents(d)' = Absent /\ Filled(what, block[c])'
    <3>1. View(what, block[c])' = View(what, r)
      <4>1. View(what, block[c])' = View(what', block'[c])
        BY <2>1 DEF View
      <4> QED
        BY <2>1, <2>9, <4>1
    <3>2. Filled(what, block[c])' <=> Filled(what, r)
      <4>1. Filled(what, block[c])' <=> Filled(what', block'[c])
        BY <2>1 DEF Filled, HasKeys, HasValues
      <4> QED
        BY <2>1, <2>9, <4>1
    <3> QED
      BY <2>4, <2>6, <2>7, <2>9, <3>1, <3>2 DEF Contents
  <2>12. Filling'
    <3> SUFFICES ASSUME NEW x \in Names, block'[x] # Absent PROVE Filled(what, block[x])'
      BY DEF Filling, Present
    <3>1. CASE x = c
      BY <2>11, <3>1
    <3>2. CASE x # c
      <4>1. x # d /\ block[x] # Absent
        BY <2>9, <3>2
      <4> QED
        BY <2>10, <3>2, <4>1
    <3> QED
      BY <3>1, <3>2
  <2> DEFINE old == [x \in Names |-> Contents(x)]
  <2>13. old' = [old EXCEPT ![c] = @ \o old[d], ![d] = Absent]
    <3>1. old' = [x \in Names |-> Contents(x)']
      OBVIOUS
    <3>2. \A x \in Names : Contents(x)' = IF x = d THEN Absent ELSE IF x = c THEN f \o h ELSE Contents(x)
      BY <1>1, <2>10, <2>11
    <3>3. old[c] = f /\ old[d] = h
      BY <2>2
    <3> QED
      BY <1>1, <3>1, <3>2, <3>3
  <2>14. Abstract!Concatenate(c, d)
    BY <1>1, <2>1, <2>2, <2>13 DEF Abstract!Concatenate
  <2> QED
    BY <2>12, <2>14 DEF Simulated, Abstract!Next
<1> QED
  BY <1>2, <1>3

-----------------------------------------------------------------------------
(* Answers *)

\* A Map or a Set has as many keys as cells in use.
LEMMA KeysCounted ==
    ASSUME kind \in {"map", "set"}, NEW w, NEW b, NEW n \in Nat, b.length = n, Filled(w, b)
    PROVE  IsFiniteSet(KeysOf(w, b)) /\ Cardinality(KeysOf(w, b)) = n
<1> DEFINE f == [i \in 1..n |-> KeyAt(w, b, i)]
           S == 1..n
           T == KeysOf(w, b)
<1>1. \A i, j \in S : KeyAt(w, b, i) = KeyAt(w, b, j) => i = j
  BY Entries
<1>2. \A m : m \in T <=> \E i \in S : m = KeyAt(w, b, i)
  BY DEF KeysOf
<1>3. IsFiniteSet(S) /\ Cardinality(S) = n
  BY FS_Interval
<1> HIDE DEF S, T
<1>4. f \in [S -> T] /\ \A i \in S : f[i] = KeyAt(w, b, i)
  BY <1>2 DEF S
<1> HIDE DEF f
<1>5. f \in Surjection(S, T)
  BY <1>2, <1>4 DEF Surjection
<1>6. f \in Injection(S, T)
  BY <1>1, <1>4 DEF Injection, IsInjective
<1> QED
  BY <1>3, <1>5, <1>6, FS_Surjection DEF T

LEMMA CountedAlike == \A S : Abstract!Cardinality(S) = Cardinality(S)
BY DEF Abstract!Cardinality, Cardinality

LEMMA ReadImplements ==
    ASSUME RInv, HelpersAgree, NEW c \in Names, Read(c)
    PROVE  Simulated
<1> DEFINE b == block[c]
           n == b.length
           f == View(what, b)
           At(i) == IF i < 0 \/ i >= b.length THEN None ELSE ValueAt(b, i)
           vec == [i \in Indices |-> At(i)]
           map == [k \in Keys |-> At(Find(b, k))]
           set == [k \in Keys |-> Find(b, k) >= 0]
<1>1. /\ b # Absent /\ UNCHANGED <<kind, block, what>>
      /\ answer' = <<"read", n, CASE kind = "vec" -> vec [] kind = "map" -> map [] kind = "set" -> set>>
  BY DEF Read, Answers, history
<1>2. /\ b \in Blocks /\ Filled(what, b) /\ Contents(c) = f /\ Contents(c) # Absent
      /\ n \in Nat /\ kind \in {"vec", "map", "set"}
  BY <1>1, Given DEF HelpersAgree
<1>3. Filling' /\ UNCHANGED [d \in Names |-> Contents(d)]
  BY <1>1, ContentsKept
<1> DEFINE size(y) == IF kind = "vec" THEN Len(y) ELSE Cardinality(DOMAIN y)
           given(y) == CASE kind = "vec" -> [i \in Indices |-> Abstract!At(y, i + 1)]
                         [] kind = "map" -> [k \in Keys |-> Abstract!At(y, MeaningOf(k))]
                         [] kind = "set" -> [k \in Keys |-> MeaningOf(k) \in DOMAIN y]
<1>4. ASSUME kind \in {"map", "set"}, NEW k \in Keys
      PROVE  /\ DOMAIN f = KeysOf(what, b) /\ Find(b, k) \in -1..(n - 1)
             /\ \/ Find(b, k) = -1 /\ MeaningOf(k) \notin DOMAIN f
                \/ /\ Find(b, k) + 1 \in 1..n /\ MeaningOf(k) \in DOMAIN f
                   /\ f[MeaningOf(k)] = EntryAt(what, b, Find(b, k) + 1)
  <2> DEFINE i == Find(b, k)
             m == MeaningOf(k)
  <2>1. DOMAIN f = KeysOf(what, b) /\ \A j \in 1..n : f[KeyAt(what, b, j)] = EntryAt(what, b, j)
    BY <1>2, <1>4, Entries
  <2>2. \/ i = -1 /\ \A j \in 1..n : KeyAt(what, b, j) # m
        \/ i + 1 \in 1..n /\ KeyAt(what, b, i + 1) = m
    BY <1>2, <1>4, Found DEF HelpersAgree, Find, KeyAt, HasKeys
  <2>3. i \in -1..(n - 1)
    BY <1>2, FindInUse DEF Find
  <2> HIDE DEF f, b, i, m, n
  <2>4. m \in DOMAIN f <=> \E j \in 1..n : m = KeyAt(what, b, j)
    BY <2>1 DEF KeysOf, n
  <2>5. CASE i = -1
    BY <2>1, <2>2, <2>3, <2>4, <2>5 DEF i, m
  <2>6. CASE i # -1
    <3>1. i + 1 \in 1..n /\ KeyAt(what, b, i + 1) = m
      BY <2>2, <2>6
    <3> QED
      BY <2>1, <2>3, <2>4, <3>1 DEF i, m
  <2> QED
    BY <2>5, <2>6
<1>5. ASSUME kind = "vec" PROVE answer' = <<"read", size(f), given(f)>>
  <2>1. Len(f) = n /\ DOMAIN f = 1..n /\ \A j \in 1..n : f[j] = MeaningOf(what[b.values[j]])
    BY <1>2, <1>5, VecView
  <2>2. \A i \in Indices : At(i) = Abstract!At(f, i + 1)
    <3>1. ASSUME NEW i \in Indices PROVE At(i) = Abstract!At(f, i + 1)
      <4>1. i \in Nat
        BY CollectionsAssumption
      <4> HIDE DEF f, n
      <4>2. CASE i < b.length
        <5>1. i + 1 \in 1..n /\ ~(i < 0) /\ ~(i >= b.length)
          BY <1>2, <4>1, <4>2 DEF n
        <5> QED
          BY <2>1, <5>1 DEF Abstract!At, ValueAt
      <4>3. CASE ~(i < b.length)
        <5>1. i + 1 \notin 1..n /\ i >= b.length
          BY <1>2, <4>1, <4>3 DEF n
        <5> QED
          BY <2>1, <5>1 DEF Abstract!At
      <4> QED
        BY <4>2, <4>3
    <3> QED
      BY <3>1
  <2>3. vec = [i \in Indices |-> Abstract!At(f, i + 1)]
    <3> HIDE DEF At, f
    <3> QED
      BY <2>2
  <2> HIDE DEF f, n, vec
  <2>4. answer' = <<"read", n, vec>>
    BY <1>1, <1>5
  <2>5. size(f) = n /\ given(f) = vec
    BY <1>5, <2>1, <2>3
  <2> HIDE DEF size, given
  <2> QED
    BY <2>4, <2>5
<1>6. ASSUME kind = "map" PROVE answer' = <<"read", size(f), given(f)>>
  <2>1. Cardinality(DOMAIN f) = n
    <3>1. DOMAIN f = KeysOf(what, b)
      BY <1>2, <1>6, Entries
    <3>2. Cardinality(KeysOf(what, b)) = n
      BY <1>2, <1>6, KeysCounted
    <3> QED
      BY <3>1, <3>2
  <2>2. \A k \in Keys : At(Find(b, k)) = Abstract!At(f, MeaningOf(k))
    <3>1. ASSUME NEW k \in Keys PROVE At(Find(b, k)) = Abstract!At(f, MeaningOf(k))
      <4> DEFINE i == Find(b, k)
      <4>1. /\ i \in -1..(n - 1)
            /\ \/ i = -1 /\ MeaningOf(k) \notin DOMAIN f
               \/ /\ i + 1 \in 1..n /\ MeaningOf(k) \in DOMAIN f
                  /\ f[MeaningOf(k)] = EntryAt(what, b, i + 1)
        BY <1>4, <1>6
      <4> HIDE DEF f, i, n
      <4>2. CASE i = -1
        BY <4>1, <4>2 DEF Abstract!At, i
      <4>3. CASE i # -1
        <5>1. ~(i < 0) /\ ~(i >= b.length)
          BY <1>2, <4>1, <4>3 DEF n
        <5> QED
          BY <1>6, <4>1, <4>3, <5>1 DEF Abstract!At, ValueAt, EntryAt, i
      <4> QED
        BY <4>2, <4>3
    <3> QED
      BY <3>1
  <2>3. map = [k \in Keys |-> Abstract!At(f, MeaningOf(k))]
    <3> HIDE DEF At, f
    <3> QED
      BY <2>2
  <2> HIDE DEF f, n, map
  <2>4. answer' = <<"read", n, map>>
    BY <1>1, <1>6
  <2>5. size(f) = n /\ given(f) = map
    BY <1>6, <2>1, <2>3
  <2> HIDE DEF size, given
  <2> QED
    BY <2>4, <2>5
<1>7. ASSUME kind = "set" PROVE answer' = <<"read", size(f), given(f)>>
  <2>1. Cardinality(DOMAIN f) = n
    <3>1. DOMAIN f = KeysOf(what, b)
      BY <1>2, <1>7, Entries
    <3>2. Cardinality(KeysOf(what, b)) = n
      BY <1>2, <1>7, KeysCounted
    <3> QED
      BY <3>1, <3>2
  <2>2. \A k \in Keys : (Find(b, k) >= 0) <=> MeaningOf(k) \in DOMAIN f
    <3>1. ASSUME NEW k \in Keys PROVE (Find(b, k) >= 0) <=> MeaningOf(k) \in DOMAIN f
      <4> DEFINE i == Find(b, k)
      <4>1. /\ i \in -1..(n - 1)
            /\ \/ i = -1 /\ MeaningOf(k) \notin DOMAIN f
               \/ i + 1 \in 1..n /\ MeaningOf(k) \in DOMAIN f
        BY <1>4, <1>7
      <4> HIDE DEF f, i, n
      <4>2. (i >= 0) <=> MeaningOf(k) \in DOMAIN f
        BY <1>2, <4>1 DEF n
      <4> QED
        BY <4>2 DEF i
    <3> QED
      BY <3>1
  <2>3. set = [k \in Keys |-> MeaningOf(k) \in DOMAIN f]
    <3> HIDE DEF f
    <3> QED
      BY <2>2
  <2> HIDE DEF f, n, set
  <2>4. answer' = <<"read", n, set>>
    BY <1>1, <1>7
  <2>5. size(f) = n /\ given(f) = set
    BY <1>7, <2>1, <2>3
  <2> HIDE DEF size, given
  <2> QED
    BY <2>4, <2>5
<1>8. answer' = <<"read", size(f), given(f)>>
  BY <1>2, <1>5, <1>6, <1>7
<1> DEFINE g == [d \in Names |-> Contents(d)]
<1>9. Abstract!Read(c) <=> (/\ g[c] # Absent /\ answer' = <<"read", size(g[c]), given(g[c])>>
                            /\ UNCHANGED <<kind, g>>)
  <2> DEFINE count(y) == IF kind = "vec" THEN Len(y) ELSE Abstract!Cardinality(DOMAIN y)
  <2>1. count(g[c]) = size(g[c])
    BY CountedAlike
  <2>2. Abstract!Read(c) <=> (/\ g[c] # Absent /\ answer' = <<"read", count(g[c]), given(g[c])>>
                              /\ UNCHANGED <<kind, g>>)
    BY Zenon DEF Abstract!Read, Abstract!Size
  <2> HIDE DEF count, size, given, g
  <2> QED
    BY <2>1, <2>2
<1>10. g[c] = f /\ UNCHANGED <<kind, g>> /\ f # Absent
  BY <1>1, <1>2, <1>3
<1> HIDE DEF g, f, size, given
<1>11. Abstract!Read(c)
  BY <1>8, <1>9, <1>10
<1> QED
  BY <1>3, <1>11 DEF Simulated, Abstract!Next

\* The cells of two collections, as == walks them.
LEMMA KeysCompared ==
    ASSUME kind \in {"map", "set"}, NEW w, NEW b, NEW e, b.length \in Nat, e.length \in Nat,
           Filled(w, b), Filled(w, e)
    PROVE  KeysOf(w, b) = KeysOf(w, e) <=>
               /\ b.length = e.length
               /\ \A i \in 1..b.length : \E j \in 1..e.length : KeyAt(w, b, i) = KeyAt(w, e, j)
<1> DEFINE n == b.length
           k == e.length
<1>1. /\ IsFiniteSet(KeysOf(w, b)) /\ Cardinality(KeysOf(w, b)) = n
      /\ IsFiniteSet(KeysOf(w, e)) /\ Cardinality(KeysOf(w, e)) = k
  BY KeysCounted
<1>2. /\ \A m : m \in KeysOf(w, b) <=> \E i \in 1..n : m = KeyAt(w, b, i)
      /\ \A m : m \in KeysOf(w, e) <=> \E j \in 1..k : m = KeyAt(w, e, j)
  BY DEF KeysOf
<1>3. ASSUME KeysOf(w, b) = KeysOf(w, e)
      PROVE  n = k /\ \A i \in 1..n : \E j \in 1..k : KeyAt(w, b, i) = KeyAt(w, e, j)
  <2>1. n = k
    BY <1>1, <1>3
  <2> QED
    BY <1>2, <1>3, <2>1
<1>4. ASSUME n = k, \A i \in 1..n : \E j \in 1..k : KeyAt(w, b, i) = KeyAt(w, e, j)
      PROVE  KeysOf(w, b) = KeysOf(w, e)
  <2>1. KeysOf(w, b) \subseteq KeysOf(w, e)
    BY <1>2, <1>4
  <2> QED
    BY <1>1, <1>4, <2>1, FS_Subset
<1> QED
  BY <1>3, <1>4

LEMMA SetsCompared ==
    ASSUME kind = "set", HelpersAgree, NEW b \in Blocks, NEW e \in Blocks,
           Filled(what, b), Filled(what, e)
    PROVE  Equals(AsValue(b), AsValue(e)) = (View(what, b) = View(what, e))
<1> DEFINE n == b.length
           k == e.length
           x == [i \in 1..n |-> what[b.keys[i]]]
           y == [i \in 1..k |-> what[e.keys[i]]]
           f == View(what, b)
           h == View(what, e)
           Stored == {z \in Short(Keys) : \A i, j \in DOMAIN z : Equals(z[i], z[j]) => i = j}
<1>1. n \in 0..MaxWord /\ k \in 0..MaxWord /\ n \in Nat /\ k \in Nat
  BY BlockFields
<1>2. AsValue(b) = [t |-> "set", e |-> x] /\ AsValue(e) = [t |-> "set", e |-> y]
  BY DEF AsValue
<1>3. /\ \A i \in 1..n : what[b.keys[i]] \in Keys
      /\ \A i \in 1..k : what[e.keys[i]] \in Keys
  BY DEF Filled, HasKeys
<1>4. x \in [1..n -> Keys] /\ y \in [1..k -> Keys]
  BY <1>3
<1>5. /\ \A i \in 1..n : MeaningOf(x[i]) = KeyAt(what, b, i)
      /\ \A i \in 1..k : MeaningOf(y[i]) = KeyAt(what, e, i)
  BY DEF KeyAt
<1>6. \A p, q \in Keys : Equals(p, q) <=> MeaningOf(p) = MeaningOf(q)
  BY DEF HelpersAgree, ElementsAgree, Same
<1>7. /\ \A i, j \in 1..n : KeyAt(what, b, i) = KeyAt(what, b, j) => i = j
      /\ \A i, j \in 1..k : KeyAt(what, e, i) = KeyAt(what, e, j) => i = j
      /\ f = [m \in KeysOf(what, b) |-> TRUE] /\ h = [m \in KeysOf(what, e) |-> TRUE]
  <2>1. f = [m \in KeysOf(what, b) |-> TRUE] /\ h = [m \in KeysOf(what, e) |-> TRUE]
    BY SetView DEF KeysOf, KeyAt
  <2>2. /\ \A i, j \in 1..n : KeyAt(what, b, i) = KeyAt(what, b, j) => i = j
        /\ \A i, j \in 1..k : KeyAt(what, e, i) = KeyAt(what, e, j) => i = j
    BY Entries
  <2> QED
    BY <2>1, <2>2
<1> HIDE DEF n, k, x, y, f, h
<1>8. Len(x) = n /\ Len(y) = k /\ DOMAIN x = 1..n /\ DOMAIN y = 1..k
  BY <1>1, <1>4
<1>9. x \in Stored /\ y \in Stored
  <2>1. x \in Short(Keys) /\ y \in Short(Keys)
    BY <1>1, <1>4 DEF Short
  <2>2. ASSUME NEW i \in 1..n, NEW j \in 1..n, Equals(x[i], x[j]) PROVE i = j
    BY <1>4, <1>5, <1>6, <1>7, <2>2
  <2>3. ASSUME NEW i \in 1..k, NEW j \in 1..k, Equals(y[i], y[j]) PROVE i = j
    BY <1>4, <1>5, <1>6, <1>7, <2>3
  <2> QED
    BY <1>8, <2>1, <2>2, <2>3
<1>10. Equals([t |-> "set", e |-> x], [t |-> "set", e |-> y]) =
           (Len(x) = Len(y) /\ \A i \in DOMAIN x : \E j \in DOMAIN y : Equals(x[i], y[j]))
  BY <1>9 DEF HelpersAgree, SetsAgree
<1>11. (\A i \in DOMAIN x : \E j \in DOMAIN y : Equals(x[i], y[j])) <=>
       (\A i \in 1..n : \E j \in 1..k : KeyAt(what, b, i) = KeyAt(what, e, j))
  <2>1. ASSUME NEW i \in 1..n, NEW j \in 1..k
        PROVE  Equals(x[i], y[j]) <=> KeyAt(what, b, i) = KeyAt(what, e, j)
    BY <1>4, <1>5, <1>6
  <2> QED
    BY <1>8, <2>1
<1>12. KeysOf(what, b) = KeysOf(what, e) <=>
           n = k /\ \A i \in 1..n : \E j \in 1..k : KeyAt(what, b, i) = KeyAt(what, e, j)
  <2>1. kind \in {"map", "set"} /\ b.length \in Nat /\ e.length \in Nat
    BY <1>1 DEF n, k
  <2> QED
    BY <2>1, KeysCompared DEF n, k
<1>13. f = h <=> KeysOf(what, b) = KeysOf(what, e)
  <2>1. DOMAIN f = KeysOf(what, b) /\ DOMAIN h = KeysOf(what, e)
    BY <1>7
  <2> QED
    BY <1>7, <2>1
<1>14. (Len(x) = Len(y) /\ \A i \in DOMAIN x : \E j \in DOMAIN y : Equals(x[i], y[j])) <=> f = h
  BY <1>8, <1>11, <1>12, <1>13
<1> QED
  BY <1>2, <1>10, <1>14 DEF f, h

LEMMA MapsCompared ==
    ASSUME kind = "map", HelpersAgree, NEW b \in Blocks, NEW e \in Blocks,
           Filled(what, b), Filled(what, e)
    PROVE  Equals(AsValue(b), AsValue(e)) = (View(what, b) = View(what, e))
<1> DEFINE n == b.length
           k == e.length
           x == [i \in 1..n |-> <<what[b.keys[i]], what[b.values[i]]>>]
           y == [i \in 1..k |-> <<what[e.keys[i]], what[e.values[i]]>>]
           f == View(what, b)
           h == View(what, e)
           Stored == {z \in Short(Keys \X Items) :
                         \A i, j \in DOMAIN z : Equals(z[i][1], z[j][1]) => i = j}
<1>1. n \in 0..MaxWord /\ k \in 0..MaxWord /\ n \in Nat /\ k \in Nat
  BY BlockFields
<1>2. AsValue(b) = [t |-> "map", e |-> x] /\ AsValue(e) = [t |-> "map", e |-> y]
  BY DEF AsValue
<1>3. /\ \A i \in 1..n : what[b.keys[i]] \in Keys /\ what[b.values[i]] \in Items
      /\ \A i \in 1..k : what[e.keys[i]] \in Keys /\ what[e.values[i]] \in Items
  BY DEF Filled, HasKeys, HasValues
<1>4. x \in [1..n -> Keys \X Items] /\ y \in [1..k -> Keys \X Items]
  BY <1>3
<1>5. /\ \A i \in 1..n : /\ x[i][1] \in Keys /\ x[i][2] \in Items
                         /\ MeaningOf(x[i][1]) = KeyAt(what, b, i)
                         /\ MeaningOf(x[i][2]) = EntryAt(what, b, i)
      /\ \A i \in 1..k : /\ y[i][1] \in Keys /\ y[i][2] \in Items
                         /\ MeaningOf(y[i][1]) = KeyAt(what, e, i)
                         /\ MeaningOf(y[i][2]) = EntryAt(what, e, i)
  BY <1>3 DEF KeyAt, EntryAt
<1>6. /\ \A p, q \in Keys : Equals(p, q) <=> MeaningOf(p) = MeaningOf(q)
      /\ \A p, q \in Items : Equals(p, q) <=> MeaningOf(p) = MeaningOf(q)
  BY DEF HelpersAgree, ElementsAgree, Same
<1>7. /\ \A i, j \in 1..n : KeyAt(what, b, i) = KeyAt(what, b, j) => i = j
      /\ \A i, j \in 1..k : KeyAt(what, e, i) = KeyAt(what, e, j) => i = j
      /\ \A i \in 1..n : f[KeyAt(what, b, i)] = EntryAt(what, b, i)
      /\ \A i \in 1..k : h[KeyAt(what, e, i)] = EntryAt(what, e, i)
      /\ f = [m \in KeysOf(what, b) |-> f[m]] /\ h = [m \in KeysOf(what, e) |-> h[m]]
      /\ DOMAIN f = KeysOf(what, b) /\ DOMAIN h = KeysOf(what, e)
  BY Entries
<1> HIDE DEF x, y, f, h
<1>8. Len(x) = n /\ Len(y) = k /\ DOMAIN x = 1..n /\ DOMAIN y = 1..k
  <2> HIDE DEF n, k
  <2> QED
    BY <1>1, <1>4
<1>9. x \in Stored /\ y \in Stored
  <2>1. x \in Short(Keys \X Items) /\ y \in Short(Keys \X Items)
    <3> HIDE DEF n, k
    <3> QED
      BY <1>1, <1>4 DEF Short
  <2>2. ASSUME NEW i \in 1..n, NEW j \in 1..n, Equals(x[i][1], x[j][1]) PROVE i = j
    BY <1>5, <1>6, <1>7, <2>2
  <2>3. ASSUME NEW i \in 1..k, NEW j \in 1..k, Equals(y[i][1], y[j][1]) PROVE i = j
    BY <1>5, <1>6, <1>7, <2>3
  <2> QED
    BY <1>8, <2>1, <2>2, <2>3
<1> DEFINE Alike(i, j) == Equals(x[i][1], y[j][1]) /\ Equals(x[i][2], y[j][2])
<1>10. Equals([t |-> "map", e |-> x], [t |-> "map", e |-> y]) =
           (Len(x) = Len(y) /\ \A i \in DOMAIN x : \E j \in DOMAIN y : Alike(i, j))
  BY <1>9 DEF HelpersAgree, MapsAgree
<1>11. ASSUME NEW i \in 1..n, NEW j \in 1..k
       PROVE  Alike(i, j) <=> /\ KeyAt(what, b, i) = KeyAt(what, e, j)
                              /\ EntryAt(what, b, i) = EntryAt(what, e, j)
  BY <1>5, <1>6
<1> HIDE DEF Alike, n, k
<1>12. KeysOf(what, b) = KeysOf(what, e) <=>
           n = k /\ \A i \in 1..n : \E j \in 1..k : KeyAt(what, b, i) = KeyAt(what, e, j)
  <2>1. kind \in {"map", "set"} /\ b.length \in Nat /\ e.length \in Nat
    BY <1>1 DEF n, k
  <2> QED
    BY <2>1, KeysCompared DEF n, k
<1>13. ASSUME n = k, \A i \in 1..n : \E j \in 1..k : Alike(i, j)
       PROVE  f = h
  <2>1. KeysOf(what, b) = KeysOf(what, e)
    BY <1>11, <1>12, <1>13
  <2>2. ASSUME NEW m \in KeysOf(what, b) PROVE f[m] = h[m]
    <3>1. PICK i \in 1..n : m = KeyAt(what, b, i)
      BY DEF KeysOf, n
    <3>2. PICK j \in 1..k : Alike(i, j)
      BY <1>13
    <3> QED
      BY <1>7, <1>11, <3>1, <3>2
  <2> QED
    BY <1>7, <2>1, <2>2
<1>14. ASSUME f = h
       PROVE  n = k /\ \A i \in 1..n : \E j \in 1..k : Alike(i, j)
  <2>1. n = k /\ \A i \in 1..n : \E j \in 1..k : KeyAt(what, b, i) = KeyAt(what, e, j)
    BY <1>7, <1>12, <1>14
  <2>2. ASSUME NEW i \in 1..n PROVE \E j \in 1..k : Alike(i, j)
    <3>1. PICK j \in 1..k : KeyAt(what, b, i) = KeyAt(what, e, j)
      BY <2>1
    <3>2. EntryAt(what, b, i) = EntryAt(what, e, j)
      BY <1>7, <1>14, <3>1
    <3> QED
      BY <1>11, <3>1, <3>2
  <2> QED
    BY <2>1, <2>2
<1>15. (Len(x) = Len(y) /\ \A i \in DOMAIN x : \E j \in DOMAIN y : Alike(i, j)) <=> f = h
  BY <1>8, <1>13, <1>14
<1> QED
  BY <1>2, <1>10, <1>15 DEF f, h

LEMMA VecsCompared ==
    ASSUME kind = "vec", HelpersAgree, NEW b \in Blocks, NEW e \in Blocks,
           Filled(what, b), Filled(what, e)
    PROVE  /\ Equals(AsValue(b), AsValue(e)) = (View(what, b) = View(what, e))
           /\ OrderOf(AsValue(b), AsValue(e)) =
                  Abstract!Lexicographic(View(what, b), View(what, e))
<1> DEFINE n == b.length
           k == e.length
           x == [i \in 1..n |-> what[b.values[i]]]
           y == [i \in 1..k |-> what[e.values[i]]]
           f == View(what, b)
           h == View(what, e)
           differ == {i \in DOMAIN x \cap DOMAIN y : OrderOf(x[i], y[i]) # 0}
           first == CHOOSE i \in differ : \A j \in differ : i <= j
<1>1. n \in 0..MaxWord /\ k \in 0..MaxWord /\ n \in Nat /\ k \in Nat
  BY BlockFields
<1>2. AsValue(b) = [t |-> "vec", e |-> x] /\ AsValue(e) = [t |-> "vec", e |-> y]
  BY DEF AsValue
<1>3. /\ \A i \in 1..n : what[b.values[i]] \in Items
      /\ \A i \in 1..k : what[e.values[i]] \in Items
  BY DEF Filled, HasValues
<1>4. x \in [1..n -> Items] /\ y \in [1..k -> Items]
  BY <1>3
<1>5. /\ f = [i \in 1..n |-> MeaningOf(what[b.values[i]])]
      /\ h = [i \in 1..k |-> MeaningOf(what[e.values[i]])]
      /\ DOMAIN f = 1..n /\ DOMAIN h = 1..k /\ Len(f) = n /\ Len(h) = k
  BY <1>1, VecView
<1>6. (\A i \in 1..n : f[i] = MeaningOf(x[i])) /\ (\A i \in 1..k : h[i] = MeaningOf(y[i]))
  BY <1>5
<1>7. f = h <=> n = k /\ \A i \in 1..n : f[i] = h[i]
  <2> HIDE DEF n, k
  <2>1. ASSUME f = h PROVE n = k
    BY <1>5, <2>1
  <2>2. f = [i \in 1..n |-> f[i]] /\ h = [i \in 1..k |-> h[i]]
    BY <1>5
  <2> HIDE DEF f, h
  <2> QED
    BY <2>1, <2>2
<1> HIDE DEF n, k, x, y, f, h
<1>8. Len(x) = n /\ Len(y) = k /\ DOMAIN x = 1..n /\ DOMAIN y = 1..k
  BY <1>1, <1>4
<1>9. x \in Short(Items) /\ y \in Short(Items)
  BY <1>1, <1>4 DEF Short
<1>10. \A p, q \in Items :
          /\ Equals(p, q) <=> MeaningOf(p) = MeaningOf(q)
          /\ OrderOf(p, q) = IF MeaningOf(p) = MeaningOf(q) THEN 0
                             ELSE IF MeaningOf(p)[2] < MeaningOf(q)[2] THEN -1 ELSE 1
  BY DEF HelpersAgree, ElementsAgree, Same
<1>11. /\ Equals([t |-> "vec", e |-> x], [t |-> "vec", e |-> y]) =
              (Len(x) = Len(y) /\ \A i \in DOMAIN x : Equals(x[i], y[i]))
       /\ OrderOf([t |-> "vec", e |-> x], [t |-> "vec", e |-> y]) =
              IF differ # {} THEN OrderOf(x[first], y[first])
              ELSE IF Len(x) < Len(y) THEN -1 ELSE IF Len(x) > Len(y) THEN 1 ELSE 0
  BY <1>9 DEF HelpersAgree, VecsAgree
<1>12. ASSUME NEW i \in 1..n, i \in 1..k
       PROVE  /\ Equals(x[i], y[i]) <=> f[i] = h[i]
              /\ OrderOf(x[i], y[i]) = IF f[i] = h[i] THEN 0 ELSE IF f[i][2] < h[i][2] THEN -1 ELSE 1
  BY <1>4, <1>6, <1>10, <1>12
<1>13. (Len(x) = Len(y) /\ \A i \in DOMAIN x : Equals(x[i], y[i])) <=> f = h
  BY <1>7, <1>8, <1>12
<1>14. differ = {i \in DOMAIN f \cap DOMAIN h : f[i] # h[i]}
  <2>1. DOMAIN x \cap DOMAIN y = DOMAIN f \cap DOMAIN h
    BY <1>5, <1>8
  <2>2. ASSUME NEW i \in DOMAIN x \cap DOMAIN y PROVE OrderOf(x[i], y[i]) # 0 <=> f[i] # h[i]
    BY <1>8, <1>12
  <2> QED
    BY <2>1, <2>2
<1>15. differ \subseteq Nat /\ (differ # {} => first \in differ)
  <2>1. differ \subseteq Nat
    BY <1>8
  <2> HIDE DEF differ
  <2> QED
    BY <2>1, FirstIndex
<1> DEFINE less == IF differ = {} THEN Len(f) < Len(h) ELSE f[first][2] < h[first][2]
<1>16. Abstract!Lexicographic(f, h) = IF f = h THEN 0 ELSE IF less THEN -1 ELSE 1
  BY <1>14 DEF Abstract!Lexicographic
<1> HIDE DEF first
<1>17. OrderOf([t |-> "vec", e |-> x], [t |-> "vec", e |-> y]) = Abstract!Lexicographic(f, h)
  <2>1. CASE differ # {}
    <3>1. first \in 1..n /\ first \in 1..k /\ f[first] # h[first] /\ f # h
      <4>1. first \in differ
        BY <1>15, <2>1
      <4>2. first \in DOMAIN f \cap DOMAIN h /\ f[first] # h[first]
        BY <1>14, <4>1
      <4> QED
        BY <1>5, <4>2
    <3>2. OrderOf(x[first], y[first]) = IF f[first][2] < h[first][2] THEN -1 ELSE 1
      BY <1>12, <3>1
    <3> HIDE DEF differ
    <3> QED
      BY <1>11, <1>16, <2>1, <3>1, <3>2
  <2>2. CASE differ = {}
    <3>1. \A i \in 1..n : i \in 1..k => f[i] = h[i]
      BY <1>5, <1>14, <2>2
    <3>2. f = h <=> n = k
      BY <1>7, <3>1
    <3> HIDE DEF differ
    <3> QED
      BY <1>1, <1>5, <1>8, <1>11, <1>16, <2>2, <3>2
  <2> QED
    BY <2>1, <2>2
<1> QED
  BY <1>2, <1>11, <1>13, <1>17 DEF f, h

LEMMA CompareImplements ==
    ASSUME RInv, HelpersAgree, NEW c \in Names, NEW d \in Names, Compare(c, d)
    PROVE  Simulated
<1> DEFINE b == block[c]
           e == block[d]
           f == View(what, b)
           h == View(what, e)
           order == IF kind = "vec" THEN Abstract!Lexicographic(f, h) ELSE None
<1>1. /\ b # Absent /\ e # Absent /\ UNCHANGED <<kind, block, what>>
      /\ answer' = <<"compared", Equals(AsValue(b), AsValue(e)),
                     IF kind = "vec" THEN OrderOf(AsValue(b), AsValue(e)) ELSE None>>
  BY DEF Compare, Answers, history
<1>2. /\ b \in Blocks /\ Filled(what, b) /\ Contents(c) = f /\ Contents(c) # Absent
      /\ e \in Blocks /\ Filled(what, e) /\ Contents(d) = h /\ Contents(d) # Absent
      /\ kind \in {"vec", "map", "set"}
  BY <1>1, Given DEF HelpersAgree
<1>3. Filling' /\ UNCHANGED [x \in Names |-> Contents(x)]
  BY <1>1, ContentsKept
<1>4. answer' = <<"compared", f = h, order>>
  <2> HIDE DEF b, e
  <2>1. Equals(AsValue(b), AsValue(e)) = (f = h)
    BY <1>2, VecsCompared, SetsCompared, MapsCompared
  <2>2. kind = "vec" => OrderOf(AsValue(b), AsValue(e)) = Abstract!Lexicographic(f, h)
    BY <1>2, VecsCompared
  <2> HIDE DEF f, h
  <2> QED
    BY <1>1, <2>1, <2>2
<1> HIDE DEF b, e, f, h
<1>5. Abstract!Compare(c, d)
  BY <1>1, <1>2, <1>3, <1>4 DEF Abstract!Compare
<1> QED
  BY <1>3, <1>5 DEF Simulated, Abstract!Next

-----------------------------------------------------------------------------
(* Literals: the last value given for a key counts *)

LastOf(keys, i, m) ==
    CHOOSE j \in 1..i : MeaningOf(keys[j]) = m /\ \A l \in 1..i : MeaningOf(keys[l]) = m => l <= j
Gathered(keys, values, i) ==
    [m \in {MeaningOf(keys[j]) : j \in 1..i} |-> values[LastOf(keys, i, m)]]

LEMMA LastIs ==
    ASSUME NEW keys, NEW i \in Nat, NEW j \in 1..i,
           \A l \in 1..i : MeaningOf(keys[l]) = MeaningOf(keys[j]) => l <= j
    PROVE  LastOf(keys, i, MeaningOf(keys[j])) = j
<1> DEFINE P(x) == /\ MeaningOf(keys[x]) = MeaningOf(keys[j])
                   /\ \A l \in 1..i : MeaningOf(keys[l]) = MeaningOf(keys[j]) => l <= x
<1>1. P(j) /\ \A x \in 1..i : P(x) => x = j
  OBVIOUS
<1>2. LastOf(keys, i, MeaningOf(keys[j])) = CHOOSE x \in 1..i : P(x)
  BY DEF LastOf
<1> HIDE DEF P
<1> QED
  BY <1>1, <1>2

LEMMA LastExists ==
    ASSUME NEW keys, NEW i \in Nat, NEW k \in 1..i
    PROVE  \E j \in 1..i : /\ MeaningOf(keys[j]) = MeaningOf(keys[k])
                           /\ \A l \in 1..i : MeaningOf(keys[l]) = MeaningOf(keys[j]) => l <= j
<1> DEFINE S == {x \in 0..i : i - x \in 1..i /\ MeaningOf(keys[i - x]) = MeaningOf(keys[k])}
<1>1. i - (i - k) = k /\ i - k \in 0..i
  OBVIOUS
<1>2. i - k \in S /\ S \subseteq Nat
  BY <1>1
<1> HIDE DEF S
<1>3. PICK x \in S : \A y \in S : x <= y
  BY <1>2, FirstIndex
<1>4. x \in 0..i /\ i - x \in 1..i /\ MeaningOf(keys[i - x]) = MeaningOf(keys[k])
  BY DEF S
<1>5. ASSUME NEW l \in 1..i, MeaningOf(keys[l]) = MeaningOf(keys[i - x]) PROVE l <= i - x
  <2>1. i - (i - l) = l /\ i - l \in 0..i
    OBVIOUS
  <2>2. i - l \in S
    BY <1>4, <1>5, <2>1 DEF S
  <2> QED
    BY <1>3, <1>4, <2>2
<1> QED
  BY <1>4, <1>5

\* What one more entry of a literal makes of those before it.
LEMMA GatheredNext ==
    ASSUME NEW keys, NEW values, NEW i \in Nat \ {0}
    PROVE  Gathered(keys, values, i) =
               With(Gathered(keys, values, i - 1), MeaningOf(keys[i]), values[i])
<1> DEFINE m == MeaningOf(keys[i])
           f == Gathered(keys, values, i - 1)
           g == Gathered(keys, values, i)
           Dom(j) == {MeaningOf(keys[l]) : l \in 1..j}
<1>1. i - 1 \in Nat /\ 1..i = (1..(i - 1)) \cup {i} /\ i \in 1..i
  OBVIOUS
<1>2. Dom(i) = Dom(i - 1) \cup {m}
  <2>1. \A x : x \in Dom(i) <=> \E l \in 1..i : x = MeaningOf(keys[l])
    OBVIOUS
  <2>2. \A x : x \in Dom(i - 1) <=> \E l \in 1..(i - 1) : x = MeaningOf(keys[l])
    OBVIOUS
  <2> HIDE DEF Dom
  <2> QED
    BY <1>1, <2>1, <2>2
<1>3. /\ f = [x \in Dom(i - 1) |-> values[LastOf(keys, i - 1, x)]] /\ DOMAIN f = Dom(i - 1)
      /\ g = [x \in Dom(i) |-> values[LastOf(keys, i, x)]]
  BY DEF Gathered
<1>4. LastOf(keys, i, m) = i
  BY <1>1, LastIs
<1>5. ASSUME NEW x \in Dom(i - 1), x # m PROVE LastOf(keys, i, x) = LastOf(keys, i - 1, x)
  <2>1. PICK k \in 1..(i - 1) : x = MeaningOf(keys[k])
    OBVIOUS
  <2>2. PICK j \in 1..(i - 1) : /\ MeaningOf(keys[j]) = MeaningOf(keys[k])
                                /\ \A l \in 1..(i - 1) : MeaningOf(keys[l]) = MeaningOf(keys[j]) => l <= j
    <3> DEFINE p == i - 1
    <3>1. p \in Nat /\ k \in 1..p
      BY <1>1
    <3> HIDE DEF p
    <3>2. \E j \in 1..p : /\ MeaningOf(keys[j]) = MeaningOf(keys[k])
                          /\ \A l \in 1..p : MeaningOf(keys[l]) = MeaningOf(keys[j]) => l <= j
      BY <3>1, LastExists
    <3> QED
      BY <3>2 DEF p
  <2>3. LastOf(keys, i - 1, MeaningOf(keys[j])) = j
    BY <1>1, <2>2, LastIs
  <2>4. j \in 1..i /\ \A l \in 1..i : MeaningOf(keys[l]) = MeaningOf(keys[j]) => l <= j
    BY <1>1, <1>5, <2>1, <2>2
  <2>5. LastOf(keys, i, MeaningOf(keys[j])) = j
    BY <2>4, LastIs
  <2> QED
    BY <2>1, <2>2, <2>3, <2>5
<1> HIDE DEF Dom, f, g, m
<1> QED
  BY <1>2, <1>3, <1>4, <1>5 DEF With, f, g, m

\* What one turn of the loop that fills a literal makes of what the block
\* stands for.
LEMMA AddEntryViews ==
    ASSUME ElementsAgree, Len(what) \in Nat, kind \in {"map", "set"},
           NEW n \in 0..MaxWord, NEW i \in 1..n, NEW st \in LiteralStates(n, i - 1),
           Filled(what', st.b), what'[Fresh(i)] \in Keys,
           kind = "map" => what'[Fresh(n + i)] \in Items
    PROVE  LET r == AddEntry(st, Fresh(i), LiteralValue(n, i)).b
               x == IF kind = "set" THEN TRUE ELSE MeaningOf(what'[Fresh(n + i)])
           IN  /\ Filled(what', r)
               /\ View(what', r) = With(View(what', st.b), MeaningOf(what'[Fresh(i)]), x)
<1> DEFINE b == st.b
           l == b.length
           k == Fresh(i)
           v == LiteralValue(n, i)
           key == what'[k]
           m == MeaningOf(key)
           x == IF kind = "set" THEN TRUE ELSE MeaningOf(what'[Fresh(n + i)])
           f == View(what', b)
           at == FindAmong(what', b, key) + 1
           g == [Reserve(b, b.length + 1) EXCEPT !.length = @ + 1,
                                                 !.keys[b.length + 1] = k,
                                                 !.values[b.length + 1] = v]
           r == [b EXCEPT !.values[at] = v]
           end == AddEntry(st, k, v)
<1>1. /\ b \in Blocks /\ l <= i - 1 /\ l \in Nat /\ l < MaxWord /\ i \in Nat
      /\ st \in [b : Blocks, lost : SUBSET Cells]
  <2>1. st \in [b : Blocks, lost : SUBSET Cells] /\ b \in Blocks /\ l <= i - 1
    BY DEF LiteralStates
  <2> QED
    BY <2>1, BlockFields, CollectionsAssumption
<1>2. k \in Cells /\ v \in Cells /\ (kind = "map" => v = Fresh(n + i))
  <2>1. n \in Nat
    BY CollectionsAssumption
  <2> QED
    BY <2>1, LiteralMakes DEF LiteralValue, Cells
<1>3. HasKeys /\ key \in Keys
  BY DEF HasKeys
<1>4. \/ at = 0 /\ \A j \in 1..l : KeyAt(what', b, j) # m
      \/ at \in 1..l /\ at # 0 /\ KeyAt(what', b, at) = m
  <2> DEFINE a == FindAmong(what', b, key)
  <2>1. \/ a = -1 /\ \A j \in 1..l : MeaningOf(what'[b.keys[j]]) # m
        \/ a + 1 \in 1..l /\ MeaningOf(what'[b.keys[a + 1]]) = m
    BY <1>1, <1>3, Found
  <2> HIDE DEF a, b
  <2> QED
    BY <1>1, <2>1 DEF a, KeyAt
<1>5. AddEntry(st, k, v) = IF at = 0 THEN [st EXCEPT !.b = g]
                           ELSE [b |-> IF kind = "map" THEN r ELSE b,
                                 lost |-> st.lost \cup (IF kind = "map" THEN {k, b.values[at]}
                                                                          ELSE {k})]
  BY DEF AddEntry
<1>6. kind = "map" => what'[v] \in Items /\ MeaningOf(what'[v]) = x
  BY <1>2
<1> HIDE DEF at, k, v, x, m, key
<1>7. CASE at = 0
  <2>1. end.b = g
    BY <1>1, <1>5, <1>7
  <2>2. /\ g.length = l + 1 /\ g.keys[l + 1] = k /\ g.values[l + 1] = v
        /\ \A j \in 1..l : g.keys[j] = b.keys[j] /\ g.values[j] = b.values[j]
    BY <1>1, <1>2, AppendedCells
  <2> HIDE DEF g, f
  <2>3. \A j \in 1..l : CellsAgree(what', b, j, what', g, j)
    BY <2>2 DEF CellsAgree
  <2>4. KeyAt(what', g, l + 1) = m /\ EntryAt(what', g, l + 1) = x
    <3>1. KeyAt(what', g, l + 1) = m
      BY <2>2 DEF KeyAt, m, key
    <3>2. EntryAt(what', g, l + 1) = x
      BY <1>6, <2>2 DEF EntryAt, x
    <3> QED
      BY <3>1, <3>2
  <2>5. \A j \in 1..l : KeyAt(what', b, j) # KeyAt(what', g, l + 1)
    BY <1>4, <1>7, <2>4
  <2>6. what'[g.keys[l + 1]] \in Keys /\ (kind = "map" => what'[g.values[l + 1]] \in Items)
    BY <1>3, <1>6, <2>2 DEF key
  <2>7. b.length = l /\ l \in Nat /\ g.length = l + 1
    BY <1>1, <2>2
  <2> HIDE DEF l, b
  <2>8. Filled(what', b)
    BY DEF b
  <2>9. /\ Filled(what', g)
        /\ View(what', g) = With(View(what', b), KeyAt(what', g, l + 1), EntryAt(what', g, l + 1))
    <3> DEFINE w == what'
    <3>1. /\ Filled(w, b) /\ b.length = l /\ l \in Nat /\ g.length = l + 1
          /\ \A j \in 1..l : CellsAgree(w, b, j, w, g, j)
          /\ w[g.keys[l + 1]] \in Keys
          /\ kind = "map" => w[g.values[l + 1]] \in Items
          /\ \A j \in 1..l : KeyAt(w, b, j) # KeyAt(w, g, l + 1)
      BY <2>3, <2>5, <2>6, <2>7, <2>8
    <3> HIDE DEF w
    <3>2. /\ Filled(w, g)
          /\ View(w, g) = With(View(w, b), KeyAt(w, g, l + 1), EntryAt(w, g, l + 1))
      BY <3>1, EntryPut
    <3> QED
      BY <3>2 DEF w
  <2>10. Filled(what', g) /\ View(what', g) = With(View(what', b), m, x)
    BY <2>4, <2>9
  <2> HIDE DEF end
  <2> QED
    BY <2>1, <2>10 DEF end, b, m, x, key, k, v
<1>8. CASE at # 0 /\ kind = "map"
  <2>1. end.b = r
    BY <1>5, <1>8
  <2>2. at \in 1..l /\ KeyAt(what', b, at) = m
    BY <1>4, <1>8
  <2>3. /\ r.length = l /\ r.keys = b.keys /\ r.values[at] = v
        /\ \A j \in 1..l : j # at => r.values[j] = b.values[j]
    <3>1. /\ DOMAIN b.values = 1..b.capacity /\ l <= b.capacity /\ b.capacity \in Nat
          /\ b \in [length : 0..MaxWord, capacity : 0..MaxWord, keys : Seq(Cells), values : Seq(Cells)]
      BY <1>1, BlockFields DEF Blocks
    <3> HIDE DEF b
    <3> QED
      BY <1>1, <2>2, <3>1
  <2> HIDE DEF r, f
  <2>4. /\ \A j \in 1..l : what'[r.keys[j]] = what'[b.keys[j]]
        /\ \A j \in 1..l : j # at => CellsAgree(what', b, j, what', r, j)
    BY <2>3 DEF CellsAgree
  <2>5. EntryAt(what', r, at) = x /\ (kind = "map" => what'[r.values[at]] \in Items)
    BY <1>6, <1>8, <2>3 DEF EntryAt, x
  <2>6. b.length = l /\ l \in Nat /\ r.length = l
    BY <1>1, <2>3
  <2> HIDE DEF l, b
  <2>7. Filled(what', b)
    BY DEF b
  <2>8. /\ Filled(what', r)
        /\ View(what', r) = With(View(what', b), KeyAt(what', b, at), EntryAt(what', r, at))
    BY <2>2, <2>4, <2>5, <2>6, <2>7, EntryRenewed
  <2>9. Filled(what', r) /\ View(what', r) = With(View(what', b), m, x)
    BY <2>2, <2>5, <2>8
  <2> HIDE DEF end
  <2> QED
    BY <2>1, <2>9 DEF end, b, m, x, key, k, v
<1>9. CASE at # 0 /\ kind = "set"
  <2>1. end.b = b
    BY <1>5, <1>9
  <2>2. at \in 1..l /\ KeyAt(what', b, at) = m
    BY <1>4, <1>9
  <2>3. /\ DOMAIN f = KeysOf(what', b) /\ f = [y \in KeysOf(what', b) |-> TRUE]
        /\ m \in KeysOf(what', b)
    <3>1. f = [y \in KeysOf(what', b) |-> TRUE]
      BY <1>9, SetView DEF KeysOf, KeyAt
    <3>2. m \in KeysOf(what', b)
      BY <2>2 DEF KeysOf
    <3> QED
      BY <3>1, <3>2
  <2> HIDE DEF f
  <2>4. f = With(f, m, TRUE)
    BY <2>3 DEF With
  <2>5. x = TRUE
    BY <1>9 DEF x
  <2> HIDE DEF end
  <2> QED
    BY <2>1, <2>4, <2>5 DEF end, f, b, m, x, key, k, v
<1> QED
  BY <1>7, <1>8, <1>9

\* What the block of a literal stands for when the loop has ended.
LEMMA LiteralViews ==
    ASSUME ElementsAgree, Len(what) \in Nat, kind \in {"map", "set"}, NEW n \in 0..MaxWord,
           NEW keys, NEW values, \A i \in 1..n : keys[i] \in Keys /\ what'[Fresh(i)] = keys[i],
           kind = "set" => \A i \in 1..n : values[i] = TRUE,
           kind = "map" => \A i \in 1..n : /\ what'[Fresh(n + i)] \in Items
                                           /\ values[i] = MeaningOf(what'[Fresh(n + i)])
    PROVE  LET after[i \in 0..n] == IF i = 0 THEN [b |-> EmptyBlock, lost |-> {}]
                                    ELSE AddEntry(after[i - 1], Fresh(i), LiteralValue(n, i))
           IN  /\ after[n] \in LiteralStates(n, n)
               /\ Filled(what', after[n].b)
               /\ View(what', after[n].b) = Gathered(keys, values, n)
<1> DEFINE base == [b |-> EmptyBlock, lost |-> {}]
           Good(i) == {st \in LiteralStates(n, i) :
                          Filled(what', st.b) /\ View(what', st.b) = Gathered(keys, values, i)}
           S == [i \in 0..n |-> Good(i)]
<1>1. n \in Nat
  BY CollectionsAssumption
<1>2. /\ S[0] = Good(0) /\ S[n] = Good(n)
      /\ \A i \in 1..n : S[i - 1] = Good(i - 1) /\ S[i] = Good(i)
  <2> HIDE DEF Good
  <2> QED
    BY <1>1
<1>3. base \in Good(0)
  <2>1. base \in LiteralStates(n, 0)
    BY <1>1, LiteralStart
  <2>2. base.b = EmptyBlock /\ EmptyBlock.length = 0
    BY DEF EmptyBlock
  <2>3. View(what', EmptyBlock) = <<>> /\ Filled(what', EmptyBlock)
    BY <2>2, EmptyView
  <2>4. Gathered(keys, values, 0) = <<>>
    BY DEF Gathered
  <2> HIDE DEF base
  <2> QED
    BY <2>1, <2>2, <2>3, <2>4
<1>4. ASSUME NEW i \in 1..n, NEW st \in Good(i - 1)
      PROVE  AddEntry(st, Fresh(i), LiteralValue(n, i)) \in Good(i)
  <2> DEFINE end == AddEntry(st, Fresh(i), LiteralValue(n, i))
             x == IF kind = "set" THEN TRUE ELSE MeaningOf(what'[Fresh(n + i)])
             f == Gathered(keys, values, i - 1)
  <2>1. st \in LiteralStates(n, i - 1) /\ Filled(what', st.b) /\ View(what', st.b) = f
    OBVIOUS
  <2>2. /\ what'[Fresh(i)] \in Keys /\ what'[Fresh(i)] = keys[i]
        /\ kind = "map" => what'[Fresh(n + i)] \in Items
        /\ values[i] = x
    OBVIOUS
  <2>3. end \in LiteralStates(n, i)
    BY <2>1, AddEntryKeeps
  <2>4. Filled(what', end.b) /\ View(what', end.b) = With(View(what', st.b), MeaningOf(what'[Fresh(i)]), x)
    BY <2>1, <2>2, AddEntryViews
  <2>5. Gathered(keys, values, i) = With(f, MeaningOf(keys[i]), values[i])
    <3>1. i \in Nat \ {0}
      OBVIOUS
    <3> QED
      BY <3>1, GatheredNext
  <2> HIDE DEF end, x, f
  <2>6. View(what', end.b) = Gathered(keys, values, i)
    BY <2>1, <2>2, <2>4, <2>5
  <2> QED
    BY <2>3, <2>4, <2>6 DEF end
<1> HIDE DEF S, Good
<1>5. base \in S[0] /\ \A i \in 1..n : \A st \in S[i - 1] : AddEntry(st, Fresh(i), LiteralValue(n, i)) \in S[i]
  BY <1>2, <1>3, <1>4
<1> DEFINE after[i \in 0..n] == IF i = 0 THEN base
                                ELSE AddEntry(after[i - 1], Fresh(i), LiteralValue(n, i))
<1>6. after[n] \in S[n]
  BY <1>1, <1>5, LiteralTurns
<1> HIDE DEF after
<1>7. after[n] \in Good(n)
  BY <1>2, <1>6
<1>8. /\ after[n] \in LiteralStates(n, n) /\ Filled(what', after[n].b)
      /\ View(what', after[n].b) = Gathered(keys, values, n)
  BY <1>7 DEF Good
<1> QED
  BY <1>8 DEF after

LEMMA LiteralImplements ==
    ASSUME RInv, HelpersAgree, NEW c \in Names, NEW n \in Literals, NEW keys \in [1..n -> Keys],
           Literal(c, keys)
    PROVE  Simulated
<1> DEFINE items == [i \in 1..n |-> Value(IF kind = "map" THEN n + i ELSE i)]
           value(i) == IF kind = "map" THEN Fresh(n + i) ELSE None
           made == CASE kind = "vec" -> items
                     [] kind = "set" -> keys
                     [] kind = "map" -> keys \o items
           after[i \in 0..n] == IF i = 0 THEN [b |-> EmptyBlock, lost |-> {}]
                                ELSE AddEntry(after[i - 1], Fresh(i), value(i))
           end == after[n]
           vec == [length |-> n, capacity |-> n, keys |-> [i \in 1..n |-> None],
                   values |-> [i \in 1..n |-> Fresh(i)]]
           r == IF kind = "vec" THEN vec ELSE end.b
           Dom == {MeaningOf(k) : k \in Abstract!ToSet(keys)}
<1>1. n \in 0..MaxWord /\ n \in Nat /\ kind \in {"vec", "map", "set"} /\ IInv
  BY CollectionsAssumption DEF IInv, RInv
<1>2. Len(keys) = n /\ DOMAIN keys = 1..n
  BY <1>1, LiteralCreates
<1>3. /\ Create(made) /\ kind' = kind /\ block' = [block EXCEPT ![c] = r] /\ answer' = None
      /\ block[c] = Absent
  <2>1. Create(made) /\ block[c] = Absent
    BY <1>2, Zenon DEF Literal
  <2>2. Returns(c, r, None)
    BY <1>2 DEF Literal
  <2> QED
    BY <2>1, <2>2 DEF Returns
<1>4. /\ made \in Seq(Things) /\ Len(made) = (IF kind = "map" THEN 2 * n ELSE n)
      /\ what' = what \o made
  BY <1>1, <1>3, LiteralCreates DEF Create
<1>5. Len(what) \in Nat /\ Contents(c) = Absent
  BY <1>1, <1>3, LenProperties DEF IInv, Contents
<1>6. \A i \in 1..Len(made) : what'[Fresh(i)] = made[i] /\ Value(i) \in Items
  <2> HIDE DEF made
  <2> QED
    BY <1>1, <1>3, <1>4, WhatKept, ItemMade
<1>7. CASE kind = "vec"
  <2>1. \A i \in 1..n : what'[Fresh(i)] = Value(i) /\ Value(i) \in Items
    <3>1. made = [i \in 1..n |-> Value(i)] /\ Len(made) = n
      BY <1>4, <1>7
    <3> HIDE DEF made
    <3> QED
      BY <1>6, <3>1
  <2>2. r = vec /\ vec.length = n /\ \A i \in 1..n : vec.values[i] = Fresh(i)
    BY <1>7
  <2>3. vec # Absent
    <3>1. vec \in Blocks
      BY <1>1, <1>5, <1>7, FreshBlock
    <3> QED
      BY <3>1, AbsentAssumption
  <2> HIDE DEF vec, r, made
  <2>4. Filled(what', vec)
    BY <1>7, <2>1, <2>2 DEF Filled, HasKeys
  <2> DEFINE given == [i \in 1..n |-> Value(i)]
  <2>5. View(what', vec) = [i \in 1..n |-> MeaningOf(given[i])]
    <3>1. View(what', vec) = [i \in 1..n |-> MeaningOf(what'[vec.values[i]])]
      BY <1>1, <1>7, <2>2, VecView
    <3> QED
      BY <2>1, <2>2, <3>1
  <2>6. given \in [1..n -> Items] /\ DOMAIN given = 1..n
    BY <2>1
  <2> HIDE DEF given
  <2>7. Filling' /\ Abstract!Becomes(c, View(what', vec), answer')
    BY <1>3, <1>4, <2>2, <2>3, <2>4, Becomes
  <2>8. Abstract!Literal(c, keys, given)
    BY <1>3, <1>7, <2>5, <2>6, <2>7 DEF Abstract!Literal
  <2> QED
    BY <1>5, <2>6, <2>7, <2>8 DEF Simulated, Abstract!Next
<1> DEFINE values == [i \in 1..n |-> IF kind = "set" THEN TRUE ELSE MeaningOf(Value(n + i))]
<1>8. ASSUME kind \in {"map", "set"}
      PROVE  /\ r # Absent /\ Filled(what', r) /\ View(what', r) = Gathered(keys, values, n)
             /\ kind = "map" => \A i \in 1..n : Value(n + i) \in Items
  <2>1. \A i \in 1..n : keys[i] \in Keys /\ what'[Fresh(i)] = keys[i]
    <3>1. CASE kind = "set"
      <4>1. made = keys /\ Len(made) = n
        BY <1>4, <3>1
      <4> HIDE DEF made
      <4> QED
        BY <1>6, <4>1
    <3>2. CASE kind = "map"
      <4>1. made = keys \o items /\ Len(made) = 2 * n
        BY <1>4, <3>2
      <4>2. \A i \in 1..n : (keys \o items)[i] = keys[i]
        <5>1. keys \in Seq(Things) /\ items \in Seq(Things) /\ Len(items) = n
          BY <1>1, LiteralCreates
        <5> HIDE DEF items
        <5> QED
          BY <1>1, <1>2, <5>1, ConcatProperties
      <4> HIDE DEF made, items
      <4> QED
        BY <1>1, <1>6, <4>1, <4>2
    <3> QED
      BY <1>8, <3>1, <3>2
  <2>2. kind = "map" => \A i \in 1..n : what'[Fresh(n + i)] = Value(n + i) /\ Value(n + i) \in Items
    <3> SUFFICES ASSUME kind = "map", NEW i \in 1..n
                 PROVE  what'[Fresh(n + i)] = Value(n + i) /\ Value(n + i) \in Items
      OBVIOUS
    <3>1. made = keys \o items /\ Len(made) = 2 * n
      BY <1>4
    <3>2. items[i] = Value(n + i)
      OBVIOUS
    <3>3. (keys \o items)[n + i] = items[i]
      <4>1. keys \in Seq(Things) /\ items \in Seq(Things) /\ Len(items) = n
        BY <1>1, LiteralCreates
      <4>2. n + i \in 1..(n + n) /\ ~(n + i <= n) /\ (n + i) - n = i
        BY <1>1
      <4> HIDE DEF items
      <4> QED
        BY <1>1, <1>2, <4>1, <4>2, ConcatProperties
    <3>4. n + i \in 1..Len(made)
      BY <1>1, <3>1
    <3> HIDE DEF made, items
    <3> QED
      BY <1>6, <3>1, <3>2, <3>3, <3>4
  <2>3. \A i \in 1..n : values[i] = IF kind = "set" THEN TRUE ELSE MeaningOf(Value(n + i))
    OBVIOUS
  <2> HIDE DEF values, made
  <2>4. /\ kind = "set" => \A i \in 1..n : values[i] = TRUE
        /\ kind = "map" => \A i \in 1..n : /\ what'[Fresh(n + i)] \in Items
                                           /\ values[i] = MeaningOf(what'[Fresh(n + i)])
    BY <2>2, <2>3
  <2>5. /\ end \in LiteralStates(n, n) /\ Filled(what', end.b)
        /\ View(what', end.b) = Gathered(keys, values, n)
    BY <1>1, <1>5, <1>8, <2>1, <2>4, LiteralViews DEF HelpersAgree, LiteralValue
  <2> HIDE DEF end
  <2>6. r = end.b
    BY <1>8
  <2>7. end.b \in Blocks
    BY <2>5 DEF LiteralStates
  <2> QED
    BY <2>2, <2>5, <2>6, <2>7, AbsentAssumption
<1>9. ASSUME kind \in {"map", "set"}
      PROVE  Filling' /\ Abstract!Becomes(c, Gathered(keys, values, n), None)
  <2> HIDE DEF r, made, values
  <2> QED
    BY <1>3, <1>4, <1>8, <1>9, Becomes
<1>10. Dom = {MeaningOf(keys[j]) : j \in 1..n}
  BY <1>2 DEF Abstract!ToSet
<1>11. CASE kind = "map"
  <2> DEFINE given == [i \in 1..n |-> Value(n + i)]
             last(m) == CHOOSE i \in DOMAIN keys :
                           /\ MeaningOf(keys[i]) = m
                           /\ \A j \in DOMAIN keys : MeaningOf(keys[j]) = m => j <= i
  <2>1. given \in [1..n -> Items]
    BY <1>8, <1>11
  <2>2. Gathered(keys, values, n) = [m \in Dom |-> MeaningOf(given[last(m)])]
    <3>1. \A m : last(m) = LastOf(keys, n, m)
      BY <1>2 DEF LastOf
    <3>2. ASSUME NEW m \in Dom PROVE values[last(m)] = MeaningOf(given[last(m)])
      <4>1. PICK k \in 1..n : m = MeaningOf(keys[k])
        BY <1>10
      <4>2. PICK j \in 1..n : /\ MeaningOf(keys[j]) = MeaningOf(keys[k])
                              /\ \A l \in 1..n : MeaningOf(keys[l]) = MeaningOf(keys[j]) => l <= j
        BY <1>1, LastExists
      <4>3. LastOf(keys, n, MeaningOf(keys[j])) = j
        BY <1>1, <4>2, LastIs
      <4>4. last(m) = j
        BY <3>1, <4>1, <4>2, <4>3
      <4> HIDE DEF last
      <4> QED
        BY <1>11, <4>4
    <3>3. Gathered(keys, values, n) = [m \in Dom |-> values[LastOf(keys, n, m)]]
      BY <1>10 DEF Gathered
    <3> HIDE DEF last, Dom, values, given
    <3> QED
      BY <3>1, <3>2, <3>3
  <2> HIDE DEF given
  <2>3. Abstract!Literal(c, keys, given)
    <3> HIDE DEF values
    <3> QED
      BY <1>9, <1>11, <2>2 DEF Abstract!Literal
  <2> QED
    BY <1>5, <1>9, <1>11, <2>1, <2>3 DEF Simulated, Abstract!Next
<1>12. CASE kind = "set"
  <2>1. PICK given \in [1..n -> Items] : TRUE
    <3>1. CASE n = 0
      <4>1. <<>> \in [1..n -> Items]
        BY <3>1
      <4> QED
        BY <4>1
    <3>2. CASE n # 0
      <4>1. 1 \in 1..Len(made)
        BY <1>1, <1>4, <1>12, <3>2
      <4>2. Value(1) \in Items
        BY <1>6, <4>1
      <4>3. [i \in 1..n |-> Value(1)] \in [1..n -> Items]
        BY <4>2
      <4> QED
        BY <4>3
    <3> QED
      BY <3>1, <3>2
  <2>2. Gathered(keys, values, n) = [m \in Dom |-> TRUE]
    <3>1. ASSUME NEW m \in Dom PROVE values[LastOf(keys, n, m)] = TRUE
      <4>1. PICK k \in 1..n : m = MeaningOf(keys[k])
        BY <1>10
      <4>2. PICK j \in 1..n : /\ MeaningOf(keys[j]) = MeaningOf(keys[k])
                              /\ \A l \in 1..n : MeaningOf(keys[l]) = MeaningOf(keys[j]) => l <= j
        BY <1>1, LastExists
      <4>3. LastOf(keys, n, MeaningOf(keys[j])) = j
        BY <1>1, <4>2, LastIs
      <4> QED
        BY <1>12, <4>1, <4>2, <4>3
    <3>2. Gathered(keys, values, n) = [m \in Dom |-> values[LastOf(keys, n, m)]]
      BY <1>10 DEF Gathered
    <3> HIDE DEF Dom, values
    <3> QED
      BY <3>1, <3>2
  <2>3. Abstract!Literal(c, keys, given)
    <3> HIDE DEF values
    <3> QED
      BY <1>9, <1>12, <2>2 DEF Abstract!Literal
  <2> QED
    BY <1>5, <1>9, <1>12, <2>3 DEF Simulated, Abstract!Next
<1> QED
  BY <1>1, <1>7, <1>11, <1>12

-----------------------------------------------------------------------------
(* The refinement *)

LEMMA CallImplements ==
    ASSUME RInv, HelpersAgree, NEW c \in Names, Call(c)
    PROVE  Simulated
<1>1. CASE \E n \in Literals : \E keys \in [1..n -> Keys] : Literal(c, keys)
  BY <1>1, LiteralImplements
<1>2. CASE \E i \in Indices : VecRemove(c, i) \/ VecInsert(c, i)
  BY <1>2, VecRemoveImplements, VecInsertImplements
<1>3. CASE \E k \in Keys : MapInsert(c, k) \/ MapRemove(c, k)
  BY <1>3, MapInsertImplements, MapRemoveImplements
<1>4. CASE \E k \in Keys : SetInsert(c, k) \/ SetRemove(c, k)
  BY <1>4, SetInsertImplements, SetRemoveImplements
<1>5. CASE VecPop(c) \/ Clear(c) \/ DropCollection(c) \/ Read(c)
  BY <1>5, VecPopImplements, ClearImplements, DropImplements, ReadImplements
<1>6. CASE \E d \in Names : CloneCollection(c, d) \/ Concatenate(c, d) \/ Compare(c, d)
  BY <1>6, CloneImplements, ConcatenateImplements, CompareImplements
<1> QED
  BY <1>1, <1>2, <1>3, <1>4, <1>5, <1>6 DEF Call

\* The inductive invariant, with the meaning of the cells in use.
LEMMA InitRInv == Init => RInv
BY InitIInv DEF Init, RInv, Present

LEMMA NextRInv ==
    ASSUME HelpersAgree, RInv, [Next]_vars
    PROVE  RInv' /\ [Abstract!Next]_(Abstract!vars)
<1>1. IInv'
  BY NextIInv DEF RInv
<1>2. Simulated
  <2>1. CASE UNCHANGED vars
    BY <2>1, ContentsKept DEF vars, Simulated, Abstract!vars
  <2>2. CASE UseAnswer
    BY <2>2, UseAnswerImplements
  <2>3. CASE \E c \in Names : Call(c)
    BY <2>3, CallImplements
  <2> QED
    BY <2>1, <2>2, <2>3 DEF Next
<1> QED
  BY <1>1, <1>2 DEF Simulated, RInv, Filling

\* Whatever the element types, if their helpers compare what the elements mean:
\* every call of the generated Vec, Map and Set helpers is the call that
\* docs/spec.md describes, with its answer, or ends the process.
THEOREM CollectionsImplementSpec ==
    ASSUME HelpersAgree
    PROVE  Spec => ImplementsCollections
<1>1. Init => RInv /\ Abstract!Init
  <2>1. Init => Abstract!Init
    BY DEF Init, Abstract!Init, Contents
  <2> QED
    BY <2>1, InitRInv
<1>2. RInv /\ [Next]_vars => RInv' /\ [Abstract!Next]_(Abstract!vars)
  BY NextRInv
<1> QED
  BY <1>1, <1>2, PTL DEF Spec, ImplementsCollections, Abstract!Spec
=============================================================================
