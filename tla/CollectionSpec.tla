--------------------------- MODULE CollectionSpec ---------------------------
(***************************************************************************)
(* What Vec, Map and Set promise a program, as docs/spec.md states it: a   *)
(* Vec is a sequence, a Map a mapping from keys to values and a Set a set  *)
(* of elements.  Storage, capacity, hashes and ownership do not appear.    *)
(*                                                                         *)
(* contents[c] is the value of the collection c: the sequence of a Vec,    *)
(* and for a Map or a Set the function from the meanings of its keys to    *)
(* the meanings of the values (TRUE for the elements of a Set).  answer is *)
(* what the last call returned, with what it was asked.                    *)
(***************************************************************************)
EXTENDS Integers, Sequences, SequencesExt, FiniteSets

CONSTANTS Names,        \* the collections of the program
          Keys, Values, \* the keys (or elements of a Set) and the values
          Literals,     \* the lengths of collection literals
          Absent,       \* a name that holds no collection
          None,         \* Option.None, and the answer of a call without one
          Indices,      \* the indices a program uses
          MeaningOf(_)  \* the mathematical value a representation stands for

VARIABLES kind, contents, answer

vars == <<kind, contents, answer>>

Becomes(c, value, result) ==
    /\ contents' = [contents EXCEPT ![c] = value]
    /\ answer' = result
    /\ UNCHANGED kind

At(f, m) == IF m \in DOMAIN f THEN f[m] ELSE None

Init ==
    /\ kind \in {"vec", "map", "set"}
    /\ contents = [c \in Names |-> Absent]
    /\ answer = None

(* The last value given for a key counts.                                  *)
Literal(c, keys, values) ==
    LET last(m) == CHOOSE i \in DOMAIN keys :
                     /\ MeaningOf(keys[i]) = m
                     /\ \A j \in DOMAIN keys : MeaningOf(keys[j]) = m => j <= i
    IN  Becomes(c,
             CASE kind = "vec" -> [i \in DOMAIN values |-> MeaningOf(values[i])]
               [] kind = "set" -> [m \in {MeaningOf(k) : k \in ToSet(keys)} |-> TRUE]
               [] kind = "map" -> [m \in {MeaningOf(k) : k \in ToSet(keys)} |->
                                        MeaningOf(values[last(m)])], None)

Insert(c, i, value) ==
    /\ kind = "vec" /\ contents[c] # Absent
    /\ i <= Len(contents[c])
    /\ Becomes(c, InsertAt(contents[c], i + 1, MeaningOf(value)), None)

RemoveIndex(c, i) ==
    /\ kind = "vec" /\ contents[c] # Absent
    /\ i < Len(contents[c])
    /\ Becomes(c, RemoveAt(contents[c], i + 1), <<"removed", contents[c][i + 1]>>)

Pop(c) ==
    /\ kind = "vec" /\ contents[c] # Absent
    /\ IF contents[c] = <<>> THEN Becomes(c, <<>>, <<"removed", None>>)
       ELSE Becomes(c, Front(contents[c]), <<"removed", Last(contents[c])>>)

Put(c, key, value) ==
    LET m == MeaningOf(key)
        new == IF kind = "set" THEN TRUE ELSE MeaningOf(value)
        old == At(contents[c], m)
    IN  /\ kind # "vec" /\ contents[c] # Absent
        /\ Becomes(c, [k \in DOMAIN contents[c] \cup {m} |->
                            IF k = m THEN new ELSE contents[c][k]],
                   IF kind = "set" THEN <<"added", old = None>> ELSE <<"old", old>>)

Take(c, key) ==
    LET m == MeaningOf(key)
    IN  /\ kind # "vec" /\ contents[c] # Absent
        /\ Becomes(c, [k \in DOMAIN contents[c] \ {m} |-> contents[c][k]],
                   IF kind = "set" THEN <<"had", m \in DOMAIN contents[c]>>
                   ELSE <<"removed", At(contents[c], m)>>)

Clear(c) == contents[c] # Absent /\ Becomes(c, <<>>, None)
Clone(c, d) ==
    /\ contents[c] # Absent /\ contents[d] = Absent
    /\ Becomes(d, contents[c], None)
Drop(c) == contents[c] # Absent /\ Becomes(c, Absent, None)

Concatenate(c, d) ==
    /\ kind = "vec" /\ c # d /\ contents[c] # Absent /\ contents[d] # Absent
    /\ contents' = [contents EXCEPT ![c] = @ \o contents[d], ![d] = Absent]
    /\ answer' = None
    /\ UNCHANGED kind

Lexicographic(a, b) ==
    LET differ == {i \in DOMAIN a \cap DOMAIN b : a[i] # b[i]}
        first == CHOOSE i \in differ : \A j \in differ : i <= j
        less == IF differ = {} THEN Len(a) < Len(b) ELSE a[first][2] < b[first][2]
    IN  IF a = b THEN 0 ELSE IF less THEN -1 ELSE 1

Size(c) == IF kind = "vec" THEN Len(contents[c]) ELSE Cardinality(DOMAIN contents[c])

Read(c) ==
    /\ contents[c] # Absent
    /\ answer' = <<"read", Size(c),
                   CASE kind = "vec" -> [i \in Indices |-> At(contents[c], i + 1)]
                     [] kind = "map" -> [k \in Keys |-> At(contents[c], MeaningOf(k))]
                     [] kind = "set" -> [k \in Keys |-> MeaningOf(k) \in DOMAIN contents[c]]>>
    /\ UNCHANGED <<kind, contents>>

Compare(c, d) ==
    /\ contents[c] # Absent /\ contents[d] # Absent
    /\ answer' = <<"compared", contents[c] = contents[d],
                   IF kind = "vec" THEN Lexicographic(contents[c], contents[d]) ELSE None>>
    /\ UNCHANGED <<kind, contents>>

Forget == answer' = None /\ UNCHANGED <<kind, contents>>

Next ==
    \/ Forget
    \/ \E c \in Names :
        \/ Clear(c) \/ Drop(c) \/ Read(c)
        \/ \E d \in Names : Clone(c, d) \/ Concatenate(c, d) \/ Compare(c, d)
        \/ Pop(c) \/ \E i \in Indices : RemoveIndex(c, i) \/ \E v \in Values : Insert(c, i, v)
        \/ \E k \in Keys : Take(c, k) \/ \E v \in Values : Put(c, k, v)
        \/ /\ contents[c] = Absent
           /\ \E n \in Literals :
                \E keys \in [1..n -> Keys], values \in [1..n -> Values] :
                    Literal(c, keys, values)

Spec == Init /\ [][Next]_vars
=============================================================================
