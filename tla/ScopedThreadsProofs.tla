------------------------- MODULE ScopedThreadsProofs -------------------------
(***************************************************************************)
(* Scoped threads, mutexes and atomics for every number of threads, scopes *)
(* and cell values: a thread ends within its scope, no update is lost and  *)
(* only a guard can make threads wait for each other.                      *)
(***************************************************************************)
EXTENDS ScopedThreads, FiniteSetTheorems, SequenceTheorems, TLAPS

-----------------------------------------------------------------------------
(* Stacks of scopes *)

Refs == Kids \cup {None}
Stacks == Seq(Seq(Refs))

\* A new scope has no nodes.
LEMMA EnteredStack ==
    ASSUME NEW s \in Stacks
    PROVE  LET r == <<<<>>>> \o s IN
           /\ r \in Stacks /\ Len(r) = Len(s) + 1
           /\ \A x : Named(r, x) <=> Named(s, x)
           /\ \A x : NamedOnce(s, x) => NamedOnce(r, x)
<1> DEFINE r == <<<<>>>> \o s
<1>1. <<<<>>>> \in Stacks /\ Len(<<<<>>>>) = 1 /\ <<<<>>>>[1] = <<>>
  BY DEF Stacks
<1>2. /\ Len(s) \in Nat /\ DOMAIN s = 1..Len(s)
      /\ r \in Stacks /\ Len(r) = Len(s) + 1 /\ DOMAIN r = 1..Len(r)
      /\ \A i \in 1..Len(s) + 1 : r[i] = IF i <= 1 THEN <<<<>>>>[i] ELSE s[i - 1]
  BY <1>1, ConcatProperties, LenProperties DEF Stacks
<1> HIDE DEF r
<1>3. r[1] = <<>> /\ \A i \in 1..Len(s) : r[i + 1] = s[i]
  BY <1>1, <1>2
<1>4. DOMAIN r[1] = {}
  BY <1>3
<1>5. ASSUME NEW i \in DOMAIN r, i # 1
      PROVE  i - 1 \in DOMAIN s /\ r[i] = s[i - 1]
  BY <1>2, <1>5
<1>6. \A x : Named(r, x) => Named(s, x)
  BY <1>4, <1>5 DEF Named
<1>7. ASSUME NEW x, Named(s, x) PROVE Named(r, x)
  <2>1. PICK i \in DOMAIN s : \E n \in DOMAIN s[i] : s[i][n] = x
    BY <1>7 DEF Named
  <2>2. i + 1 \in DOMAIN r /\ r[i + 1] = s[i]
    BY <1>2, <1>3
  <2> QED
    BY <2>1, <2>2 DEF Named
<1>8. ASSUME NEW x, NamedOnce(s, x) PROVE NamedOnce(r, x)
  <2>1. ASSUME NEW i \in DOMAIN r, NEW j \in DOMAIN r, NEW n \in DOMAIN r[i],
               NEW m \in DOMAIN r[j], r[i][n] = x, r[j][m] = x
        PROVE  i = j /\ n = m
    <3>1. i # 1 /\ j # 1
      BY <1>4
    <3>2. /\ i - 1 \in DOMAIN s /\ r[i] = s[i - 1]
          /\ j - 1 \in DOMAIN s /\ r[j] = s[j - 1]
      BY <1>5, <3>1
    <3>3. i - 1 = j - 1 /\ n = m
      BY <1>8, <2>1, <3>2 DEF NamedOnce
    <3> QED
      BY <1>2, <3>3
  <2> QED
    BY <2>1 DEF NamedOnce
<1> QED
  BY <1>2, <1>6, <1>7, <1>8 DEF r

\* A linked stack is a stack.
LEMMA LinkedTyped ==
    ASSUME NEW s \in Stacks, NEW i \in DOMAIN s, NEW k \in Kids
    PROVE  Linked(s, i, k) \in Stacks /\ Len(Linked(s, i, k)) = Len(s)
<1> DEFINE e == <<k>> \o s[i]
<1>1. DOMAIN s = 1..Len(s) /\ s[i] \in Seq(Refs)
  BY ElementOfSeq, LenProperties DEF Stacks
<1>2. <<k>> \in Seq(Refs)
  BY DEF Refs
<1>3. e \in Seq(Refs)
  BY <1>1, <1>2, ConcatProperties
<1> HIDE DEF e
<1>4. [s EXCEPT ![i] = e] \in Stacks /\ Len([s EXCEPT ![i] = e]) = Len(s)
  BY <1>1, <1>3, ExceptSeq DEF Stacks
<1> QED
  BY <1>4 DEF e, Linked

\* Linking a node for a kid that has none.
LEMMA LinkedStack ==
    ASSUME NEW s \in Stacks, NEW i \in DOMAIN s, NEW k \in Kids, ~Named(s, k)
    PROVE  LET r == Linked(s, i, k) IN
           /\ r \in Stacks /\ Len(r) = Len(s)
           /\ \A x : Named(r, x) <=> x = k \/ Named(s, x)
           /\ \A x : NamedOnce(s, x) => NamedOnce(r, x)
<1> DEFINE e == <<k>> \o s[i]
           r == [s EXCEPT ![i] = e]
<1>1. Len(s) \in Nat /\ DOMAIN s = 1..Len(s) /\ s[i] \in Seq(Refs)
  BY ElementOfSeq, LenProperties DEF Stacks
<1>2. <<k>> \in Seq(Refs) /\ Len(<<k>>) = 1 /\ <<k>>[1] = k
  BY DEF Refs
<1>3. /\ Len(s[i]) \in Nat /\ DOMAIN s[i] = 1..Len(s[i])
      /\ e \in Seq(Refs) /\ DOMAIN e = 1..Len(e) /\ Len(e) = Len(s[i]) + 1
      /\ \A n \in 1..Len(s[i]) + 1 : e[n] = IF n <= 1 THEN <<k>>[n] ELSE s[i][n - 1]
  BY <1>1, <1>2, ConcatProperties, LenProperties
<1> HIDE DEF e
<1>4. /\ e[1] = k /\ 1 \in DOMAIN e
      /\ \A n \in DOMAIN s[i] : n + 1 \in DOMAIN e /\ e[n + 1] = s[i][n]
      /\ \A n \in DOMAIN e : n # 1 => n - 1 \in DOMAIN s[i] /\ e[n] = s[i][n - 1]
  BY <1>2, <1>3
<1>5. /\ r \in Stacks /\ Len(r) = Len(s) /\ DOMAIN r = DOMAIN s
      /\ \A j \in DOMAIN s : r[j] = IF j = i THEN e ELSE s[j]
  BY <1>1, <1>3, ExceptSeq, LenProperties DEF Stacks
<1> HIDE DEF r
<1>6. ASSUME NEW x, Named(r, x), x # k PROVE Named(s, x)
  <2>1. PICK j \in DOMAIN s : \E n \in DOMAIN r[j] : r[j][n] = x
    BY <1>5, <1>6 DEF Named
  <2>2. CASE j = i
    BY <1>4, <1>5, <1>6, <2>1, <2>2 DEF Named
  <2>3. CASE j # i
    BY <1>5, <2>1, <2>3 DEF Named
  <2> QED
    BY <2>2, <2>3
<1>7. ASSUME NEW x, Named(s, x) PROVE Named(r, x)
  <2>1. PICK j \in DOMAIN s : \E n \in DOMAIN s[j] : s[j][n] = x
    BY <1>7 DEF Named
  <2>2. CASE j = i
    BY <1>4, <1>5, <2>1, <2>2 DEF Named
  <2>3. CASE j # i
    BY <1>5, <2>1, <2>3 DEF Named
  <2> QED
    BY <2>2, <2>3
<1>8. Named(r, k)
  BY <1>4, <1>5 DEF Named
<1>9. ASSUME NEW x, NamedOnce(s, x) PROVE NamedOnce(r, x)
  <2> SUFFICES ASSUME NEW a \in DOMAIN r, NEW b \in DOMAIN r, NEW n \in DOMAIN r[a],
                      NEW m \in DOMAIN r[b], r[a][n] = x, r[b][m] = x
               PROVE  a = b /\ n = m
    BY DEF NamedOnce
  <2>1. CASE x = k
    <3>1. \A c \in DOMAIN r : \A o \in DOMAIN r[c] : r[c][o] = k => c = i /\ o = 1
      BY <1>4, <1>5 DEF Named
    <3> QED
      BY <2>1, <3>1
  <2>2. CASE x # k
    <3> DEFINE back(c, o) == IF c = i THEN o - 1 ELSE o
    <3>1. ASSUME NEW c \in DOMAIN r, NEW o \in DOMAIN r[c], r[c][o] = x
          PROVE  c \in DOMAIN s /\ back(c, o) \in DOMAIN s[c] /\ s[c][back(c, o)] = x
      BY <1>4, <1>5, <2>2, <3>1
    <3>2. a = b /\ back(a, n) = back(b, m)
      BY <1>9, <3>1 DEF NamedOnce
    <3>3. a = i => n \in Int /\ m \in Int
      BY <1>3, <1>5, <3>2
    <3> QED
      BY <3>2, <3>3
  <2> QED
    BY <2>1, <2>2
<1> QED
  BY <1>5, <1>6, <1>7, <1>8, <1>9 DEF Linked, r, e

\* Clearing the nodes of a kid.
LEMMA ClearedStack ==
    ASSUME NEW s \in Stacks, NEW k \in Kids
    PROVE  LET r == Cleared(s, k) IN
           /\ r \in Stacks /\ Len(r) = Len(s)
           /\ \A x : x # None => (Named(r, x) <=> x # k /\ Named(s, x))
           /\ \A x : x # None /\ NamedOnce(s, x) => NamedOnce(r, x)
<1> DEFINE entry(i) == [n \in DOMAIN s[i] |-> IF s[i][n] = k THEN None ELSE s[i][n]]
           r == [i \in DOMAIN s |-> entry(i)]
<1>1. Len(s) \in Nat /\ DOMAIN s = 1..Len(s)
  BY LenProperties DEF Stacks
<1>2. ASSUME NEW i \in DOMAIN s
      PROVE  entry(i) \in Seq(Refs)
  <2>1. s[i] \in Seq(Refs)
    BY <1>1, ElementOfSeq DEF Stacks
  <2>2. PICK l \in Nat : l = Len(s[i]) /\ DOMAIN s[i] = 1..l /\ s[i] \in [1..l -> Refs]
    BY <2>1, LenProperties
  <2>3. entry(i) \in [1..l -> Refs]
    BY <2>2 DEF Refs
  <2> HIDE DEF entry
  <2> QED
    BY <2>3, SeqDef
<1>3. r \in Stacks /\ Len(r) = Len(s) /\ DOMAIN r = DOMAIN s
  <2> HIDE DEF entry
  <2>1. PICK l \in Nat : l = Len(s) /\ DOMAIN s = 1..l
    BY <1>1
  <2>2. r \in [1..l -> Seq(Refs)]
    BY <1>2, <2>1
  <2>3. r \in Stacks
    BY <2>2, SeqDef DEF Stacks
  <2>4. DOMAIN r = 1..l /\ DOMAIN r = 1..Len(r) /\ Len(r) \in Nat
    BY <2>1, <2>3, LenProperties DEF Stacks
  <2> HIDE DEF r
  <2> QED
    BY <2>1, <2>3, <2>4
<1>4. ASSUME NEW i \in DOMAIN s
      PROVE  /\ DOMAIN r[i] = DOMAIN s[i]
             /\ \A n \in DOMAIN s[i] : r[i][n] = IF s[i][n] = k THEN None ELSE s[i][n]
  OBVIOUS
<1> HIDE DEF r
<1>5. None \notin Kids
  BY ScopedAssumption
<1>6. ASSUME NEW x, x # None PROVE Named(r, x) <=> x # k /\ Named(s, x)
  BY <1>3, <1>4, <1>6 DEF Named
<1>7. ASSUME NEW x, x # None, NamedOnce(s, x) PROVE NamedOnce(r, x)
  <2>1. \A i \in DOMAIN r : \A n \in DOMAIN r[i] :
            r[i][n] = x => i \in DOMAIN s /\ n \in DOMAIN s[i] /\ s[i][n] = x
    BY <1>3, <1>4, <1>7
  <2> QED
    BY <1>7, <2>1 DEF NamedOnce
<1>8. r = Cleared(s, k)
  BY DEF r, Cleared
<1> QED
  BY <1>3, <1>6, <1>7, <1>8

\* Taking off the newest node of the innermost scope.
LEMMA UnlinkedStack ==
    ASSUME NEW s \in Stacks, s # <<>>, Head(s) # <<>>
    PROVE  LET r == Unlinked(s)
               h == Head(Head(s))
           IN
           /\ r \in Stacks /\ Len(r) = Len(s) /\ r # <<>> /\ s[1] # <<>>
           /\ h \in Refs /\ h = s[1][1] /\ Named(s, h)
           /\ \A n \in DOMAIN r[1] : n + 1 \in DOMAIN s[1] /\ r[1][n] = s[1][n + 1]
           /\ \A x : Named(s, x) => x = h \/ Named(r, x)
           /\ \A x : Named(r, x) => Named(s, x)
           /\ NamedOnce(s, h) => ~Named(r, h)
           /\ \A x : NamedOnce(s, x) => NamedOnce(r, x)
<1> DEFINE e == Tail(s[1])
           r == [s EXCEPT ![1] = e]
           h == Head(Head(s))
<1>1. /\ Len(s) \in Nat /\ DOMAIN s = 1..Len(s) /\ 1 \in DOMAIN s
      /\ s[1] \in Seq(Refs) /\ Head(s) = s[1] /\ s[1] # <<>>
  <2>1. Len(s) \in Nat \ {0} /\ DOMAIN s = 1..Len(s)
    BY EmptySeq, LenProperties DEF Stacks
  <2> QED
    BY <2>1, ElementOfSeq DEF Stacks
<1>2. /\ Len(s[1]) \in Nat \ {0} /\ DOMAIN s[1] = 1..Len(s[1])
      /\ h \in Refs /\ h = s[1][1]
      /\ e \in Seq(Refs) /\ Len(e) = Len(s[1]) - 1 /\ DOMAIN e = 1..Len(e)
      /\ \A n \in 1..Len(e) : e[n] = s[1][n + 1]
  BY <1>1, HeadTailProperties, EmptySeq, LenProperties
<1> HIDE DEF e, h
<1>3. /\ 1 \in DOMAIN s[1]
      /\ \A n \in DOMAIN e : n + 1 \in DOMAIN s[1] /\ n + 1 # 1 /\ e[n] = s[1][n + 1]
      /\ \A n \in DOMAIN s[1] : n # 1 => n - 1 \in DOMAIN e /\ e[n - 1] = s[1][n]
  BY <1>2
<1>4. /\ r \in Stacks /\ Len(r) = Len(s) /\ DOMAIN r = DOMAIN s
      /\ \A j \in DOMAIN s : r[j] = IF j = 1 THEN e ELSE s[j]
  BY <1>1, <1>2, ExceptSeq, LenProperties DEF Stacks
<1> HIDE DEF r
<1>5. r # <<>>
  BY <1>1, <1>4
<1>6. Named(s, h)
  BY <1>1, <1>2, <1>3 DEF Named
<1>7. r[1] = e
  BY <1>1, <1>4
<1>8. ASSUME NEW x, Named(s, x) PROVE x = h \/ Named(r, x)
  <2>1. PICK j \in DOMAIN s : \E n \in DOMAIN s[j] : s[j][n] = x
    BY <1>8 DEF Named
  <2>2. CASE j = 1
    <3>1. PICK n \in DOMAIN s[1] : s[1][n] = x
      BY <2>1, <2>2
    <3>2. CASE n = 1
      BY <1>2, <3>1, <3>2
    <3>3. CASE n # 1
      <4>1. n - 1 \in DOMAIN r[1] /\ r[1][n - 1] = x
        BY <1>3, <1>7, <3>1, <3>3
      <4>2. 1 \in DOMAIN r
        BY <1>1, <1>4
      <4> QED
        BY <4>1, <4>2 DEF Named
    <3> QED
      BY <3>2, <3>3
  <2>3. CASE j # 1
    BY <1>4, <2>1, <2>3 DEF Named
  <2> QED
    BY <2>2, <2>3
<1> DEFINE back(c, o) == IF c = 1 THEN o + 1 ELSE o
<1>9. ASSUME NEW c \in DOMAIN r, NEW o \in DOMAIN r[c]
      PROVE  /\ c \in DOMAIN s /\ back(c, o) \in DOMAIN s[c]
             /\ s[c][back(c, o)] = r[c][o] /\ ~(c = 1 /\ back(c, o) = 1)
  BY <1>3, <1>4
<1>10. \A x : Named(r, x) => Named(s, x)
  BY <1>9 DEF Named
<1>11. ASSUME NamedOnce(s, h), Named(r, h) PROVE FALSE
  <2>1. PICK c \in DOMAIN r : \E o \in DOMAIN r[c] : r[c][o] = h
    BY <1>11 DEF Named
  <2>2. PICK o \in DOMAIN r[c] : r[c][o] = h
    BY <2>1
  <2>3. c \in DOMAIN s /\ back(c, o) \in DOMAIN s[c] /\ s[c][back(c, o)] = h
    BY <1>9, <2>2
  <2>4. 1 \in DOMAIN s /\ 1 \in DOMAIN s[1] /\ s[1][1] = h
    BY <1>1, <1>2, <1>3
  <2> HIDE DEF back
  <2>5. c = 1 /\ back(c, o) = 1
    BY <1>11, <2>3, <2>4 DEF NamedOnce
  <2> QED
    BY <1>9, <2>5
<1>12. ASSUME NEW x, NamedOnce(s, x) PROVE NamedOnce(r, x)
  <2> SUFFICES ASSUME NEW a \in DOMAIN r, NEW b \in DOMAIN r, NEW n \in DOMAIN r[a],
                      NEW m \in DOMAIN r[b], r[a][n] = x, r[b][m] = x
               PROVE  a = b /\ n = m
    BY DEF NamedOnce
  <2>1. a = b /\ back(a, n) = back(b, m)
    BY <1>9, <1>12 DEF NamedOnce
  <2>2. a = 1 => n \in Int /\ m \in Int
    BY <1>2, <1>7, <2>1
  <2> QED
    BY <2>1, <2>2
<1>13. r = Unlinked(s)
  BY DEF r, e, Unlinked
<1> HIDE DEF back
<1> QED
  BY <1>1, <1>2, <1>3, <1>4, <1>5, <1>6, <1>7, <1>8, <1>10, <1>11, <1>12, <1>13 DEF h

\* An empty scope ends.
LEMMA EndedStack ==
    ASSUME NEW s \in Stacks, s # <<>>, Head(s) = <<>>
    PROVE  LET r == Tail(s) IN
           /\ r \in Stacks /\ Len(r) = Len(s) - 1 /\ Len(s) \in Nat \ {0}
           /\ \A x : Named(r, x) <=> Named(s, x)
           /\ \A x : NamedOnce(s, x) => NamedOnce(r, x)
<1> DEFINE r == Tail(s)
<1>1. /\ Len(s) \in Nat \ {0} /\ DOMAIN s = 1..Len(s) /\ s[1] = <<>>
      /\ r \in Stacks /\ Len(r) = Len(s) - 1 /\ DOMAIN r = 1..Len(r)
      /\ \A i \in 1..Len(r) : r[i] = s[i + 1]
  BY HeadTailProperties, EmptySeq, LenProperties DEF Stacks
<1> HIDE DEF r
<1>2. \A i \in DOMAIN r : i + 1 \in DOMAIN s /\ r[i] = s[i + 1]
  BY <1>1
<1>3. \A i \in DOMAIN s : i # 1 => i - 1 \in DOMAIN r /\ r[i - 1] = s[i]
  BY <1>1
<1>4. DOMAIN s[1] = {}
  BY <1>1
<1>5. \A x : Named(r, x) => Named(s, x)
  BY <1>2 DEF Named
<1>6. \A x : Named(s, x) => Named(r, x)
  BY <1>3, <1>4 DEF Named
<1>7. ASSUME NEW x, NamedOnce(s, x) PROVE NamedOnce(r, x)
  <2> SUFFICES ASSUME NEW a \in DOMAIN r, NEW b \in DOMAIN r, NEW n \in DOMAIN r[a],
                      NEW m \in DOMAIN r[b], r[a][n] = x, r[b][m] = x
               PROVE  a = b /\ n = m
    BY DEF NamedOnce
  <2>1. a + 1 = b + 1 /\ n = m
    BY <1>2, <1>7 DEF NamedOnce
  <2> QED
    BY <1>1, <2>1
<1> QED
  BY <1>1, <1>5, <1>6, <1>7 DEF r

-----------------------------------------------------------------------------
(* Types *)

\* What an operation leaves in a cell fits into it.
LEMMA StoredTyped ==
    ASSUME NEW c \in Cells, NEW op \in Operations[c], NEW v \in 0..(Modulus - 1)
    PROVE  Stored(op, v) \in 0..(Modulus - 1)
<1>1. Modulus \in Nat /\ Modulus > 1
  BY ScopedAssumption
<1>2. \A n \in Int : n % Modulus \in 0..(Modulus - 1)
  BY <1>1
<1>3. v + 1 \in Int /\ v - 1 \in Int
  OBVIOUS
<1>4. (v + 1) % Modulus \in 0..(Modulus - 1) /\ (v - 1) % Modulus \in 0..(Modulus - 1)
  BY <1>2, <1>3
<1>5. 0 \in 0..(Modulus - 1) /\ 1 \in 0..(Modulus - 1)
  BY <1>1
<1>6. op \in {"read", "replace", "update", "load", "store", "exchange",
              "compare_exchange", "fetch_add", "fetch_sub"}
  BY DEF Cells, Operations
<1> QED
  BY <1>4, <1>5, <1>6 DEF Stored

\* The scopes of every thread form a stack.
LEMMA ScopesTyped ==
    ASSUME TypeOK
    PROVE  /\ scopes \in [All -> Stacks]
           /\ \A t \in All : Len(scopes[t]) \in 0..MaxScopes[t] /\ MaxScopes[t] \in Nat
<1>1. scopes \in [All -> Stacks]
  BY DEF TypeOK, Stacks, Refs
<1>2. \A t \in All : Len(scopes[t]) \in Nat
  BY <1>1, LenProperties DEF Stacks
<1> QED
  BY <1>1, <1>2, ScopedAssumption DEF TypeOK

\* Letting go of a guard.
LEMMA ReleaseTyped ==
    ASSUME TypeOK, NEW t \in All, NEW n, ReleaseGuard(t, n)
    PROVE  /\ guard' \in [All -> Int] /\ \A u \in All : guard'[u] \in -1..MaxScopes[u]
           /\ holder' \in [Cells -> All \cup {None}]
<1>1. \A u \in All : -1 \in -1..MaxScopes[u]
  BY ScopedAssumption
<1>2. guard' = guard \/ guard' = [guard EXCEPT ![t] = -1]
  BY DEF ReleaseGuard
<1>3. guard' \in [All -> Int]
  BY <1>2 DEF TypeOK
<1>4. ASSUME NEW u \in All PROVE guard'[u] \in -1..MaxScopes[u]
  BY <1>1, <1>2 DEF TypeOK
<1>5. holder' = holder \/ holder' = [holder EXCEPT !["mutex"] = None]
  BY DEF ReleaseGuard
<1>6. holder' \in [Cells -> All \cup {None}]
  BY <1>5 DEF TypeOK
<1> QED
  BY <1>3, <1>4, <1>6

\* Every step keeps the types.
LEMMA StepTyped ==
    ASSUME TypeOK, WaitsFounded, LocksFounded, NEW t \in All, Step(t)
    PROVE  TypeOK'
<1>1. t \in All /\ scopes \in [All -> Stacks] /\ scopes[t] \in Stacks
      /\ \A u \in All : Len(scopes[u]) \in 0..MaxScopes[u] /\ MaxScopes[u] \in Nat
  BY ScopesTyped
<1>2. ASSUME scopes' \in [All -> Stacks], \A u \in All : Len(scopes'[u]) <= MaxScopes[u],
             UNCHANGED <<guard, holder, value, seen, ideal>>,
             block' \in [Kids -> {"none", "allocated", "freed"}],
             result' \in [Kids -> {"unset", "set", "moved", "dropped"}],
             handle' \subseteq Kids,
             pc' \in [All -> {"unborn", "run", "finish", "join", "take", "lock", "read",
                              "write", "exiting", "done"}],
             call' \in [All -> Kids \cup {None} \cup Cells],
             corrupt' \in BOOLEAN
      PROVE  TypeOK'
  BY <1>2 DEF TypeOK, Stacks, Refs
<1>3. ASSUME UNCHANGED scopes PROVE scopes' \in [All -> Stacks]
                                    /\ \A u \in All : Len(scopes'[u]) <= MaxScopes[u]
  BY <1>1, <1>3
<1>4. CASE ScopeEnter(t)
  <2> DEFINE r == <<<<>>>> \o scopes[t]
  <2>1. r \in Stacks /\ Len(r) = Len(scopes[t]) + 1
    BY <1>1, EnteredStack
  <2>2. scopes' = [scopes EXCEPT ![t] = r] /\ Len(scopes[t]) < MaxScopes[t]
    BY <1>4 DEF ScopeEnter
  <2> HIDE DEF r
  <2>3. scopes' \in [All -> Stacks] /\ \A u \in All : Len(scopes'[u]) <= MaxScopes[u]
    BY <1>1, <2>1, <2>2
  <2> QED
    BY <1>2, <1>4, <2>3 DEF ScopeEnter, TypeOK, cellVars
<1>5. CASE ScopeReturn(t)
  <2>1. Goto(t, "finish", None) /\ ReleaseGuard(t, Len(scopes[t]))
    BY <1>5 DEF ScopeReturn
  <2>2. UNCHANGED <<scopes, block, result, value, seen, ideal, corrupt>> /\ handle' \subseteq Kids
    BY <1>5 DEF ScopeReturn, TypeOK
  <2>3. /\ guard' \in [All -> Int] /\ \A u \in All : guard'[u] \in -1..MaxScopes[u]
        /\ holder' \in [Cells -> All \cup {None}]
    BY <2>1, ReleaseTyped
  <2> QED
    BY <2>1, <2>2, <2>3 DEF Goto, TypeOK
<1>6. CASE FinishNext(t)
  <2> DEFINE r == Unlinked(scopes[t])
             k == Head(Head(scopes[t]))
  <2>1. scopes[t] # <<>> /\ Head(scopes[t]) # <<>>
    BY <1>6 DEF FinishNext, At, WaitsFounded
  <2>2. r \in Stacks /\ Len(r) = Len(scopes[t]) /\ k \in Refs
    BY <1>1, <2>1, UnlinkedStack
  <2>3. scopes' = [scopes EXCEPT ![t] = r]
    BY <1>6 DEF FinishNext
  <2> HIDE DEF r
  <2>4. /\ block' = block \/ (k \in Kids /\ block' = [block EXCEPT ![k] = "freed"])
        /\ result' = result \/ (k \in Kids /\ result' = [result EXCEPT ![k] = "dropped"])
        /\ corrupt' = corrupt \/ corrupt' = TRUE
    <3> HIDE DEF k
    <3>1. CASE k = None
      BY <1>6, <3>1 DEF FinishNext, k
    <3>2. CASE k # None
      BY <1>6, <2>2, <3>2 DEF FinishNext, Refs, k
    <3> QED
      BY <3>1, <3>2
  <2> HIDE DEF k
  <2>5. scopes' \in [All -> Stacks] /\ \A u \in All : Len(scopes'[u]) <= MaxScopes[u]
    BY <1>1, <2>2, <2>3
  <2>6. block' \in [Kids -> {"none", "allocated", "freed"}]
        /\ result' \in [Kids -> {"unset", "set", "moved", "dropped"}]
    BY <2>4 DEF TypeOK
  <2> QED
    BY <1>2, <1>6, <2>4, <2>5, <2>6 DEF FinishNext, TypeOK, cellVars
<1>7. CASE ScopeEnd(t)
  <2> DEFINE r == Tail(scopes[t])
  <2>1. scopes[t] # <<>> /\ Head(scopes[t]) = <<>>
    BY <1>7 DEF ScopeEnd, At, WaitsFounded
  <2>2. r \in Stacks /\ Len(r) = Len(scopes[t]) - 1
    BY <1>1, <2>1, EndedStack
  <2>3. scopes' = [scopes EXCEPT ![t] = r]
    BY <1>7 DEF ScopeEnd
  <2> HIDE DEF r
  <2>4. scopes' \in [All -> Stacks] /\ \A u \in All : Len(scopes'[u]) <= MaxScopes[u]
    BY <1>1, <2>2, <2>3
  <2> QED
    BY <1>2, <1>7, <2>4 DEF ScopeEnd, Goto, TypeOK, cellVars
<1>8. ASSUME NEW k \in Kids, NEW i \in DOMAIN scopes[t], ScopedThreadSpawn(t, i, k)
      PROVE  TypeOK'
  <2> DEFINE r == Linked(scopes[t], i, k)
  <2>1. r \in Stacks /\ Len(r) = Len(scopes[t])
    BY <1>1, LinkedTyped
  <2>2. scopes' = [scopes EXCEPT ![t] = r]
    BY <1>8 DEF ScopedThreadSpawn
  <2> HIDE DEF r
  <2>3. scopes' \in [All -> Stacks] /\ \A u \in All : Len(scopes'[u]) <= MaxScopes[u]
    BY <1>1, <2>1, <2>2
  <2> QED
    BY <1>2, <1>8, <2>3 DEF ScopedThreadSpawn, TypeOK, cellVars, All
<1>9. ASSUME NEW k \in Kids, DropHandle(t, k) \/ ScopedThreadJoin(t, k)
      PROVE  TypeOK'
  <2>1. CASE DropHandle(t, k)
    BY <2>1 DEF DropHandle, TypeOK, cellVars
  <2>2. CASE ScopedThreadJoin(t, k)
    BY <2>2 DEF ScopedThreadJoin, Goto, TypeOK, cellVars
  <2> QED
    BY <1>9, <2>1, <2>2
<1>10. CASE Joined(t)
  BY <1>10 DEF Joined, Goto, TypeOK, cellVars, threadVars
<1>11. CASE TakeResult(t)
  <2> DEFINE r == Cleared(scopes[t], call[t])
  <2>1. call[t] \in Kids
    BY <1>11 DEF TakeResult, At, WaitsFounded
  <2>2. r \in Stacks /\ Len(r) = Len(scopes[t])
    BY <1>1, <2>1, ClearedStack
  <2>3. scopes' = [scopes EXCEPT ![t] = r] \/ UNCHANGED scopes
    BY <1>11 DEF TakeResult
  <2> HIDE DEF r
  <2>4. scopes' \in [All -> Stacks] /\ \A u \in All : Len(scopes'[u]) <= MaxScopes[u]
    BY <1>1, <2>2, <2>3
  <2>5. block' \in [Kids -> {"none", "allocated", "freed"}]
        /\ result' \in [Kids -> {"unset", "set", "moved", "dropped"}]
        /\ corrupt' \in BOOLEAN
    <3>1. /\ block' = block \/ block' = [block EXCEPT ![call[t]] = "freed"]
          /\ result' = result \/ result' = [result EXCEPT ![call[t]] = "moved"]
          /\ corrupt' = corrupt \/ corrupt' = TRUE
      BY <1>11 DEF TakeResult
    <3> QED
      BY <2>1, <3>1 DEF TypeOK
  <2> QED
    BY <1>2, <1>11, <2>4, <2>5 DEF TakeResult, Goto, TypeOK, cellVars
<1>12. CASE BodyReturn(t)
  <2>1. Goto(t, "exiting", None) /\ ReleaseGuard(t, 0)
    BY <1>12 DEF BodyReturn
  <2>2. UNCHANGED <<scopes, block, handle, value, seen, ideal>>
        /\ result' \in [Kids -> {"unset", "set", "moved", "dropped"}]
        /\ corrupt' \in BOOLEAN
    BY <1>12 DEF BodyReturn, TypeOK
  <2>3. /\ guard' \in [All -> Int] /\ \A u \in All : guard'[u] \in -1..MaxScopes[u]
        /\ holder' \in [Cells -> All \cup {None}]
    BY <2>1, ReleaseTyped
  <2> QED
    BY <2>1, <2>2, <2>3 DEF Goto, TypeOK
<1>13. CASE EntryReturn(t)
  BY <1>13 DEF EntryReturn, Goto, TypeOK, cellVars, threadVars
<1>14. ASSUME NEW c \in Cells, Request(t, c) PROVE TypeOK'
  BY <1>14 DEF Request, Goto, TypeOK, cellVars, threadVars
<1>15. CASE GuardGet(t)
  BY <1>15 DEF GuardGet, Goto, TypeOK, cellVars, threadVars, Cells
<1>16. CASE Acquire(t)
  <2>1. call[t] \in Cells
    BY <1>16 DEF Acquire, At, LocksFounded
  <2>2. UNCHANGED <<threadVars, value, seen, ideal, corrupt>>
        /\ holder' \in [Cells -> All \cup {None}]
    BY <1>16, <2>1 DEF Acquire, TypeOK
  <2>3. guard' \in [All -> Int] /\ \A u \in All : guard'[u] \in -1..MaxScopes[u]
    <3>1. Len(scopes[t]) \in Int /\ Len(scopes[t]) \in -1..MaxScopes[t]
      BY <1>1
    <3>2. guard' = guard \/ guard' = [guard EXCEPT ![t] = Len(scopes[t])]
      BY <1>16 DEF Acquire
    <3> QED
      BY <3>1, <3>2 DEF TypeOK
  <2>4. /\ pc' \in [All -> {"unborn", "run", "finish", "join", "take", "lock", "read",
                            "write", "exiting", "done"}]
        /\ call' \in [All -> Kids \cup {None} \cup Cells]
    <3>1. Goto(t, "read", call[t]) \/ Goto(t, "run", None)
      BY <1>16 DEF Acquire
    <3> QED
      BY <2>1, <3>1 DEF Goto, TypeOK
  <2> QED
    BY <2>2, <2>3, <2>4 DEF TypeOK, threadVars
<1>17. CASE ReadValue(t)
  <2>1. call[t] \in Cells
    BY <1>17 DEF ReadValue, At, LocksFounded
  <2> QED
    BY <1>17, <2>1 DEF ReadValue, Goto, TypeOK, threadVars
<1>18. CASE WriteValue(t)
  <2>1. call[t] \in Cells
    BY <1>18 DEF WriteValue, At, LocksFounded
  <2>2. PICK op \in Operations[call[t]] :
            /\ value' = [value EXCEPT ![call[t]] = Stored(op, seen[t])]
            /\ ideal' = [ideal EXCEPT ![call[t]] = Stored(op, ideal[call[t]])]
    BY <1>18 DEF WriteValue
  <2>3. Stored(op, seen[t]) \in 0..(Modulus - 1) /\ Stored(op, ideal[call[t]]) \in 0..(Modulus - 1)
    BY <2>1, StoredTyped DEF TypeOK
  <2>4. value' \in [Cells -> 0..(Modulus - 1)] /\ ideal' \in [Cells -> 0..(Modulus - 1)]
    BY <2>2, <2>3 DEF TypeOK
  <2>5. holder' \in [Cells -> All \cup {None}]
    BY <1>18, <2>1 DEF WriteValue, TypeOK
  <2>6. 0 \in 0..(Modulus - 1)
    BY ScopedAssumption
  <2>7. seen' \in [All -> 0..(Modulus - 1)]
    BY <1>18, <2>6 DEF WriteValue, TypeOK
  <2> QED
    BY <1>18, <2>4, <2>5, <2>7 DEF WriteValue, Goto, TypeOK, threadVars
<1>19. CASE DropGuard(t)
  <2>1. /\ guard' \in [All -> Int] /\ \A u \in All : guard'[u] \in -1..MaxScopes[u]
        /\ holder' \in [Cells -> All \cup {None}]
    BY <1>19, ReleaseTyped DEF DropGuard
  <2> QED
    BY <1>19, <2>1 DEF DropGuard, TypeOK, threadVars
<1> QED
  BY <1>4, <1>5, <1>6, <1>7, <1>8, <1>9, <1>10, <1>11, <1>12, <1>13,
     <1>14, <1>15, <1>16, <1>17, <1>18, <1>19
     DEF Step

-----------------------------------------------------------------------------
(* Locks and cells *)

\* Inside an operation a thread stays what the others do.
Steady == \A u \in All :
    /\ pc'[u] \in {"lock", "read", "write"} => pc'[u] = pc[u] /\ call'[u] = call[u]
    /\ pc[u] \in {"read", "write"} => pc'[u] = pc[u] /\ call'[u] = call[u]

\* A step outside the cells.
LEMMA CellsKept ==
    ASSUME LocksFounded, CellsExact, Steady, UNCHANGED cellVars
    PROVE  LocksFounded' /\ CellsExact'
BY DEF LocksFounded, CellsExact, Steady, cellVars

\* Letting go of a guard, if there is one.
LEMMA GuardReleased ==
    ASSUME TypeOK, LocksFounded, CellsExact, Steady, NEW t \in All, NEW n \in Nat,
           pc[t] = "run", ReleaseGuard(t, n), UNCHANGED <<value, seen, ideal>>
    PROVE  LocksFounded' /\ CellsExact'
<1>1. CASE guard[t] >= n
  <2>1. /\ guard \in [All -> Int] /\ guard' = [guard EXCEPT ![t] = -1]
        /\ holder \in [Cells -> All \cup {None}] /\ holder' = [holder EXCEPT !["mutex"] = None]
    BY <1>1 DEF ReleaseGuard, TypeOK
  <2>2. /\ holder'["mutex"] = None /\ holder'["atomic"] = holder["atomic"]
        /\ \A u \in All : u # t => guard'[u] = guard[u]
        /\ guard'[t] = -1
    BY <2>1 DEF Cells
  <2>3. guard[t] # -1
    BY <1>1, <2>1
  <2>4. holder["mutex"] = t
    BY <2>3 DEF CellsExact
  <2>5. \A u \in All : u # None
    BY ScopedAssumption DEF All
  <2>6. ASSUME NEW u \in All, pc[u] \in {"read", "write"} PROVE call[u] = "atomic"
    BY <2>4, <2>6 DEF LocksFounded, Cells
  <2>7. \A u \in All : guard'[u] = -1
    BY <2>2, <2>4 DEF CellsExact
  <2>8. ASSUME NEW u \in All
        PROVE  /\ pc'[u] \in {"lock", "read", "write"} => call'[u] \in Cells
               /\ pc'[u] \in {"read", "write"} => holder'[call'[u]] = u
    BY <2>2, <2>6 DEF LocksFounded, Steady
  <2>9. ASSUME NEW c \in Cells, NEW u \in All, holder'[c] = u
        PROVE  pc'[u] \in {"read", "write"} /\ call'[u] = c
    <3>1. c = "atomic" /\ holder["atomic"] = u
      BY <2>2, <2>5, <2>9 DEF Cells
    <3>2. pc[u] \in {"read", "write"} /\ call[u] = c
      BY <3>1 DEF LocksFounded
    <3> QED
      BY <3>2 DEF Steady
  <2>10. LocksFounded'
    BY <2>8, <2>9 DEF LocksFounded
  <2>11. CellsExact'
    BY <2>7 DEF CellsExact, Steady
  <2> QED
    BY <2>10, <2>11
<1>2. CASE ~(guard[t] >= n)
  <2>1. UNCHANGED cellVars
    BY <1>2 DEF ReleaseGuard, cellVars
  <2> QED
    BY <2>1, CellsKept
<1> QED
  BY <1>1, <1>2

\* Every step keeps the locks and the values of the cells.
LEMMA StepCells ==
    ASSUME IInv, NEW t \in All, Step(t)
    PROVE  LocksFounded' /\ CellsExact'
<1>1. /\ TypeOK /\ WaitsFounded /\ LocksFounded /\ CellsExact
      /\ pc \in [All -> {"unborn", "run", "finish", "join", "take", "lock", "read",
                         "write", "exiting", "done"}]
      /\ call \in [All -> Kids \cup {None} \cup Cells]
      /\ \A u \in All : u # None
  BY ScopedAssumption DEF IInv, TypeOK, All
<1>2. ASSUME NEW where, NEW what, Goto(t, where, what),
             where \notin {"lock", "read", "write"}, pc[t] \notin {"read", "write"}
      PROVE  Steady
  BY <1>1, <1>2 DEF Goto, Steady
<1>3. ASSUME UNCHANGED <<pc, call>> PROVE Steady
  BY <1>3 DEF Steady
<1>4. CASE ScopeEnter(t)
  BY <1>1, <1>3, <1>4, CellsKept DEF ScopeEnter
<1>5. CASE ScopeReturn(t)
  <2>1. Goto(t, "finish", None) /\ pc[t] = "run" /\ ReleaseGuard(t, Len(scopes[t]))
        /\ UNCHANGED <<value, seen, ideal>>
    BY <1>5 DEF ScopeReturn, At
  <2>2. Steady
    BY <1>2, <2>1
  <2>3. Len(scopes[t]) \in Nat
    BY <1>1, ScopesTyped
  <2> QED
    BY <1>1, <2>1, <2>2, <2>3, GuardReleased
<1>6. CASE FinishNext(t)
  BY <1>1, <1>3, <1>6, CellsKept DEF FinishNext
<1>7. CASE ScopeEnd(t)
  BY <1>1, <1>2, <1>7, CellsKept DEF ScopeEnd, At
<1>8. ASSUME NEW k \in Kids, NEW i \in DOMAIN scopes[t], ScopedThreadSpawn(t, i, k)
      PROVE  LocksFounded' /\ CellsExact'
  <2>1. Steady
    BY <1>1, <1>8 DEF ScopedThreadSpawn, Steady
  <2> QED
    BY <1>1, <1>8, <2>1, CellsKept DEF ScopedThreadSpawn
<1>9. ASSUME NEW k \in Kids, DropHandle(t, k) PROVE LocksFounded' /\ CellsExact'
  BY <1>1, <1>3, <1>9, CellsKept DEF DropHandle
<1>10. ASSUME NEW k \in Kids, ScopedThreadJoin(t, k) PROVE LocksFounded' /\ CellsExact'
  BY <1>1, <1>2, <1>10, CellsKept DEF ScopedThreadJoin, At
<1>11. CASE Joined(t)
  BY <1>1, <1>2, <1>11, CellsKept DEF Joined, At
<1>12. CASE TakeResult(t)
  BY <1>1, <1>2, <1>12, CellsKept DEF TakeResult, At
<1>13. CASE BodyReturn(t)
  <2>1. Goto(t, "exiting", None) /\ pc[t] = "run" /\ ReleaseGuard(t, 0)
        /\ UNCHANGED <<value, seen, ideal>>
    BY <1>13 DEF BodyReturn, At
  <2>2. Steady
    BY <1>2, <2>1
  <2> QED
    BY <1>1, <2>1, <2>2, GuardReleased
<1>14. CASE EntryReturn(t)
  BY <1>1, <1>2, <1>14, CellsKept DEF EntryReturn, At
<1>15. ASSUME NEW c \in Cells, Request(t, c) PROVE LocksFounded' /\ CellsExact'
  <2>1. /\ pc' = [pc EXCEPT ![t] = "lock"] /\ call' = [call EXCEPT ![t] = c]
        /\ pc[t] = "run" /\ UNCHANGED cellVars
    BY <1>15 DEF Request, Goto, At
  <2> QED
    BY <1>1, <2>1 DEF LocksFounded, CellsExact, cellVars
<1>16. CASE GuardGet(t)
  <2>1. /\ pc' = [pc EXCEPT ![t] = "read"] /\ call' = [call EXCEPT ![t] = "mutex"]
        /\ pc[t] = "run" /\ guard[t] # -1 /\ UNCHANGED cellVars
    BY <1>16 DEF GuardGet, Goto, At
  <2>2. holder["mutex"] = t
    BY <1>1, <2>1 DEF CellsExact
  <2> QED
    BY <1>1, <2>1, <2>2 DEF LocksFounded, CellsExact, cellVars, Cells
<1>17. CASE Acquire(t)
  <2>1. /\ pc[t] = "lock" /\ call[t] \in Cells /\ holder[call[t]] = None
        /\ holder' = [holder EXCEPT ![call[t]] = t] /\ holder \in [Cells -> All \cup {None}]
        /\ UNCHANGED <<value, seen, ideal>>
    BY <1>1, <1>17 DEF Acquire, At, LocksFounded, TypeOK
  <2>2. /\ holder'[call[t]] = t
        /\ \A c \in Cells : c # call[t] => holder'[c] = holder[c]
    BY <2>1
  <2>3. ASSUME NEW u \in All, pc[u] \in {"read", "write"} PROVE u # t /\ call[u] # call[t]
    BY <1>1, <2>1, <2>3 DEF LocksFounded
  <2>4. CASE Goto(t, "read", call[t]) /\ UNCHANGED guard
    <3>1. pc' = [pc EXCEPT ![t] = "read"] /\ call' = call
      BY <1>1, <2>4 DEF Goto
    <3>2. ASSUME NEW u \in All
          PROVE  /\ pc'[u] \in {"lock", "read", "write"} => call'[u] \in Cells
                 /\ pc'[u] \in {"read", "write"} => holder'[call'[u]] = u
      BY <1>1, <2>1, <2>2, <2>3, <3>1 DEF LocksFounded
    <3>3. ASSUME NEW c \in Cells, NEW u \in All, holder'[c] = u
          PROVE  \/ pc'[u] \in {"read", "write"} /\ call'[u] = c
                 \/ c = "mutex" /\ guard'[u] # -1
      BY <1>1, <2>1, <2>2, <2>4, <3>1, <3>3 DEF LocksFounded
    <3>4. LocksFounded'
      BY <3>2, <3>3 DEF LocksFounded
    <3>5. \A u \in All : guard[u] # -1 => call[t] # "mutex"
      BY <1>1, <2>1 DEF CellsExact
    <3>6. CellsExact'
      BY <1>1, <2>1, <2>2, <2>4, <3>1, <3>5 DEF CellsExact, Cells
    <3> QED
      BY <3>4, <3>6
  <2>5. CASE /\ call[t] = "mutex" /\ guard' = [guard EXCEPT ![t] = Len(scopes[t])]
             /\ Goto(t, "run", None)
    <3>1. pc' = [pc EXCEPT ![t] = "run"] /\ call' = [call EXCEPT ![t] = None]
      BY <2>5 DEF Goto
    <3>2. \A u \in All : guard[u] = -1
      BY <1>1, <2>1, <2>5 DEF CellsExact
    <3>3. guard \in [All -> Int] /\ Len(scopes[t]) \in Nat
      BY <1>1, ScopesTyped DEF TypeOK
    <3>4. guard'[t] # -1 /\ \A u \in All : u # t => guard'[u] = -1
      BY <2>5, <3>2, <3>3
    <3>5. ASSUME NEW u \in All
          PROVE  /\ pc'[u] \in {"lock", "read", "write"} => call'[u] \in Cells
                 /\ pc'[u] \in {"read", "write"} => holder'[call'[u]] = u
      BY <1>1, <2>1, <2>2, <2>3, <3>1 DEF LocksFounded
    <3>6. ASSUME NEW c \in Cells, NEW u \in All, holder'[c] = u
          PROVE  \/ pc'[u] \in {"read", "write"} /\ call'[u] = c
                 \/ c = "mutex" /\ guard'[u] # -1
      <4>1. CASE c = "mutex"
        BY <2>2, <2>5, <3>4, <3>6, <4>1
      <4>2. CASE c # "mutex"
        BY <1>1, <2>1, <2>2, <2>5, <3>1, <3>6, <4>2 DEF LocksFounded
      <4> QED
        BY <4>1, <4>2
    <3>7. LocksFounded'
      BY <3>5, <3>6 DEF LocksFounded
    <3>8. CellsExact'
      BY <1>1, <2>1, <2>2, <2>5, <3>1, <3>4 DEF CellsExact
    <3> QED
      BY <3>7, <3>8
  <2> QED
    BY <1>17, <2>4, <2>5 DEF Acquire
<1>18. CASE ReadValue(t)
  <2>1. /\ pc[t] = "read" /\ call[t] \in Cells
        /\ pc' = [pc EXCEPT ![t] = "write"] /\ call' = call
        /\ seen' = [seen EXCEPT ![t] = value[call[t]]] /\ UNCHANGED <<guard, holder, value, ideal>>
        /\ DOMAIN seen = All
    BY <1>1, <1>18 DEF ReadValue, Goto, At, LocksFounded, TypeOK
  <2>2. LocksFounded'
    BY <1>1, <2>1 DEF LocksFounded
  <2>3. CellsExact'
    BY <1>1, <2>1 DEF CellsExact
  <2> QED
    BY <2>2, <2>3
<1>19. CASE WriteValue(t)
  <2>1. /\ pc[t] = "write" /\ call[t] \in Cells /\ holder[call[t]] = t
        /\ pc' = [pc EXCEPT ![t] = "run"] /\ call' = [call EXCEPT ![t] = None]
        /\ UNCHANGED guard /\ holder \in [Cells -> All \cup {None}]
        /\ seen' = [seen EXCEPT ![t] = 0] /\ DOMAIN seen = All
        /\ holder' = [holder EXCEPT ![call[t]] =
               IF call[t] = "mutex" /\ guard[t] # -1 THEN holder[call[t]] ELSE None]
    BY <1>1, <1>19 DEF WriteValue, Goto, At, LocksFounded, TypeOK
  <2>2. PICK op \in Operations[call[t]] :
            /\ value' = [value EXCEPT ![call[t]] = Stored(op, seen[t])]
            /\ ideal' = [ideal EXCEPT ![call[t]] = Stored(op, ideal[call[t]])]
    BY <1>19 DEF WriteValue
  <2>3. ASSUME NEW u \in All, u # t, pc[u] \in {"read", "write"}
        PROVE  call[u] # call[t] /\ call[u] \in Cells
    BY <1>1, <2>1, <2>3 DEF LocksFounded
  <2>4. /\ \A c \in Cells : c # call[t] => holder'[c] = holder[c]
        /\ holder'[call[t]] = IF call[t] = "mutex" /\ guard[t] # -1 THEN t ELSE None
    BY <2>1
  <2>5. ASSUME NEW u \in All
        PROVE  /\ pc'[u] \in {"lock", "read", "write"} => call'[u] \in Cells
               /\ pc'[u] \in {"read", "write"} => holder'[call'[u]] = u
    BY <1>1, <2>1, <2>3, <2>4 DEF LocksFounded
  <2>6. ASSUME NEW c \in Cells, NEW u \in All, holder'[c] = u
        PROVE  \/ pc'[u] \in {"read", "write"} /\ call'[u] = c
               \/ c = "mutex" /\ guard'[u] # -1
    <3>1. CASE c = call[t]
      BY <1>1, <2>1, <2>4, <2>6, <3>1
    <3>2. CASE c # call[t]
      BY <1>1, <2>1, <2>4, <2>6, <3>2 DEF LocksFounded
    <3> QED
      BY <3>1, <3>2
  <2>7. LocksFounded'
    BY <2>5, <2>6 DEF LocksFounded
  <2>8. value' = ideal'
    <3>1. value = ideal /\ seen[t] = ideal[call[t]]
      BY <1>1, <2>1 DEF CellsExact
    <3> QED
      BY <2>2, <3>1
  <2>9. \A u \in All : guard'[u] # -1 => holder'["mutex"] = u
    <3>1. \A u \in All : guard[u] # -1 => holder["mutex"] = u
      BY <1>1 DEF CellsExact
    <3>2. "mutex" \in Cells
      BY DEF Cells
    <3>3. CASE call[t] = "mutex"
      BY <2>1, <2>4, <3>1, <3>3
    <3>4. CASE call[t] # "mutex"
      BY <2>1, <2>4, <3>1, <3>2, <3>4
    <3> QED
      BY <3>3, <3>4
  <2>10. ASSUME NEW u \in All, pc'[u] = "write"
         PROVE  seen'[u] = ideal'[call'[u]]
    <3>1. u # t /\ pc[u] = "write" /\ call'[u] = call[u] /\ seen'[u] = seen[u]
      BY <1>1, <2>1, <2>10
    <3>2. call[u] # call[t] /\ seen[u] = ideal[call[u]]
      BY <1>1, <2>3, <3>1 DEF CellsExact
    <3>3. ideal'[call[u]] = ideal[call[u]]
      BY <1>1, <2>2, <2>3, <3>1, <3>2 DEF TypeOK
    <3> QED
      BY <3>1, <3>2, <3>3
  <2> QED
    BY <2>7, <2>8, <2>9, <2>10 DEF CellsExact
<1>20. CASE DropGuard(t)
  <2>1. Steady /\ pc[t] = "run" /\ ReleaseGuard(t, 0) /\ UNCHANGED <<value, seen, ideal>>
    BY <1>3, <1>20 DEF DropGuard, At
  <2> QED
    BY <1>1, <2>1, GuardReleased
<1> QED
  BY <1>4, <1>5, <1>6, <1>7, <1>8, <1>9, <1>10, <1>11, <1>12, <1>13, <1>14, <1>15, <1>16,
     <1>17, <1>18, <1>19, <1>20 DEF Step

-----------------------------------------------------------------------------
(* Nodes, handles and the lives of threads *)

\* The threads the program may create are neither main nor None.
LEMMA Distinct ==
    /\ Main \in All /\ Main \notin Kids /\ None \notin All /\ None \notin Kids
    /\ \A k \in Kids : k \in All
BY ScopedAssumption DEF All

\* Nothing can be linked in a circle by a step that adds no node.
LEMMA LinksKept ==
    ASSUME LinksAcyclic, \A u \in All, v \in All : Named(scopes'[u], v) => Named(scopes[u], v)
    PROVE  LinksAcyclic'
BY DEF LinksAcyclic

\* A thread whose nodes, with the blocks, stay what they are.
LEMMA NodesKept ==
    ASSUME OneNode, LinksAcyclic, UNCHANGED block,
           \A u \in All, v \in All : Named(scopes'[u], v) <=> Named(scopes[u], v),
           \A u \in All, k \in Kids : NamedOnce(scopes[u], k) => NamedOnce(scopes'[u], k)
    PROVE  OneNode' /\ LinksAcyclic'
<1>1. LinksAcyclic'
  BY LinksKept
<1>2. OneNode'
  BY Distinct DEF OneNode
<1> QED
  BY <1>1, <1>2

\* What the node of a kid tells of the others: its thread exists, and only t
\* can wait for it.
LEMMA NodeOwner ==
    ASSUME IInv, NEW t \in All, NEW k \in Kids, Named(scopes[t], k)
    PROVE  /\ block[k] = "allocated" /\ k # t
           /\ \A u \in All : Named(scopes[u], k) => u = t
           /\ \A u \in All : pc[u] \in {"join", "take"} /\ call[u] = k => u = t
<1>1. block[k] = "allocated" /\ \A u \in All : Named(scopes[u], k) => u = t
  BY DEF IInv, OneNode
<1>2. k # t
  <2>1. PICK u \in {t} : \A v \in {t} : ~Named(scopes[u], v)
    <3>1. {t} \in SUBSET All /\ {t} # {}
      OBVIOUS
    <3> QED
      BY <3>1 DEF IInv, LinksAcyclic
  <2> QED
    BY <2>1
<1>3. \A u \in All : pc[u] \in {"join", "take"} => Named(scopes[u], call[u])
  BY DEF IInv, WaitsFounded
<1> QED
  BY <1>1, <1>2, <1>3

\* The part of the invariant about threads, which the cells do not touch.
ThreadInv == ~corrupt /\ Lifecycle /\ OneNode /\ WaitsFounded /\ LinksAcyclic

\* A step of t that changes no thread's block, node or handle.
LEMMA ThreadKept ==
    ASSUME TypeOK, ThreadInv, NEW t \in All, UNCHANGED <<threadVars, corrupt>>,
           NEW where, NEW what, Goto(t, where, what),
           pc[t] \in {"run", "lock", "read", "write"}, where \in {"run", "lock", "read", "write"}
    PROVE  ThreadInv'
<1>1. /\ \A u \in All : u # t => pc'[u] = pc[u] /\ call'[u] = call[u]
      /\ pc'[t] \in {"run", "lock", "read", "write"}
  BY DEF Goto, TypeOK
<1>2. OneNode' /\ LinksAcyclic' /\ ~corrupt'
  BY NodesKept DEF ThreadInv, threadVars
<1>3. Lifecycle'
  BY <1>1, Distinct DEF ThreadInv, Lifecycle, threadVars
<1>4. WaitsFounded'
  BY <1>1, Distinct DEF ThreadInv, WaitsFounded, threadVars
<1> QED
  BY <1>2, <1>3, <1>4 DEF ThreadInv

\* A thread has a scope with a node of k if and only if its stack names k.
LEMMA ScopesNamed ==
    ASSUME NEW t \in All, NEW k \in Kids
    PROVE  ScopesOf(t, k) # {} <=> Named(scopes[t], k)
BY Distinct DEF ScopesOf, Members, ToSet, Named

\* Every step keeps the part about threads.
LEMMA StepThreads ==
    ASSUME IInv, NEW t \in All, Step(t)
    PROVE  ThreadInv'
<1>1. /\ TypeOK /\ ThreadInv
      /\ Lifecycle /\ OneNode /\ WaitsFounded /\ LinksAcyclic /\ LocksFounded /\ ~corrupt
      /\ scopes \in [All -> Stacks] /\ scopes[t] \in Stacks
      /\ DOMAIN pc = All /\ DOMAIN call = All /\ DOMAIN block = Kids /\ DOMAIN result = Kids
      /\ \A k \in Kids : block[k] \in {"none", "allocated", "freed"}
  BY ScopesTyped DEF IInv, ThreadInv, TypeOK
<1>2. ASSUME NEW r \in Stacks, scopes' = [scopes EXCEPT ![t] = r], UNCHANGED block,
             \A x : Named(r, x) <=> Named(scopes[t], x),
             \A x : NamedOnce(scopes[t], x) => NamedOnce(r, x)
      PROVE  /\ OneNode' /\ LinksAcyclic'
             /\ \A u \in All : \A k \in Kids : Named(scopes[u], k) => Named(scopes'[u], k)
             /\ \A u \in All : u # t => scopes'[u] = scopes[u]
  <2>1. \A u \in All : scopes'[u] = IF u = t THEN r ELSE scopes[u]
    BY <1>1, <1>2
  <2>2. \A u \in All, v \in All : Named(scopes'[u], v) <=> Named(scopes[u], v)
    BY <1>2, <2>1
  <2>3. \A u \in All, k \in Kids : NamedOnce(scopes[u], k) => NamedOnce(scopes'[u], k)
    BY <1>2, <2>1
  <2>4. OneNode' /\ LinksAcyclic'
    BY <1>1, <1>2, <2>2, <2>3, NodesKept
  <2> QED
    BY <2>1, <2>2, <2>4, Distinct
<1>3. CASE ScopeEnter(t)
  <2> DEFINE r == <<<<>>>> \o scopes[t]
  <2>1. /\ r \in Stacks
        /\ \A x : Named(r, x) <=> Named(scopes[t], x)
        /\ \A x : NamedOnce(scopes[t], x) => NamedOnce(r, x)
    BY <1>1, EnteredStack
  <2>2. /\ scopes' = [scopes EXCEPT ![t] = r] /\ pc[t] = "run"
        /\ UNCHANGED <<block, result, handle, pc, call, corrupt>>
    BY <1>3 DEF ScopeEnter, At
  <2> HIDE DEF r
  <2>3. /\ OneNode' /\ LinksAcyclic'
        /\ \A u \in All : \A k \in Kids : Named(scopes[u], k) => Named(scopes'[u], k)
        /\ \A u \in All : u # t => scopes'[u] = scopes[u]
    BY <1>2, <2>1, <2>2
  <2>4. Lifecycle'
    BY <1>1, <2>2 DEF Lifecycle
  <2>5. WaitsFounded'
    BY <1>1, <2>2, <2>3 DEF WaitsFounded
  <2> QED
    BY <1>1, <2>2, <2>3, <2>4, <2>5 DEF ThreadInv
<1>4. CASE ScopeReturn(t)
  <2>1. /\ pc[t] = "run" /\ scopes[t] # <<>> /\ Goto(t, "finish", None)
        /\ handle' = handle \ Members(Head(scopes[t])) /\ UNCHANGED <<scopes, block, result, corrupt>>
    BY <1>4 DEF ScopeReturn, At
  <2>2. /\ \A u \in All : u # t => pc'[u] = pc[u] /\ call'[u] = call[u]
        /\ pc'[t] = "finish"
    BY <1>1, <2>1 DEF Goto
  <2>3. OneNode' /\ LinksAcyclic'
    BY <1>1, <2>1, NodesKept
  <2>4. Lifecycle'
    BY <1>1, <2>1, <2>2, Distinct DEF Lifecycle
  <2>5. ASSUME NEW n \in DOMAIN scopes[t][1] PROVE scopes[t][1][n] \notin handle'
    <3>1. Head(scopes[t]) = scopes[t][1]
      BY <1>1, <2>1 DEF Stacks
    <3>2. None \notin handle
      BY <1>1, Distinct DEF TypeOK
    <3>3. scopes[t][1][n] = None \/ scopes[t][1][n] \in Members(Head(scopes[t]))
      BY <3>1 DEF Members, ToSet
    <3> QED
      BY <2>1, <3>2, <3>3
  <2>6. ASSUME NEW u \in All
        PROVE  /\ pc'[u] \in {"unborn", "exiting", "done"} => scopes'[u] = <<>>
               /\ pc'[u] = "finish" =>
                     /\ scopes'[u] # <<>>
                     /\ \A n \in DOMAIN scopes'[u][1] : scopes'[u][1][n] \notin handle'
               /\ pc'[u] \in {"join", "take"} =>
                     call'[u] \in Kids /\ call'[u] \notin handle' /\ Named(scopes'[u], call'[u])
               /\ pc'[u] = "take" => pc'[call'[u]] = "done"
    <3>1. CASE u = t
      BY <2>1, <2>2, <2>5, <3>1
    <3>2. CASE u # t
      BY <1>1, <2>1, <2>2, <3>2, Distinct DEF WaitsFounded
    <3> QED
      BY <3>1, <3>2
  <2>7. WaitsFounded'
    BY <2>6 DEF WaitsFounded
  <2> QED
    BY <1>1, <2>1, <2>3, <2>4, <2>7 DEF ThreadInv
<1>5. CASE ScopeEnd(t)
  <2> DEFINE r == Tail(scopes[t])
  <2>1. /\ pc[t] = "finish" /\ Head(scopes[t]) = <<>> /\ Goto(t, "run", None)
        /\ scopes' = [scopes EXCEPT ![t] = r] /\ UNCHANGED <<block, result, handle, corrupt>>
    BY <1>5 DEF ScopeEnd, At
  <2>2. scopes[t] # <<>>
    BY <1>1, <2>1 DEF WaitsFounded
  <2>3. /\ r \in Stacks
        /\ \A x : Named(r, x) <=> Named(scopes[t], x)
        /\ \A x : NamedOnce(scopes[t], x) => NamedOnce(r, x)
    BY <1>1, <2>1, <2>2, EndedStack
  <2> HIDE DEF r
  <2>4. /\ OneNode' /\ LinksAcyclic'
        /\ \A u \in All : u # t => scopes'[u] = scopes[u]
    BY <1>2, <2>1, <2>3
  <2>5. /\ \A u \in All : u # t => pc'[u] = pc[u] /\ call'[u] = call[u]
        /\ pc'[t] = "run"
    BY <1>1, <2>1 DEF Goto
  <2>6. Lifecycle'
    BY <1>1, <2>1, <2>5, Distinct DEF Lifecycle
  <2>7. WaitsFounded'
    BY <1>1, <2>1, <2>4, <2>5, Distinct DEF WaitsFounded
  <2> QED
    BY <1>1, <2>1, <2>4, <2>6, <2>7 DEF ThreadInv

<1>6. ASSUME NEW k \in Kids, NEW i \in DOMAIN scopes[t], ScopedThreadSpawn(t, i, k)
      PROVE  ThreadInv'
  <2> DEFINE r == Linked(scopes[t], i, k)
  <2>1. /\ pc[t] = "run" /\ pc[k] = "unborn" /\ k \in All /\ k # t
        /\ block' = [block EXCEPT ![k] = "allocated"]
        /\ scopes' = [scopes EXCEPT ![t] = r]
        /\ handle' = handle \cup {k} /\ pc' = [pc EXCEPT ![k] = "run"]
        /\ UNCHANGED <<result, call, corrupt>>
    BY <1>6, Distinct DEF ScopedThreadSpawn, At
  <2>2. /\ block[k] = "none" /\ scopes[k] = <<>>
        /\ \A u \in All : ~Named(scopes[u], k)
    BY <1>1, <2>1 DEF Lifecycle, OneNode, WaitsFounded
  <2>3. /\ r \in Stacks
        /\ \A x : Named(r, x) <=> x = k \/ Named(scopes[t], x)
        /\ \A x : NamedOnce(scopes[t], x) => NamedOnce(r, x)
    BY <1>1, <2>2, LinkedStack
  <2> HIDE DEF r
  <2>4. \A u \in All : scopes'[u] = IF u = t THEN r ELSE scopes[u]
    BY <1>1, <2>1
  <2>5. /\ \A u \in All : u # k => pc'[u] = pc[u]
        /\ pc'[k] = "run"
        /\ \A x \in Kids : x # k => block'[x] = block[x]
        /\ block'[k] = "allocated"
    BY <1>1, <2>1
  <2>6. Lifecycle'
    BY <1>1, <2>1, <2>2, <2>5, Distinct DEF Lifecycle
  <2>7. OneNode'
    <3>1. ASSUME NEW x \in Kids, NEW u \in All
          PROVE  /\ NamedOnce(scopes'[u], x)
                 /\ Named(scopes'[u], x) <=> (x = k /\ u = t) \/ Named(scopes[u], x)
      BY <1>1, <2>3, <2>4 DEF OneNode
    <3>2. ASSUME NEW x \in Kids, x # k
          PROVE  block'[x] = "allocated" <=> \E u \in All : Named(scopes'[u], x)
      BY <1>1, <2>5, <3>1, <3>2 DEF OneNode
    <3>3. \E u \in All : Named(scopes'[u], k)
      BY <3>1
    <3>4. ASSUME NEW x \in Kids, NEW u \in All, NEW v \in All,
                 Named(scopes'[u], x), Named(scopes'[v], x)
          PROVE  u = v
      BY <1>1, <2>2, <3>1, <3>4 DEF OneNode
    <3> QED
      BY <2>5, <3>1, <3>2, <3>3, <3>4 DEF OneNode
  <2>8. LinksAcyclic'
    <3> SUFFICES ASSUME NEW S \in SUBSET All, S # {}
                 PROVE  \E w \in S : \A u \in S : ~Named(scopes'[w], u)
      BY DEF LinksAcyclic
    <3>1. CASE k \in S
      <4>1. scopes'[k] = <<>>
        BY <2>1, <2>2, <2>4
      <4>2. \A u : ~Named(<<>>, u)
        BY DEF Named
      <4> QED
        BY <3>1, <4>1, <4>2
    <3>2. CASE k \notin S
      BY <1>1, <2>3, <2>4, <3>2 DEF LinksAcyclic
    <3> QED
      BY <3>1, <3>2
  <2>9. ASSUME NEW u \in All
        PROVE  /\ pc'[u] \in {"unborn", "exiting", "done"} => scopes'[u] = <<>>
               /\ pc'[u] = "finish" =>
                     /\ scopes'[u] # <<>>
                     /\ \A n \in DOMAIN scopes'[u][1] : scopes'[u][1][n] \notin handle'
               /\ pc'[u] \in {"join", "take"} =>
                     call'[u] \in Kids /\ call'[u] \notin handle' /\ Named(scopes'[u], call'[u])
               /\ pc'[u] = "take" => pc'[call'[u]] = "done"
    <3>1. CASE u \in {t, k}
      BY <2>1, <2>5, <3>1
    <3>2. CASE u \notin {t, k}
      <4>1. pc'[u] = pc[u] /\ call'[u] = call[u] /\ scopes'[u] = scopes[u]
        BY <2>1, <2>4, <2>5, <3>2
      <4>2. pc[u] = "finish" => \A n \in DOMAIN scopes[u][1] : scopes[u][1][n] # k
        <5>1. scopes[u] \in Stacks
          BY <1>1
        <5>2. scopes[u] # <<>> => 1 \in DOMAIN scopes[u]
          BY <5>1, EmptySeq, LenProperties DEF Stacks
        <5>3. pc[u] = "finish" => scopes[u] # <<>>
          BY <1>1 DEF WaitsFounded
        <5> QED
          BY <2>2, <5>2, <5>3 DEF Named
      <4>3. pc[u] \in {"join", "take"} => call[u] # k
        BY <1>1, <2>2 DEF WaitsFounded
      <4>4. pc[u] = "take" => call[u] \in All /\ pc'[call[u]] = pc[call[u]]
        BY <1>1, <2>5, <4>3, Distinct DEF WaitsFounded
      <4> QED
        BY <1>1, <2>1, <4>1, <4>2, <4>3, <4>4 DEF WaitsFounded
    <3> QED
      BY <3>1, <3>2
  <2>10. WaitsFounded'
    BY <2>9 DEF WaitsFounded
  <2> QED
    BY <1>1, <2>1, <2>6, <2>7, <2>8, <2>10 DEF ThreadInv
<1>7. ASSUME NEW k \in Kids, DropHandle(t, k) PROVE ThreadInv'
  <2>1. handle' = handle \ {k} /\ UNCHANGED <<scopes, block, result, pc, call, corrupt>>
    BY <1>7 DEF DropHandle
  <2>2. OneNode' /\ LinksAcyclic'
    BY <1>1, <2>1, NodesKept
  <2> QED
    BY <1>1, <2>1, <2>2 DEF ThreadInv, Lifecycle, WaitsFounded
<1>8. ASSUME NEW k \in Kids, ScopedThreadJoin(t, k) PROVE ThreadInv'
  <2>1. /\ pc[t] = "run" /\ Named(scopes[t], k) /\ handle' = handle \ {k}
        /\ Goto(t, "join", k) /\ UNCHANGED <<scopes, block, result, corrupt>>
    BY <1>8, ScopesNamed DEF ScopedThreadJoin, At
  <2>2. OneNode' /\ LinksAcyclic'
    BY <1>1, <2>1, NodesKept
  <2>3. /\ \A u \in All : u # t => pc'[u] = pc[u] /\ call'[u] = call[u]
        /\ pc'[t] = "join" /\ call'[t] = k
    BY <1>1, <2>1 DEF Goto
  <2>4. Lifecycle'
    BY <1>1, <2>1, <2>3, Distinct DEF Lifecycle
  <2>5. WaitsFounded'
    BY <1>1, <2>1, <2>3, Distinct DEF WaitsFounded
  <2> QED
    BY <1>1, <2>1, <2>2, <2>4, <2>5 DEF ThreadInv
<1>9. CASE Joined(t)
  <2>1. /\ pc[t] = "join" /\ pc[call[t]] = "done" /\ Goto(t, "take", call[t])
        /\ UNCHANGED <<scopes, block, result, handle, corrupt>>
    BY <1>9 DEF Joined, At, threadVars
  <2>2. OneNode' /\ LinksAcyclic'
    BY <1>1, <2>1, NodesKept
  <2>3. /\ \A u \in All : u # t => pc'[u] = pc[u]
        /\ pc'[t] = "take" /\ call' = call
    BY <1>1, <2>1 DEF Goto, TypeOK
  <2>4. Lifecycle'
    BY <1>1, <2>1, <2>3, Distinct DEF Lifecycle
  <2>5. WaitsFounded'
    BY <1>1, <2>1, <2>3, Distinct DEF WaitsFounded
  <2> QED
    BY <1>1, <2>1, <2>2, <2>4, <2>5 DEF ThreadInv
<1>10. CASE TakeResult(t)
  <2> DEFINE k == call[t]
             r == Cleared(scopes[t], k)
  <2>1. /\ pc[t] = "take" /\ k \in Kids /\ Named(scopes[t], k) /\ pc[k] = "done"
    BY <1>1, <1>10 DEF TakeResult, At, WaitsFounded
  <2>2. /\ block[k] = "allocated" /\ k # t /\ ScopesOf(t, k) # {}
        /\ \A u \in All : Named(scopes[u], k) => u = t
    BY <2>1, NodeOwner, ScopesNamed
  <2>3. /\ result' = [result EXCEPT ![k] = "moved"] /\ block' = [block EXCEPT ![k] = "freed"]
        /\ scopes' = [scopes EXCEPT ![t] = r] /\ UNCHANGED <<corrupt, handle>>
        /\ Goto(t, "run", None)
    BY <1>10, <2>2 DEF TakeResult
  <2>4. /\ \A x : x # None => (Named(r, x) <=> x # k /\ Named(scopes[t], x))
        /\ \A x : x # None /\ NamedOnce(scopes[t], x) => NamedOnce(r, x)
    BY <1>1, <2>1, ClearedStack
  <2> HIDE DEF r
  <2>5. \A u \in All : scopes'[u] = IF u = t THEN r ELSE scopes[u]
    BY <1>1, <2>3
  <2>6. /\ \A u \in All : u # t => pc'[u] = pc[u] /\ call'[u] = call[u]
        /\ pc'[t] = "run"
    BY <1>1, <2>3 DEF Goto
  <2>7. /\ \A x \in Kids : x # k => block'[x] = block[x] /\ result'[x] = result[x]
        /\ block'[k] = "freed" /\ result'[k] = "moved"
    BY <1>1, <2>1, <2>3
  <2> HIDE DEF k
  <2>8. Lifecycle'
    BY <1>1, <2>1, <2>2, <2>6, <2>7, Distinct DEF Lifecycle
  <2>9. ASSUME NEW x \in All, NEW u \in All
        PROVE  Named(scopes'[u], x) <=> x # k /\ Named(scopes[u], x)
    BY <2>2, <2>4, <2>5, Distinct
  <2>10. ASSUME NEW x \in Kids, NEW u \in All
         PROVE  NamedOnce(scopes'[u], x)
    BY <1>1, <2>4, <2>5, Distinct DEF OneNode
  <2>11. OneNode'
    BY <1>1, <2>7, <2>9, <2>10, Distinct DEF OneNode
  <2>12. LinksAcyclic'
    BY <1>1, <2>9, LinksKept
  <2>13. ASSUME NEW u \in All
         PROVE  /\ pc'[u] \in {"unborn", "exiting", "done"} => scopes'[u] = <<>>
                /\ pc'[u] = "finish" =>
                      /\ scopes'[u] # <<>>
                      /\ \A n \in DOMAIN scopes'[u][1] : scopes'[u][1][n] \notin handle'
                /\ pc'[u] \in {"join", "take"} =>
                      call'[u] \in Kids /\ call'[u] \notin handle' /\ Named(scopes'[u], call'[u])
                /\ pc'[u] = "take" => pc'[call'[u]] = "done"
    <3>1. CASE u = t
      BY <2>6, <3>1
    <3>2. CASE u # t
      <4>1. pc'[u] = pc[u] /\ call'[u] = call[u] /\ scopes'[u] = scopes[u] /\ handle' = handle
        BY <2>3, <2>5, <2>6, <3>2
      <4>2. pc[u] = "take" => call[u] \in All /\ call[u] # t /\ pc[call[u]] = "done"
        BY <1>1, <2>1, Distinct DEF WaitsFounded
      <4> QED
        BY <1>1, <2>6, <4>1, <4>2 DEF WaitsFounded
    <3> QED
      BY <3>1, <3>2
  <2>14. WaitsFounded'
    BY <2>13 DEF WaitsFounded
  <2> QED
    BY <1>1, <2>3, <2>8, <2>11, <2>12, <2>14 DEF ThreadInv

<1>11. CASE FinishNext(t)
  <2> DEFINE k == Head(Head(scopes[t]))
             r == Unlinked(scopes[t])
  <2>1. /\ pc[t] = "finish" /\ scopes[t] # <<>> /\ Head(scopes[t]) # <<>>
        /\ scopes' = [scopes EXCEPT ![t] = r] /\ UNCHANGED <<handle, pc, call>>
        /\ \A n \in DOMAIN scopes[t][1] : scopes[t][1][n] \notin handle
    BY <1>1, <1>11 DEF FinishNext, At, WaitsFounded
  <2>2. /\ r # <<>> /\ k \in Refs /\ Named(scopes[t], k)
        /\ \A n \in DOMAIN r[1] : n + 1 \in DOMAIN scopes[t][1] /\ r[1][n] = scopes[t][1][n + 1]
        /\ \A x : Named(scopes[t], x) => x = k \/ Named(r, x)
        /\ \A x : Named(r, x) => Named(scopes[t], x)
        /\ NamedOnce(scopes[t], k) => ~Named(r, k)
        /\ \A x : NamedOnce(scopes[t], x) => NamedOnce(r, x)
    BY <1>1, <2>1, UnlinkedStack
  <2> HIDE DEF r
  <2>3. \A u \in All : scopes'[u] = IF u = t THEN r ELSE scopes[u]
    BY <1>1, <2>1
  <2>4. CASE k = None
    <3>1. UNCHANGED <<result, block, corrupt>>
      BY <1>11, <2>4 DEF FinishNext
    <3> HIDE DEF k
    <3>2. \A u \in All, v \in All : Named(scopes'[u], v) <=> Named(scopes[u], v)
      BY <2>2, <2>3, <2>4, Distinct
    <3>3. \A u \in All, x \in Kids : NamedOnce(scopes[u], x) => NamedOnce(scopes'[u], x)
      BY <2>2, <2>3
    <3>4. OneNode' /\ LinksAcyclic'
      BY <1>1, <3>1, <3>2, <3>3, NodesKept
    <3>5. ASSUME NEW u \in All, pc[u] \in {"join", "take"} PROVE u # t
      BY <2>1, <3>5
    <3>6. Lifecycle'
      BY <1>1, <2>1, <3>1 DEF Lifecycle
    <3>7. WaitsFounded'
      BY <1>1, <2>1, <2>2, <2>3, <3>5 DEF WaitsFounded
    <3> QED
      BY <1>1, <3>1, <3>4, <3>6, <3>7 DEF ThreadInv
  <2>5. CASE k # None
    <3>1. k \in Kids
      BY <2>2, <2>5 DEF Refs
    <3>2. /\ block[k] = "allocated" /\ k # t
          /\ \A u \in All : Named(scopes[u], k) => u = t
      BY <2>2, <3>1, NodeOwner
    <3>3. /\ pc[k] = "done" /\ result' = [result EXCEPT ![k] = "dropped"]
          /\ block' = [block EXCEPT ![k] = "freed"] /\ UNCHANGED corrupt
      BY <1>11, <2>5, <3>2 DEF FinishNext
    <3> HIDE DEF k
    <3>4. ~Named(r, k)
      BY <1>1, <2>2, <3>1 DEF OneNode
    <3>5. /\ \A x \in Kids : x # k => block'[x] = block[x] /\ result'[x] = result[x]
          /\ block'[k] = "freed" /\ result'[k] = "dropped"
      BY <1>1, <3>1, <3>3
    <3>6. Lifecycle'
      BY <1>1, <2>1, <3>1, <3>2, <3>3, <3>5, Distinct DEF Lifecycle
    <3>7. ASSUME NEW x \in All, NEW u \in All
          PROVE  Named(scopes'[u], x) <=> x # k /\ Named(scopes[u], x)
      BY <2>2, <2>3, <3>2, <3>4
    <3>8. ASSUME NEW x \in Kids, NEW u \in All PROVE NamedOnce(scopes'[u], x)
      BY <1>1, <2>2, <2>3 DEF OneNode
    <3>9. OneNode'
      BY <1>1, <3>5, <3>7, <3>8, Distinct DEF OneNode
    <3>10. LinksAcyclic'
      BY <1>1, <3>7, LinksKept
    <3>11. ASSUME NEW u \in All, pc[u] \in {"join", "take"} PROVE u # t
      BY <2>1, <3>11
    <3>12. WaitsFounded'
      BY <1>1, <2>1, <2>2, <2>3, <3>11 DEF WaitsFounded
    <3> QED
      BY <1>1, <3>3, <3>6, <3>9, <3>10, <3>12 DEF ThreadInv
  <2> QED
    BY <2>4, <2>5
<1>12. CASE BodyReturn(t)
  <2>1. pc[t] = "run" /\ scopes[t] = <<>> /\ UNCHANGED <<scopes, block, handle>>
        /\ Goto(t, "exiting", None)
    BY <1>12 DEF BodyReturn, At
  <2>2. t \in Kids => block[t] = "allocated"
    BY <1>1, <2>1 DEF Lifecycle
  <2>3. /\ UNCHANGED corrupt
        /\ t \in Kids => result' = [result EXCEPT ![t] = "set"]
        /\ t \notin Kids => UNCHANGED result
    BY <1>12, <2>2 DEF BodyReturn
  <2>4. /\ \A u \in All : u # t => pc'[u] = pc[u] /\ call'[u] = call[u]
        /\ pc'[t] = "exiting"
    BY <1>1, <2>1 DEF Goto
  <2>5. OneNode' /\ LinksAcyclic'
    BY <1>1, <2>1, NodesKept
  <2>6. Lifecycle'
    BY <1>1, <2>1, <2>2, <2>3, <2>4, Distinct DEF Lifecycle
  <2>7. WaitsFounded'
    BY <1>1, <2>1, <2>4, Distinct DEF WaitsFounded
  <2> QED
    BY <1>1, <2>3, <2>5, <2>6, <2>7 DEF ThreadInv
<1>13. CASE EntryReturn(t)
  <2>1. pc[t] = "exiting" /\ UNCHANGED <<scopes, block, result, handle, corrupt>>
        /\ Goto(t, "done", None)
    BY <1>13 DEF EntryReturn, At, threadVars
  <2>2. /\ \A u \in All : u # t => pc'[u] = pc[u] /\ call'[u] = call[u]
        /\ pc'[t] = "done"
    BY <1>1, <2>1 DEF Goto
  <2>3. OneNode' /\ LinksAcyclic'
    BY <1>1, <2>1, NodesKept
  <2>4. Lifecycle'
    BY <1>1, <2>1, <2>2, Distinct DEF Lifecycle
  <2>5. WaitsFounded'
    BY <1>1, <2>1, <2>2, Distinct DEF WaitsFounded
  <2> QED
    BY <1>1, <2>1, <2>3, <2>4, <2>5 DEF ThreadInv
<1>14. ASSUME NEW c \in Cells, Request(t, c) PROVE ThreadInv'
  <2>1. Goto(t, "lock", c) /\ pc[t] = "run" /\ UNCHANGED <<threadVars, corrupt>>
    BY <1>14 DEF Request, At
  <2> QED
    BY <1>1, <2>1, ThreadKept
<1>15. CASE GuardGet(t)
  <2>1. Goto(t, "read", "mutex") /\ pc[t] = "run" /\ UNCHANGED <<threadVars, corrupt>>
    BY <1>15 DEF GuardGet, At
  <2> QED
    BY <1>1, <2>1, ThreadKept
<1>16. CASE Acquire(t)
  <2>1. pc[t] = "lock" /\ UNCHANGED <<threadVars, corrupt>>
        /\ (Goto(t, "read", call[t]) \/ Goto(t, "run", None))
    BY <1>16 DEF Acquire, At
  <2>2. Goto(t, "read", call[t]) => ThreadInv'
    BY <1>1, <2>1, ThreadKept
  <2>3. Goto(t, "run", None) => ThreadInv'
    BY <1>1, <2>1, ThreadKept
  <2> QED
    BY <2>1, <2>2, <2>3
<1>17. CASE ReadValue(t)
  <2>1. Goto(t, "write", call[t]) /\ pc[t] = "read" /\ UNCHANGED <<threadVars, corrupt>>
    BY <1>17 DEF ReadValue, At
  <2> QED
    BY <1>1, <2>1, ThreadKept
<1>18. CASE WriteValue(t)
  <2>1. Goto(t, "run", None) /\ pc[t] = "write" /\ UNCHANGED <<threadVars, corrupt>>
    BY <1>18 DEF WriteValue, At
  <2> QED
    BY <1>1, <2>1, ThreadKept
<1>19. CASE DropGuard(t)
  <2>1. UNCHANGED <<threadVars, pc, call, corrupt>>
    BY <1>19 DEF DropGuard
  <2>2. OneNode' /\ LinksAcyclic'
    BY <1>1, <2>1, NodesKept DEF threadVars
  <2> QED
    BY <1>1, <2>1, <2>2 DEF ThreadInv, Lifecycle, WaitsFounded, threadVars
<1> QED
  BY <1>3, <1>4, <1>5, <1>6, <1>7, <1>8, <1>9, <1>10, <1>11, <1>12, <1>13, <1>14, <1>15,
     <1>16, <1>17, <1>18, <1>19 DEF Step

-----------------------------------------------------------------------------
(* The invariant and the theorems *)

LEMMA InitIInv == Init => IInv
<1> SUFFICES ASSUME Init PROVE IInv
  OBVIOUS
<1>1. scopes \in [All -> Stacks] /\ \A t \in All : scopes[t] = <<>>
  BY DEF Init, Stacks
<1>2. \A x : ~Named(<<>>, x)
  BY DEF Named
<1>3. \A x : NamedOnce(<<>>, x)
  BY DEF NamedOnce
<1>4. \A t \in All : pc[t] = IF t = Main THEN "run" ELSE "unborn"
  BY DEF Init
<1>5. TypeOK
  <2>1. 0 \in 0..(Modulus - 1)
    BY ScopedAssumption
  <2>2. \A t \in All : -1 \in -1..MaxScopes[t] /\ 0 <= MaxScopes[t]
    BY ScopedAssumption
  <2>3. \A t \in All : Len(scopes[t]) = 0
    BY <1>1
  <2> QED
    <3>1. scopes \in [All -> Seq(Seq(Kids \cup {None}))]
      BY <1>1 DEF Stacks, Refs
    <3>2. \A t \in All : Len(scopes[t]) <= MaxScopes[t]
      BY <2>2, <2>3
    <3>3. guard \in [All -> Int] /\ \A t \in All : guard[t] \in -1..MaxScopes[t]
      BY <2>2 DEF Init
    <3>4. /\ value \in [Cells -> 0..(Modulus - 1)] /\ ideal \in [Cells -> 0..(Modulus - 1)]
          /\ seen \in [All -> 0..(Modulus - 1)]
      BY <2>1 DEF Init
    <3>5. /\ block \in [Kids -> {"none", "allocated", "freed"}]
          /\ result \in [Kids -> {"unset", "set", "moved", "dropped"}]
          /\ handle \subseteq Kids /\ corrupt \in BOOLEAN
          /\ call \in [All -> Kids \cup {None} \cup Cells]
          /\ holder \in [Cells -> All \cup {None}]
      BY DEF Init
    <3>6. pc \in [All -> {"unborn", "run", "finish", "join", "take", "lock", "read",
                         "write", "exiting", "done"}]
      BY DEF Init
    <3> QED
      BY <3>1, <3>2, <3>3, <3>4, <3>5, <3>6 DEF TypeOK
<1>6. Lifecycle
  BY <1>4, Distinct DEF Init, Lifecycle
<1>7. OneNode
  BY <1>1, <1>2, <1>3 DEF Init, OneNode
<1>8. WaitsFounded
  BY <1>1, <1>4 DEF WaitsFounded
<1>9. LinksAcyclic
  BY <1>1, <1>2 DEF LinksAcyclic
<1>10. LocksFounded
  BY <1>4, Distinct DEF Init, LocksFounded
<1>11. CellsExact
  BY <1>4 DEF Init, CellsExact
<1> QED
  BY <1>5, <1>6, <1>7, <1>8, <1>9, <1>10, <1>11 DEF Init, IInv

LEMMA NextIInv == IInv /\ [Next]_vars => IInv'
<1> SUFFICES ASSUME IInv, [Next]_vars PROVE IInv'
  OBVIOUS
<1>1. ASSUME NEW t \in All, Step(t) PROVE IInv'
  <2>1. TypeOK'
    BY <1>1, StepTyped DEF IInv
  <2>2. LocksFounded' /\ CellsExact'
    BY <1>1, StepCells
  <2>3. ThreadInv'
    BY <1>1, StepThreads
  <2> QED
    BY <2>1, <2>2, <2>3 DEF IInv, ThreadInv
<1>2. CASE UNCHANGED vars
  <2>1. UNCHANGED <<scopes, block, result, handle, pc, call, guard, holder, value, seen,
                    ideal, corrupt>>
    BY <1>2 DEF vars, threadVars, cellVars
  <2>2. TypeOK' /\ Lifecycle'
    BY <2>1 DEF IInv, TypeOK, Lifecycle
  <2>3. OneNode' /\ LinksAcyclic'
    BY <2>1, NodesKept DEF IInv
  <2>4. WaitsFounded'
    BY <2>1 DEF IInv, WaitsFounded
  <2>5. LocksFounded' /\ CellsExact'
    BY <2>1 DEF IInv, LocksFounded, CellsExact
  <2> QED
    BY <2>1, <2>2, <2>3, <2>4, <2>5 DEF IInv
<1> QED
  BY <1>1, <1>2 DEF Next

LEMMA SpecIInv == Spec => []IInv
BY InitIInv, NextIInv, PTL DEF Spec

\* A scoped thread runs only while its scope is open; its block is freed by
\* exactly one of join and the end of the scope, and never used after that.
THEOREM ScopesSound == Spec => []ScopeSound
<1>1. ASSUME IInv PROVE ScopeSound
  <2>1. ASSUME NEW k \in Kids, NEW t \in All
        PROVE  Cardinality(ScopesOf(t, k)) = 1 <=> Named(scopes[t], k)
    <3>1. CASE Named(scopes[t], k)
      <4>1. PICK i \in DOMAIN scopes[t] : \E n \in DOMAIN scopes[t][i] : scopes[t][i][n] = k
        BY <3>1 DEF Named
      <4>2. i \in ScopesOf(t, k)
        BY <4>1, Distinct DEF ScopesOf, Members, ToSet
      <4>3. ASSUME NEW j \in ScopesOf(t, k) PROVE j = i
        <5>1. j \in DOMAIN scopes[t] /\ \E n \in DOMAIN scopes[t][j] : scopes[t][j][n] = k
          BY DEF ScopesOf, Members, ToSet
        <5> QED
          BY <1>1, <4>1, <5>1 DEF IInv, OneNode, NamedOnce
      <4>4. ScopesOf(t, k) = {i}
        BY <4>2, <4>3
      <4> QED
        BY <3>1, <4>4, FS_Singleton
    <3>2. CASE ~Named(scopes[t], k)
      <4>1. ScopesOf(t, k) = {}
        BY <3>2, ScopesNamed
      <4>2. Cardinality({}) = 0
        BY FS_EmptySet
      <4> QED
        BY <3>2, <4>1, <4>2
    <3> QED
      BY <3>1, <3>2
  <2>2. ASSUME NEW k \in Kids
        PROVE  block[k] = "allocated" <=> \E t \in All : Cardinality(ScopesOf(t, k)) = 1
    BY <1>1, <2>1 DEF IInv, OneNode
  <2>3. ASSUME NEW k \in Kids
        PROVE  /\ pc[k] \notin {"unborn", "done"} => block[k] = "allocated"
               /\ block[k] = "freed" <=> result[k] \in {"moved", "dropped"}
               /\ pc[k] = "done" /\ block[k] = "allocated" => result[k] = "set"
    BY <1>1 DEF IInv, Lifecycle, TypeOK
  <2> QED
    BY <1>1, <2>2, <2>3 DEF IInv, ScopeSound
<1> QED
  BY <1>1, SpecIInv, PTL

\* No operation on a mutex or an atomic is lost between scoped threads.
THEOREM ScopedCellsExact == Spec => []CellsExact
<1>1. IInv => CellsExact
  BY DEF IInv
<1> QED
  BY <1>1, SpecIInv, PTL

\* Joins, scope ends and locks block each other in a circle only if one of the
\* threads in it keeps a guard while it waits.
THEOREM ScopedBlockedByGuards == Spec => []BlockedByGuards
<1>1. ASSUME IInv, NEW S \in SUBSET All, S # {}, \A t \in S : \E u \in S : WaitsFor(t, u),
             \A t \in S : guard[t] = -1
      PROVE  FALSE
  <2>1. ASSUME NEW t \in S, NEW u \in S, WaitsFor(t, u), pc[t] = "lock" PROVE FALSE
    <3>1. holder[call[t]] = u /\ call[t] \in Cells
      BY <1>1, <2>1 DEF WaitsFor, IInv, LocksFounded
    <3>2. pc[u] \in {"read", "write"}
      BY <1>1, <3>1 DEF IInv, LocksFounded
    <3>3. PICK w \in S : WaitsFor(u, w)
      BY <1>1
    <3> QED
      BY <3>2, <3>3 DEF WaitsFor
  <2>2. ASSUME NEW t \in S, NEW u \in S, WaitsFor(t, u) PROVE Named(scopes[t], u)
    <3>1. CASE pc[t] = "join"
      BY <1>1, <2>2, <3>1 DEF WaitsFor, IInv, WaitsFounded
    <3>2. CASE pc[t] = "finish"
      <4>1. scopes[t] \in Stacks
        BY <1>1, ScopesTyped DEF IInv
      <4>2. scopes[t] # <<>> /\ Head(scopes[t]) # <<>> /\ Head(Head(scopes[t])) = u
        BY <1>1, <2>2, <3>2 DEF WaitsFor, IInv, WaitsFounded
      <4> QED
        BY <4>1, <4>2, UnlinkedStack
    <3> QED
      BY <2>1, <2>2, <3>1, <3>2 DEF WaitsFor
  <2>3. PICK t \in S : \A u \in S : ~Named(scopes[t], u)
    BY <1>1 DEF IInv, LinksAcyclic
  <2> QED
    BY <1>1, <2>2, <2>3
<1>2. IInv => BlockedByGuards
  <2> SUFFICES ASSUME IInv, NEW S \in SUBSET All, S # {},
                      \A t \in S : \E u \in S : WaitsFor(t, u)
               PROVE  \E t \in S : guard[t] # -1
    BY DEF BlockedByGuards
  <2> QED
    BY <1>1
<1> QED
  BY <1>2, SpecIInv, PTL
=============================================================================
