--------------------------- MODULE ThreadsProofs ---------------------------
(***************************************************************************)
(* Native threads for every number of them: until main's body returns no   *)
(* freed block is used, a result is taken once and after the thread ended, *)
(* and a process that exits has waited for every thread.                   *)
(***************************************************************************)
EXTENDS Threads, CommonLemmas, FiniteSetTheorems, SequenceTheorems,
        WellFoundedInduction, TLAPS

-----------------------------------------------------------------------------
(* The registry as a sequence *)

\* A node pushed at the front.
LEMMA PushedNode ==
    ASSUME NEW S, NEW s \in Seq(S), NEW x \in S
    PROVE  /\ <<x>> \o s \in Seq(S) /\ Len(<<x>> \o s) = Len(s) + 1
           /\ Range(<<x>> \o s) = Range(s) \cup {x}
<1> DEFINE a == <<x>> \o s
<1>1. <<x>> \in Seq(S) /\ Len(<<x>>) = 1 /\ <<x>>[1] = x
  OBVIOUS
<1>2. /\ a \in Seq(S) /\ Len(a) = 1 + Len(s) /\ Len(s) \in Nat
      /\ \A i \in 1..(1 + Len(s)) : a[i] = IF i <= 1 THEN <<x>>[i] ELSE s[i - 1]
  BY <1>1, ConcatProperties, LenProperties
<1>3. DOMAIN a = 1..(Len(s) + 1) /\ DOMAIN s = 1..Len(s)
  BY <1>2, LenProperties
<1>4. a[1] = x /\ \A i \in 1..Len(s) : a[i + 1] = s[i]
  BY <1>1, <1>2
<1>5. \A i \in 1..(Len(s) + 1) : i = 1 \/ (i - 1 \in 1..Len(s) /\ a[i] = s[i - 1])
  BY <1>1, <1>2
<1> HIDE DEF a
<1>6. Range(a) = Range(s) \cup {x}
  <2>1. ASSUME NEW y \in Range(a) PROVE y \in Range(s) \cup {x}
    BY <1>3, <1>4, <1>5 DEF Range
  <2>2. ASSUME NEW y \in Range(s) PROVE y \in Range(a)
    <3>1. PICK i \in 1..Len(s) : y = s[i]
      BY <1>3 DEF Range
    <3>2. i + 1 \in 1..(Len(s) + 1) /\ a[i + 1] = y
      BY <1>2, <1>4, <3>1
    <3> QED
      BY <1>3, <3>2 DEF Range
  <2>3. 1 \in 1..(Len(s) + 1)
    BY <1>2
  <2> QED
    BY <1>3, <1>4, <2>1, <2>2, <2>3 DEF Range
<1> QED
  BY <1>2, <1>6 DEF a

-----------------------------------------------------------------------------
(* Steps *)

\* Clearing the first node of the thread loses no other thread's node.
LEMMA Unregistering ==
    ASSUME IInv, NEW t \in All, Unregister(t)
    PROVE  /\ registry' \in Seq(Kids \cup {None}) /\ Len(registry') = Len(registry)
           /\ Range(registry) \ {target[t]} \subseteq Range(registry')
           /\ Range(registry') \subseteq Range(registry) \cup {None}
<1> DEFINE Nodes == Kids \cup {None}
<1>1. registry \in Seq(Nodes) /\ None \in Nodes
  BY DEF IInv, TypeOK
<1> SUFFICES /\ registry' \in Seq(Nodes) /\ Len(registry') = Len(registry)
             /\ Range(registry) \ {target[t]} \subseteq Range(registry')
             /\ Range(registry') \subseteq Range(registry) \cup {None}
  OBVIOUS
<1> HIDE DEF Nodes
<1>2. CASE target[t] \in Range(registry)
  <2> DEFINE S == {i \in DOMAIN registry : registry[i] = target[t]}
             First(i) == registry[i] = target[t] /\ \A j \in 1..(i - 1) : registry[j] # target[t]
             i0 == CHOOSE i \in DOMAIN registry : First(i)
  <2>1. DOMAIN registry = 1..Len(registry) /\ Len(registry) \in Nat
    BY <1>1, LenProperties
  <2>2. S # {} /\ S \subseteq Nat
    BY <1>2, <2>1 DEF Range
  <2>3. PICK i \in S : \A j \in S : i <= j
    <3> HIDE DEF S
    <3> QED
      BY <2>2, FirstIndex
  <2>4. i \in DOMAIN registry /\ First(i)
    <3>1. ASSUME NEW j \in 1..(i - 1) PROVE registry[j] # target[t]
      <4>1. j \in DOMAIN registry /\ ~(i <= j)
        BY <2>1, <2>3
      <4> QED
        BY <2>3, <4>1
    <3> QED
      BY <2>3, <3>1
  <2>5. i0 \in DOMAIN registry /\ First(i0)
    BY <2>4
  <2>6. registry' = [registry EXCEPT ![i0] = None]
    BY <1>2 DEF Unregister
  <2>7. PICK n \in 1..Len(registry) :
            registry[n] = target[t] /\ registry' = [registry EXCEPT ![n] = None]
    BY <2>1, <2>5, <2>6
  <2>8. /\ registry' \in Seq(Nodes) /\ Len(registry') = Len(registry)
        /\ \A j \in 1..Len(registry) : registry'[j] = IF j = n THEN None ELSE registry[j]
    BY <1>1, <2>7, ExceptSeq
  <2>9. DOMAIN registry' = 1..Len(registry)
    BY <2>8, LenProperties
  <2> QED
    BY <2>1, <2>7, <2>8, <2>9 DEF Range
<1>3. CASE target[t] \notin Range(registry)
  BY <1>1, <1>3 DEF Unregister
<1> QED
  BY <1>2, <1>3

LEMMA InitIInv == Init => IInv
<1> SUFFICES ASSUME Init PROVE IInv
  OBVIOUS
<1>1. /\ registry \in Seq(Kids \cup {None}) /\ Len(registry) = 0
      /\ Range(registry) = {}
  BY EmptySeq DEF Init, Range
<1>2. /\ pc \in [All -> PCs] /\ pc[Main] = "run" /\ \A k \in Kids : pc[k] = "unborn"
      /\ \A t \in All : pc[t] \in {"run", "unborn"}
  BY ThreadsAssumption DEF Init, PCs, All
<1>3. Cardinality(Kids) \in Nat /\ Cardinality({}) = 0
  BY ThreadsAssumption, FS_CardinalityType, FS_EmptySet
<1>4. TypeOK
  <2>1. Len(registry) <= Cardinality(Kids)
    BY <1>1, <1>3
  <2> QED
    BY <1>1, <1>2, <2>1 DEF Init, TypeOK
<1>5. Lifecycle /\ CallsFounded /\ BlocksHeld /\ BlocksReached /\ ExitWaitsForThreads
  BY <1>1, <1>2
     DEF Init, Lifecycle, CallsFounded, BlocksHeld, BlocksReached, ExitWaitsForThreads, Claims
<1>6. NamedOnce
  BY <1>2 DEF Init, NamedOnce, Registers, Joins, Claims
<1>7. RegistersAcyclic
  BY <1>2 DEF RegistersAcyclic, Registers, All
<1>8. RegistryCounted
  <2>1. Registered = {}
    BY <1>2 DEF Registered
  <2> QED
    BY <1>1, <1>3, <2>1 DEF RegistryCounted
<1> QED
  BY <1>4, <1>5, <1>6, <1>7, <1>8 DEF IInv

\* A step that creates and registers nothing keeps the two parts that are only
\* about registrations.
LEMMA RegistrationsKept ==
    ASSUME IInv, Len(registry') = Len(registry),
           \A k \in Kids : pc'[k] = "unborn" <=> pc[k] = "unborn",
           \A t \in All, k \in Kids : Registers(t, k)' <=> Registers(t, k)
    PROVE  RegistersAcyclic' /\ RegistryCounted'
<1>1. RegistersAcyclic'
  BY DEF IInv, RegistersAcyclic, All
<1>2. Registered' = Registered
  BY DEF Registered
<1> QED
  BY <1>1, <1>2 DEF IInv, RegistryCounted

\* A step on a freed block changes nothing but the verdict.
LEMMA CorruptsKeeps ==
    ASSUME IInv, NEW k, Corrupts(k), shutdown
    PROVE  IInv'
<1> USE DEF IInv, Corrupts, stateVars
<1>1. TypeOK' /\ Lifecycle' /\ CallsFounded' /\ BlocksHeld' /\ ExitWaitsForThreads'
  BY DEF TypeOK, Lifecycle, CallsFounded, BlocksHeld, ExitWaitsForThreads
<1>2. NamedOnce' /\ BlocksReached'
  BY DEF NamedOnce, BlocksReached, Registers, Joins, Claims
<1>3. RegistersAcyclic' /\ RegistryCounted'
  BY RegistrationsKept DEF Registers
<1> QED
  BY <1>1, <1>2, <1>3

\* Finitely many nodes, as many as there are registered threads.
LEMMA RegistryBounded ==
    RegistryCounted => Len(registry) <= Cardinality(Kids) /\ IsFiniteSet(Registered)
<1>1. Registered \in SUBSET Kids
  BY DEF Registered
<1> QED
  BY <1>1, ThreadsAssumption, FS_Subset DEF RegistryCounted

\* spawn: the new thread is created.
LEMMA SpawnCreateKeeps ==
    ASSUME IInv, NEW t \in All, NEW k \in Kids, SpawnCreate(t, k)
    PROVE  IInv'
<1> USE DEF IInv
<1>1. /\ pc \in [All -> PCs] /\ target \in [All -> Kids \cup {None}]
      /\ block \in [Kids -> {"none", "allocated", "freed"}]
      /\ k \in All /\ pc[t] = "run" /\ pc[k] = "unborn" /\ t # k /\ ~exited /\ ~corrupt
      /\ block' = [block EXCEPT ![k] = "allocated"]
      /\ pc' = [pc EXCEPT ![t] = "register", ![k] = "run"]
      /\ target' = [target EXCEPT ![t] = k]
      /\ UNCHANGED <<registry, joined, finished, result, join_lock, handle, shutdown, exited, corrupt>>
  BY DEF SpawnCreate, At, TypeOK, All
<1>2. /\ pc'[t] = "register" /\ target'[t] = k /\ pc'[k] = "run"
      /\ \A u \in All \ {t, k} : pc'[u] = pc[u]
      /\ \A u \in All \ {t} : target'[u] = target[u]
      /\ block'[k] = "allocated" /\ \A j \in Kids \ {k} : block'[j] = block[j]
  BY <1>1
<1>3. \A u \in All : pc[u] \in {"register", "lock", "wait", "unregister", "claim"} => target[u] # k
  BY <1>1 DEF CallsFounded
<1>4. block[k] = "none" /\ handle[k] = None /\ k \notin Range(registry) /\ ~joined[k]
  BY <1>1 DEF Lifecycle
<1>5. /\ \A u \in All : Registers(u, k)' <=> u = t
      /\ \A u \in All, j \in Kids \ {k} : Registers(u, j)' <=> Registers(u, j)
      /\ \A u \in All, j \in Kids : Claims(u, j)' <=> Claims(u, j)
      /\ \A u \in All : ~Claims(u, k) /\ ~Registers(u, k)
      /\ \A u \in All, j \in Kids : Joins(u, j)' <=> Joins(u, j)
  BY <1>1, <1>2, <1>3 DEF Registers, Claims, Joins
<1>6. TypeOK'
  <2>1. pc' \in [All -> PCs]
    BY <1>1 DEF PCs
  <2> QED
    BY <1>1, <2>1 DEF TypeOK
<1>7. Lifecycle'
  <2> SUFFICES ASSUME NEW j \in Kids
               PROVE  /\ block'[j] = "none" <=> pc'[j] = "unborn"
                      /\ pc'[j] = "unborn" => handle'[j] = None /\ j \notin Range(registry')
                      /\ block'[j] = "freed" => joined'[j] /\ result'[j] \in {"moved", "dropped"}
                      /\ joined'[j] => pc'[j] = "done"
                      /\ pc'[j] = "done" => finished'[j]
                      /\ block'[j] = "allocated" /\ pc'[j] \in {"exiting", "done"}
                            => result'[j] = "set"
    BY DEF Lifecycle
  <2>1. CASE j = k
    BY <1>1, <1>2, <1>4, <2>1
  <2>2. CASE j # k /\ j = t
    BY <1>1, <1>2, <2>2 DEF Lifecycle
  <2>3. CASE j # k /\ j # t
    <3>1. pc'[j] = pc[j] /\ block'[j] = block[j]
      BY <1>2, <2>3 DEF All
    <3> QED
      BY <1>1, <3>1 DEF Lifecycle
  <2> QED
    BY <2>1, <2>2, <2>3
<1>8. CallsFounded'
  <2>1. \A u \in All : pc[u] \in {"register", "lock", "wait", "unregister", "claim"} => target[u] \in All
    BY DEF CallsFounded, All
  <2> QED
    BY <1>1, <1>2, <1>3, <2>1 DEF CallsFounded
<1>9. NamedOnce'
  BY <1>1, <1>2, <1>4, <1>5 DEF NamedOnce
<1>10. BlocksHeld'
  BY <1>1, <1>2, <1>4, <1>5 DEF BlocksHeld
<1>11. BlocksReached'
  <2>1. ASSUME NEW u \in All, NEW j \in Kids \ {k}, pc[u] = "claim" /\ target[u] = j
        PROVE  pc'[u] = "claim" /\ target'[u] = j
    BY <1>1, <1>2, <2>1
  <2> QED
    BY <1>1, <1>2, <1>5, <2>1 DEF BlocksReached
<1>12. RegistersAcyclic'
  <2> SUFFICES ASSUME NEW S \in SUBSET Kids, S # {}
               PROVE  \E j \in S : \A u \in S : ~Registers(u, j)'
    BY DEF RegistersAcyclic
  <2>1. \A u \in Kids : u \in All
    BY DEF All
  <2>2. \A j \in Kids : ~Registers(k, j)'
    BY <1>2 DEF Registers
  <2>3. CASE S = {k}
    BY <2>2, <2>3
  <2>4. CASE S # {k}
    <3>1. PICK j \in S \ {k} : \A u \in S \ {k} : ~Registers(u, j)
      BY <2>4 DEF RegistersAcyclic
    <3> QED
      BY <1>5, <2>1, <2>2, <3>1
  <2> QED
    BY <2>3, <2>4
<1>13. RegistryCounted'
  <2>1. Registered' = Registered
    <3>1. \A j \in Kids \ {k} : pc'[j] = "unborn" <=> pc[j] = "unborn"
      BY <1>1, <1>2 DEF All
    <3>2. k \notin Registered /\ k \notin Registered'
      BY <1>1, <1>5 DEF Registered
    <3>3. \A j \in Kids \ {k} : j \in Registered' <=> j \in Registered
      BY <1>5, <3>1 DEF Registered
    <3>4. Registered \subseteq Kids /\ Registered' \subseteq Kids
      BY DEF Registered
    <3> QED
      BY <3>2, <3>3, <3>4
  <2> QED
    BY <1>1, <2>1 DEF RegistryCounted
<1>14. ExitWaitsForThreads'
  BY <1>1 DEF ExitWaitsForThreads
<1> QED
  BY <1>6, <1>7, <1>8, <1>9, <1>10, <1>11, <1>12, <1>13, <1>14

\* spawn: the new thread is registered and its handle handed out.
LEMMA SpawnRegisterKeeps ==
    ASSUME IInv, NEW t \in All, SpawnRegister(t)
    PROVE  IInv'
<1> USE DEF IInv
<1>k. PICK k \in Kids : target[t] = k
  BY DEF SpawnRegister, At, CallsFounded
<1>1. /\ pc \in [All -> PCs] /\ target \in [All -> Kids \cup {None}]
      /\ handle \in [Kids -> All \cup {None}] /\ registry \in Seq(Kids \cup {None})
      /\ pc[t] = "register" /\ ~exited /\ ~corrupt
      /\ pc' = [pc EXCEPT ![t] = "run"] /\ target' = [target EXCEPT ![t] = None]
      /\ registry' = <<k>> \o registry /\ handle' = [handle EXCEPT ![k] = t]
      /\ UNCHANGED <<block, joined, finished, result, join_lock, shutdown, exited, corrupt>>
  BY <1>k DEF SpawnRegister, At, Goto, TypeOK, stateVars
<1>2. target[t] = k /\ pc[k] # "unborn" /\ Registers(t, k)
  BY <1>1, <1>k DEF CallsFounded, Registers
<1>3. /\ \A u \in All : u # t => ~Registers(u, k)
      /\ \A u \in All : ~Claims(u, k)
      /\ handle[k] = None /\ k \notin Range(registry) /\ block[k] = "allocated"
  BY <1>2 DEF NamedOnce
<1>4. /\ pc'[t] = "run" /\ \A u \in All \ {t} : pc'[u] = pc[u] /\ target'[u] = target[u]
      /\ handle'[k] = t /\ \A j \in Kids \ {k} : handle'[j] = handle[j]
      /\ Kids \subseteq All
  BY <1>1, <1>2 DEF All
<1>5. /\ \A u \in All : ~Registers(u, k)'
      /\ \A u \in All, j \in Kids \ {k} : Registers(u, j)' <=> Registers(u, j)
      /\ \A u \in All, j \in Kids : Claims(u, j)' <=> Claims(u, j)
      /\ \A u \in All, j \in Kids : Joins(u, j)' <=> Joins(u, j)
  <2>1. \A j \in Kids : ~Registers(t, j)' /\ ~Claims(t, j)' /\ ~Claims(t, j) /\ ~Joins(t, j)'
    BY <1>1, <1>4 DEF Registers, Claims, Joins
  <2>2. \A u \in All \ {t}, j \in Kids :
            /\ Registers(u, j)' <=> Registers(u, j)
            /\ Claims(u, j)' <=> Claims(u, j)
            /\ Joins(u, j)' <=> Joins(u, j)
    BY <1>1, <1>4 DEF Registers, Claims, Joins
  <2>3. \A j \in Kids \ {k} : ~Registers(t, j)
    BY <1>2 DEF Registers
  <2>4. \A j \in Kids : ~Joins(t, j)
    BY <2>1 DEF Joins
  <2> QED
    BY <1>3, <2>1, <2>2, <2>3, <2>4
<1>6. /\ registry' \in Seq(Kids \cup {None}) /\ Len(registry') = Len(registry) + 1
      /\ Range(registry') = Range(registry) \cup {k}
  <2> DEFINE Nodes == Kids \cup {None}
  <2>1. registry \in Seq(Nodes) /\ k \in Nodes
    BY <1>1
  <2> HIDE DEF Nodes
  <2>2. <<k>> \o registry \in Seq(Nodes) /\ Len(<<k>> \o registry) = Len(registry) + 1
        /\ Range(<<k>> \o registry) = Range(registry) \cup {k}
    BY <2>1, PushedNode
  <2> QED
    BY <1>1, <2>2 DEF Nodes
<1>7. RegistryCounted'
  <2>1. \A j \in Kids : pc'[j] = "unborn" <=> pc[j] = "unborn"
    BY <1>1, <1>4
  <2>2. k \notin Registered /\ Registered' = Registered \cup {k}
    <3>1. k \notin Registered /\ k \in Registered'
      BY <1>2, <1>5, <2>1 DEF Registered
    <3>2. \A j \in Kids \ {k} : j \in Registered' <=> j \in Registered
      BY <1>5, <2>1 DEF Registered
    <3>3. Registered \subseteq Kids /\ Registered' \subseteq Kids
      BY DEF Registered
    <3> QED
      BY <1>2, <3>1, <3>2, <3>3
  <2>3. Cardinality(Registered \cup {k}) = Cardinality(Registered) + 1
    BY <2>2, RegistryBounded, CardinalityStep
  <2> QED
    BY <1>6, <2>2, <2>3 DEF RegistryCounted
<1>8. TypeOK'
  <2>1. pc' \in [All -> PCs] /\ handle' \in [Kids -> All \cup {None}]
    BY <1>1 DEF PCs
  <2>2. Len(registry') <= Cardinality(Kids)
    <3>1. RegistryCounted' => Len(registry') <= Cardinality(Kids)
      BY FS_Subset, ThreadsAssumption DEF Registered, RegistryCounted
    <3> QED
      BY <1>7, <3>1
  <2> QED
    BY <1>1, <1>6, <2>1, <2>2 DEF TypeOK
<1>9. Lifecycle'
  <2>1. \A j \in Kids : \/ j # t /\ pc'[j] = pc[j]
                        \/ j = t /\ pc[j] = "register" /\ pc'[j] = "run"
    BY <1>1, <1>4
  <2> QED
    BY <1>1, <1>2, <1>4, <1>6, <2>1, SMTT(30) DEF Lifecycle
<1>10. CallsFounded'
  BY <1>1, <1>4 DEF CallsFounded
<1>11. NamedOnce'
  <2>1. \A u \in All : ~Joins(u, k)
    BY <1>3 DEF Joins
  <2> SUFFICES ASSUME NEW j \in Kids
               PROVE  /\ \A u, v \in All : Registers(u, j)' /\ Registers(v, j)' => u = v
                      /\ \A u, v \in All : Joins(u, j)' /\ Joins(v, j)' => u = v
                      /\ \A u \in All : Registers(u, j)' =>
                            /\ handle'[j] = None /\ j \notin Range(registry')
                            /\ block'[j] = "allocated"
                            /\ \A v \in All : ~Claims(v, j)'
                      /\ \A u \in All : Joins(u, j)' => handle'[j] = None
    BY DEF NamedOnce
  <2>2. CASE j = k
    BY <1>5, <2>1, <2>2
  <2>3. CASE j # k
    BY <1>1, <1>4, <1>5, <1>6, <2>3 DEF NamedOnce
  <2> QED
    BY <2>2, <2>3
<1>12. BlocksHeld'
  BY <1>1, <1>3, <1>4, <1>5 DEF BlocksHeld
<1>13. BlocksReached'
  <2>1. \A u \in All, j \in Kids : pc[u] = "claim" /\ target[u] = j
                                 => pc'[u] = "claim" /\ target'[u] = j
    BY <1>1, <1>4
  <2> QED
    BY <1>1, <1>5, <1>6, <2>1 DEF BlocksReached
<1>14. RegistersAcyclic'
  <2>1. \A u \in All, j \in Kids : Registers(u, j)' => Registers(u, j)
    BY <1>1, <1>4 DEF Registers
  <2> QED
    BY <1>4, <2>1 DEF RegistersAcyclic
<1>15. ExitWaitsForThreads'
  BY <1>1 DEF ExitWaitsForThreads
<1> QED
  BY <1>7, <1>8, <1>9, <1>10, <1>11, <1>12, <1>13, <1>14, <1>15

\* A handle moves to another thread or is dropped.
LEMMA HandlesKeep ==
    ASSUME IInv, NEW t \in All, NEW k \in Kids,
           DropHandle(t, k) \/ \E u \in All : MoveHandle(t, u, k)
    PROVE  IInv'
<1> USE DEF IInv
<1>1. /\ handle[k] = t /\ ~exited /\ ~corrupt /\ t # None
      /\ \E u \in All \cup {None} : handle' = [handle EXCEPT ![k] = u]
      /\ UNCHANGED <<registry, stateVars, pc, target, shutdown, exited, corrupt>>
  BY ThreadsAssumption DEF DropHandle, MoveHandle, At, All
<1>2. /\ handle \in [Kids -> All \cup {None}] /\ handle' \in [Kids -> All \cup {None}]
      /\ \A j \in Kids \ {k} : handle'[j] = handle[j]
  BY <1>1 DEF TypeOK
<1>3. TypeOK'
  BY <1>1, <1>2 DEF TypeOK, stateVars
<1>4. Lifecycle' /\ CallsFounded' /\ ExitWaitsForThreads'
  BY <1>1, <1>2 DEF Lifecycle, CallsFounded, ExitWaitsForThreads, stateVars
<1>5. /\ \A u \in All, j \in Kids : Registers(u, j)' <=> Registers(u, j)
      /\ \A u \in All, j \in Kids : Claims(u, j)' <=> Claims(u, j)
      /\ \A u \in All, j \in Kids : Joins(u, j)' <=> Joins(u, j)
  BY <1>1 DEF Registers, Claims, Joins
<1>6. \A u \in All : ~Registers(u, k) /\ ~Joins(u, k)
  BY <1>1 DEF NamedOnce
<1>7. NamedOnce'
  BY <1>1, <1>2, <1>5, <1>6 DEF NamedOnce, stateVars
<1>8. BlocksHeld'
  BY <1>1, <1>2, <1>5 DEF BlocksHeld, stateVars
<1>9. BlocksReached'
  BY <1>1, <1>5 DEF BlocksReached, stateVars
<1>10. RegistersAcyclic' /\ RegistryCounted'
  BY <1>1, <1>5, RegistrationsKept
<1> QED
  BY <1>3, <1>4, <1>7, <1>8, <1>9, <1>10

-----------------------------------------------------------------------------
(* Steps that neither create nor register a thread *)

\* What such a step of t does to the places of the threads.
LEMMA GotoEffect ==
    ASSUME IInv, NEW t \in All, NEW w \in PCs \ {"register", "unborn"}, NEW k,
           pc[t] \notin {"register", "unborn"}, k \in Kids \/ k = None, Goto(t, w, k)
    PROVE  /\ pc' \in [All -> PCs] /\ target' \in [All -> Kids \cup {None}]
           /\ pc'[t] = w /\ target'[t] = k
           /\ \A u \in All \ {t} : pc'[u] = pc[u] /\ target'[u] = target[u]
           /\ \A u \in All, j \in Kids : Registers(u, j)' <=> Registers(u, j)
           /\ \A u \in All \ {t}, j \in Kids : Claims(u, j)' <=> Claims(u, j)
           /\ \A j \in Kids : pc'[j] = "unborn" <=> pc[j] = "unborn"
<1>1. /\ pc \in [All -> PCs] /\ target \in [All -> Kids \cup {None}]
      /\ pc' = [pc EXCEPT ![t] = w] /\ target' = [target EXCEPT ![t] = k]
  BY DEF IInv, TypeOK, Goto
<1>2. /\ pc' \in [All -> PCs] /\ target' \in [All -> Kids \cup {None}]
      /\ pc'[t] = w /\ target'[t] = k
      /\ \A u \in All \ {t} : pc'[u] = pc[u] /\ target'[u] = target[u]
  BY <1>1
<1>3. \A j \in Kids : ~Registers(t, j) /\ ~Registers(t, j)'
  BY <1>2 DEF Registers
<1>4. \A u \in All \ {t}, j \in Kids :
          /\ Registers(u, j)' <=> Registers(u, j)
          /\ Claims(u, j)' <=> Claims(u, j)
  BY <1>2 DEF Registers, Claims
<1>5. \A j \in Kids : pc'[j] = "unborn" <=> pc[j] = "unborn"
  BY <1>1 DEF All
<1> QED
  BY <1>2, <1>3, <1>4, <1>5

\* The body of k returns, and later its entry function.
LEMMA ThreadEndsKeeps ==
    ASSUME IInv, NEW k \in Kids, BodyReturn(k) \/ EntryReturn(k)
    PROVE  IInv'
<1> USE DEF IInv
<1>1. k \in All /\ k # Main /\ pc[k] \in {"run", "exiting"} /\ ~exited /\ ~corrupt
  BY ThreadsAssumption DEF BodyReturn, EntryReturn, At, All
<1>2. ~Corrupts(k) /\ block[k] = "allocated"
  BY <1>1 DEF Lifecycle, Corrupts, TypeOK
<1>3. /\ UNCHANGED <<registry, block, joined, join_lock, shutdown, exited, corrupt>>
      /\ finished \in [Kids -> BOOLEAN] /\ handle \in [Kids -> All \cup {None}]
      /\ result \in [Kids -> {"unset", "set", "moved", "dropped"}]
      /\ \/ /\ pc[k] = "run" /\ result' = [result EXCEPT ![k] = "set"]
            /\ DetachAll(k) /\ Goto(k, "exiting", None) /\ finished' = finished
         \/ /\ pc[k] = "exiting" /\ finished' = [finished EXCEPT ![k] = TRUE]
            /\ Goto(k, "done", None) /\ UNCHANGED <<result, handle>>
  BY <1>2 DEF BodyReturn, EntryReturn, At, TypeOK
<1>4. PICK w \in {"exiting", "done"} : Goto(k, w, None) /\ (w = "done" <=> pc[k] = "exiting")
  BY <1>3
<1>5. w \in PCs \ {"register", "unborn"}
  BY DEF PCs
<1>6. /\ pc' \in [All -> PCs] /\ target' \in [All -> Kids \cup {None}]
      /\ pc'[k] = w /\ target'[k] = None
      /\ \A u \in All \ {k} : pc'[u] = pc[u] /\ target'[u] = target[u]
      /\ \A u \in All, j \in Kids : Registers(u, j)' <=> Registers(u, j)
      /\ \A u \in All \ {k}, j \in Kids : Claims(u, j)' <=> Claims(u, j)
      /\ \A j \in Kids : pc'[j] = "unborn" <=> pc[j] = "unborn"
  BY <1>1, <1>4, <1>5, GotoEffect
<1>7. /\ result' \in [Kids -> {"unset", "set", "moved", "dropped"}]
      /\ finished' \in [Kids -> BOOLEAN] /\ handle' \in [Kids -> All \cup {None}]
      /\ \A j \in Kids : handle'[j] \in {handle[j], None}
      /\ \A j \in Kids \ {k} : result'[j] = result[j] /\ finished'[j] = finished[j]
      /\ pc[k] = "run" => result'[k] = "set"
      /\ pc[k] = "exiting" => finished'[k] /\ result'[k] = result[k]
  BY <1>3 DEF DetachAll
<1>8. /\ \A j \in Kids : ~Claims(k, j) /\ ~Claims(k, j)'
      /\ \A u \in All, j \in Kids : Claims(u, j)' <=> Claims(u, j)
  <2>1. \A j \in Kids : ~Claims(k, j) /\ ~Claims(k, j)'
    BY <1>1, <1>6 DEF Claims
  <2> QED
    BY <1>6, <2>1
<1>9. \A u \in All, j \in Kids : Joins(u, j)' <=> Joins(u, j)
  BY <1>3, <1>8 DEF Joins
<1>10. TypeOK'
  BY <1>3, <1>6, <1>7 DEF TypeOK
<1>11. Lifecycle'
  <2> SUFFICES ASSUME NEW j \in Kids
               PROVE  /\ block'[j] = "none" <=> pc'[j] = "unborn"
                      /\ pc'[j] = "unborn" => handle'[j] = None /\ j \notin Range(registry')
                      /\ block'[j] = "freed" => joined'[j] /\ result'[j] \in {"moved", "dropped"}
                      /\ joined'[j] => pc'[j] = "done"
                      /\ pc'[j] = "done" => finished'[j]
                      /\ block'[j] = "allocated" /\ pc'[j] \in {"exiting", "done"}
                            => result'[j] = "set"
    BY DEF Lifecycle
  <2>1. CASE j = k
    BY <1>1, <1>2, <1>3, <1>4, <1>6, <1>7, <2>1 DEF Lifecycle
  <2>2. CASE j # k
    <3>1. pc'[j] = pc[j]
      BY <1>6, <2>2 DEF All
    <3> QED
      BY <1>3, <1>6, <1>7, <2>2, <3>1 DEF Lifecycle
  <2> QED
    BY <2>1, <2>2
<1>12. CallsFounded'
  BY <1>3, <1>6 DEF CallsFounded
<1>13. NamedOnce'
  BY <1>3, <1>6, <1>7, <1>8, <1>9 DEF NamedOnce
<1>14. BlocksHeld'
  BY <1>3, <1>7, <1>8 DEF BlocksHeld
<1>15. BlocksReached'
  <2>1. \A u \in All, j \in Kids : pc[u] = "claim" /\ target[u] = j
                                 => pc'[u] = "claim" /\ target'[u] = j
    BY <1>1, <1>6
  <2> QED
    BY <1>3, <1>6, <2>1 DEF BlocksReached
<1>16. RegistersAcyclic' /\ RegistryCounted'
  BY <1>3, <1>6, RegistrationsKept
<1>17. ExitWaitsForThreads'
  BY <1>1, <1>3 DEF ExitWaitsForThreads
<1> QED
  BY <1>10, <1>11, <1>12, <1>13, <1>14, <1>15, <1>16, <1>17

\* join consumes the handle.
LEMMA JoinKeeps ==
    ASSUME IInv, NEW t \in All, NEW k \in Kids, Join(t, k)
    PROVE  IInv'
<1> USE DEF IInv
<1>1. pc[t] = "run" /\ handle[k] = t /\ t # None /\ ~exited /\ ~corrupt
  BY ThreadsAssumption DEF Join, At, All
<1>2. CASE Corrupts(k)
  <2>1. shutdown
    BY <1>1, <1>2 DEF BlocksHeld, Corrupts
  <2> QED
    BY <1>2, <2>1, CorruptsKeeps
<1>3. CASE ~Corrupts(k)
  <2>1. /\ block[k] # "freed" /\ handle' = [handle EXCEPT ![k] = None] /\ Goto(t, "lock", k)
        /\ handle \in [Kids -> All \cup {None}]
        /\ UNCHANGED <<registry, stateVars, shutdown, exited, corrupt>>
    BY <1>3 DEF Join, TypeOK
  <2>2. /\ pc' \in [All -> PCs] /\ target' \in [All -> Kids \cup {None}]
        /\ pc'[t] = "lock" /\ target'[t] = k
        /\ \A u \in All \ {t} : pc'[u] = pc[u] /\ target'[u] = target[u]
        /\ \A u \in All, j \in Kids : Registers(u, j)' <=> Registers(u, j)
        /\ \A u \in All \ {t}, j \in Kids : Claims(u, j)' <=> Claims(u, j)
        /\ \A j \in Kids : pc'[j] = "unborn" <=> pc[j] = "unborn"
    <3>1. "lock" \in PCs \ {"register", "unborn"} /\ pc[t] \notin {"register", "unborn"}
      BY <1>1 DEF PCs
    <3> QED
      BY <2>1, <3>1, GotoEffect
  <2>3. /\ handle' \in [Kids -> All \cup {None}] /\ handle'[k] = None
        /\ \A j \in Kids \ {k} : handle'[j] = handle[j]
    BY <2>1
  <2>4. /\ \A u \in All : ~Registers(u, k) /\ ~Joins(u, k)
        /\ \A j \in Kids \ {k} : ~Claims(t, j)'
        /\ \A j \in Kids : ~Claims(t, j)
    BY <1>1, <2>2 DEF NamedOnce, Claims
  <2>5. \A u \in All \ {t}, j \in Kids : Joins(u, j)' <=> Joins(u, j)
    BY <2>1, <2>2 DEF Joins
  <2>6. TypeOK'
    BY <2>1, <2>2, <2>3 DEF TypeOK, stateVars
  <2>7. pc[k] # "unborn" /\ \A j \in Kids : j # t => pc'[j] = pc[j]
    BY <1>1, <2>2 DEF Lifecycle, All
  <2>8. Lifecycle'
    BY <1>1, <2>1, <2>2, <2>3, <2>7 DEF Lifecycle, stateVars
  <2>9. CallsFounded'
    BY <1>1, <2>1, <2>2, <2>7 DEF CallsFounded, stateVars
  <2>10. NamedOnce'
    <3> SUFFICES ASSUME NEW j \in Kids
                 PROVE  /\ \A u, v \in All : Registers(u, j)' /\ Registers(v, j)' => u = v
                        /\ \A u, v \in All : Joins(u, j)' /\ Joins(v, j)' => u = v
                        /\ \A u \in All : Registers(u, j)' =>
                              /\ handle'[j] = None /\ j \notin Range(registry')
                              /\ block'[j] = "allocated"
                              /\ \A v \in All : ~Claims(v, j)'
                        /\ \A u \in All : Joins(u, j)' => handle'[j] = None
      BY DEF NamedOnce
    <3>1. CASE j = k
      BY <2>2, <2>3, <2>4, <2>5, <3>1
    <3>2. CASE j # k
      <4>1. ~Joins(t, j)'
        BY <2>4, <3>2 DEF Joins
      <4> QED
        BY <2>1, <2>2, <2>3, <2>4, <2>5, <3>2, <4>1 DEF NamedOnce, stateVars
    <3> QED
      BY <3>1, <3>2
  <2>11. BlocksHeld'
    <3>1. ~shutdown => block[k] = "allocated"
      BY <1>1 DEF BlocksHeld
    <3> QED
      BY <1>1, <2>1, <2>2, <2>3, <2>4, <3>1 DEF BlocksHeld, stateVars
  <2>12. BlocksReached'
    <3>1. \A u \in All, j \in Kids : pc[u] = "claim" /\ target[u] = j
                                   => pc'[u] = "claim" /\ target'[u] = j
      BY <1>1, <2>2
    <3> QED
      BY <2>1, <2>2, <3>1 DEF BlocksReached, stateVars
  <2>13. RegistersAcyclic' /\ RegistryCounted'
    BY <2>1, <2>2, RegistrationsKept
  <2>14. ExitWaitsForThreads'
    BY <1>1, <2>1 DEF ExitWaitsForThreads
  <2> QED
    BY <2>6, <2>8, <2>9, <2>10, <2>11, <2>12, <2>13, <2>14
<1> QED
  BY <1>2, <1>3

\* join and the shutdown up to the point where the result is taken: lock, wait
\* for the thread, unregister it.
LEMMA StagesKeep ==
    ASSUME IInv, NEW t \in All, LockJoin(t) \/ AwaitThread(t) \/ Unregister(t)
    PROVE  IInv'
<1> USE DEF IInv
<1>1. pc[t] \in {"lock", "wait", "unregister"} /\ ~exited /\ ~corrupt
  BY DEF LockJoin, AwaitThread, Unregister, At
<1>2. PICK k \in Kids : target[t] = k /\ pc[k] # "unborn" /\ Claims(t, k)
  BY <1>1 DEF CallsFounded, Claims
<1>3. CASE Corrupts(k)
  <2>1. shutdown
    BY <1>1, <1>2, <1>3 DEF BlocksHeld, Corrupts
  <2> QED
    BY <1>3, <2>1, CorruptsKeeps
<1>4. CASE ~Corrupts(k)
  <2>1. /\ UNCHANGED <<block, finished, result, handle, shutdown, exited, corrupt>>
        /\ joined \in [Kids -> BOOLEAN] /\ join_lock \in [Kids -> All \cup {None}]
        /\ \/ pc[t] = "lock" /\ Goto(t, "wait", k) /\ UNCHANGED <<registry, joined>>
           \/ /\ pc[t] = "wait" /\ Goto(t, "unregister", k) /\ UNCHANGED registry
              /\ joined[k] \/ pc[k] = "done"
              /\ joined' = [joined EXCEPT ![k] = TRUE]
           \/ pc[t] = "unregister" /\ Goto(t, "claim", k) /\ UNCHANGED joined
    BY <1>2, <1>4 DEF LockJoin, AwaitThread, Unregister, At, TypeOK, stateVars
  <2>2. PICK w \in {"wait", "unregister", "claim"} :
            /\ Goto(t, w, k)
            /\ w = "unregister" => pc[k] = "done" /\ joined' = [joined EXCEPT ![k] = TRUE]
            /\ w # "unregister" => joined' = joined
            /\ w = "claim" => pc[t] = "unregister"
            /\ w # "claim" => registry' = registry
    BY <1>2, <2>1 DEF Lifecycle
  <2>3. /\ pc' \in [All -> PCs] /\ target' \in [All -> Kids \cup {None}]
        /\ pc'[t] = w /\ target'[t] = k
        /\ \A u \in All \ {t} : pc'[u] = pc[u] /\ target'[u] = target[u]
        /\ \A u \in All, j \in Kids : Registers(u, j)' <=> Registers(u, j)
        /\ \A u \in All \ {t}, j \in Kids : Claims(u, j)' <=> Claims(u, j)
        /\ \A j \in Kids : pc'[j] = "unborn" <=> pc[j] = "unborn"
    <3>1. w \in PCs \ {"register", "unborn"} /\ pc[t] \notin {"register", "unborn"}
      BY <1>1 DEF PCs
    <3> QED
      BY <2>2, <3>1, GotoEffect
  <2>4. \A u \in All, j \in Kids : Claims(u, j)' <=> Claims(u, j)
    <3>1. \A j \in Kids : Claims(t, j)' <=> Claims(t, j)
      BY <1>1, <1>2, <2>3 DEF Claims
    <3> QED
      BY <2>3, <3>1
  <2>5. \A u \in All, j \in Kids : Joins(u, j)' <=> Joins(u, j)
    BY <2>1, <2>4 DEF Joins
  <2>6. /\ registry' \in Seq(Kids \cup {None}) /\ Len(registry') = Len(registry)
        /\ Range(registry) \ {k} \subseteq Range(registry')
        /\ Range(registry') \subseteq Range(registry) \cup {None}
        /\ w # "claim" => Range(registry') = Range(registry)
    <3>1. CASE w # "claim"
      BY <2>2, <3>1 DEF TypeOK
    <3>2. CASE w = "claim"
      <4>1. Unregister(t)
        BY <2>2, <3>2 DEF LockJoin, AwaitThread, Unregister, At
      <4> QED
        BY <1>2, <3>2, <4>1, Unregistering
    <3> QED
      BY <3>1, <3>2
  <2>7. /\ joined' \in [Kids -> BOOLEAN] /\ join_lock' \in [Kids -> All \cup {None}]
        /\ \A j \in Kids : joined[j] => joined'[j]
        /\ \A j \in Kids : joined'[j] => pc[j] = "done"
        /\ w \in {"unregister", "claim"} => joined'[k]
    <3>1. join_lock' \in [Kids -> All \cup {None}]
      BY <1>2, <1>4, <2>1 DEF LockJoin, AwaitThread, Unregister, stateVars
    <3>2. w = "claim" => joined[k]
      BY <1>2, <2>2 DEF CallsFounded
    <3> QED
      BY <2>1, <2>2, <3>1, <3>2 DEF Lifecycle
  <2>8. \A j \in Kids : j # None /\ (j = t => pc'[j] \notin {"exiting", "done"}) /\ (j # t => pc'[j] = pc[j])
    BY <2>3, ThreadsAssumption DEF All
  <2>9. TypeOK'
    BY <2>1, <2>3, <2>6, <2>7 DEF TypeOK
  <2>10. Lifecycle'
    <3>1. \A j \in Kids : pc[j] = "done" => j # t
      BY <1>1
    <3> QED
      BY <2>1, <2>3, <2>6, <2>7, <2>8, <3>1 DEF Lifecycle
  <2>11. CallsFounded'
    BY <1>1, <1>2, <2>1, <2>3, <2>7 DEF CallsFounded
  <2>12. NamedOnce'
    BY <2>1, <2>3, <2>4, <2>5, <2>6, <2>8 DEF NamedOnce
  <2>13. BlocksHeld'
    BY <2>1, <2>4 DEF BlocksHeld
  <2>14. BlocksReached'
    <3>1. \A u \in All, j \in Kids : pc[u] = "claim" /\ target[u] = j
                                   => pc'[u] = "claim" /\ target'[u] = j
      BY <1>1, <2>3
    <3>2. k \in Range(registry) => k \in Range(registry') \/ (pc'[t] = "claim" /\ target'[t] = k)
      BY <2>3, <2>6
    <3> QED
      BY <2>1, <2>3, <2>6, <3>1, <3>2 DEF BlocksReached
  <2>15. RegistersAcyclic' /\ RegistryCounted'
    BY <2>3, <2>6, RegistrationsKept
  <2>16. ExitWaitsForThreads'
    BY <1>1, <2>1 DEF ExitWaitsForThreads
  <2> QED
    BY <2>9, <2>10, <2>11, <2>12, <2>13, <2>14, <2>15, <2>16
<1> QED
  BY <1>3, <1>4

\* The result is taken and the block freed.
LEMMA ClaimKeeps ==
    ASSUME IInv, NEW t \in All, Claim(t)
    PROVE  IInv'
<1> USE DEF IInv
<1>1. pc[t] = "claim" /\ ~exited /\ ~corrupt
  BY DEF Claim, At
<1>2. PICK k \in Kids : target[t] = k /\ pc[k] = "done" /\ Claims(t, k) /\ joined[k] /\ k # t
  BY <1>1 DEF CallsFounded, Claims, Lifecycle
<1>3. CASE Corrupts(k)
  <2>1. shutdown
    BY <1>1, <1>2, <1>3 DEF BlocksHeld, Corrupts
  <2> QED
    BY <1>3, <2>1, CorruptsKeeps
<1>4. CASE ~Corrupts(k)
  <2>1. /\ UNCHANGED <<registry, joined, finished, join_lock, handle, shutdown, exited, corrupt>>
        /\ block \in [Kids -> {"none", "allocated", "freed"}]
        /\ result \in [Kids -> {"unset", "set", "moved", "dropped"}]
        /\ block' = [block EXCEPT ![k] = "freed"] /\ block[k] # "freed"
    BY <1>2, <1>4 DEF Claim, TypeOK
  <2>2. PICK w \in {"pick", "run"}, r \in {"moved", "dropped"} :
            /\ Goto(t, w, None) /\ result' = [result EXCEPT ![k] = r]
            /\ w = "pick" => t = Main /\ shutdown
    BY <1>2, <1>4 DEF Claim
  <2>3. /\ pc' \in [All -> PCs] /\ target' \in [All -> Kids \cup {None}]
        /\ pc'[t] = w /\ target'[t] = None
        /\ \A u \in All \ {t} : pc'[u] = pc[u] /\ target'[u] = target[u]
        /\ \A u \in All, j \in Kids : Registers(u, j)' <=> Registers(u, j)
        /\ \A u \in All \ {t}, j \in Kids : Claims(u, j)' <=> Claims(u, j)
        /\ \A j \in Kids : pc'[j] = "unborn" <=> pc[j] = "unborn"
    <3>1. w \in PCs \ {"register", "unborn"} /\ pc[t] \notin {"register", "unborn"}
      BY <1>1 DEF PCs
    <3> QED
      BY <2>2, <3>1, GotoEffect
  <2>4. /\ \A j \in Kids : ~Claims(t, j)' /\ ~Joins(t, j)'
        /\ \A u \in All, j \in Kids : Claims(u, j)' => Claims(u, j)
        /\ \A u \in All, j \in Kids : Joins(u, j)' => Joins(u, j)
    <3>1. \A j \in Kids : ~Claims(t, j)'
      BY <2>3 DEF Claims
    <3> QED
      BY <2>1, <2>3, <3>1 DEF Joins
  <2>5. /\ block' \in [Kids -> {"none", "allocated", "freed"}]
        /\ result' \in [Kids -> {"unset", "set", "moved", "dropped"}]
        /\ block'[k] = "freed" /\ result'[k] \in {"moved", "dropped"}
        /\ \A j \in Kids \ {k} : block'[j] = block[j] /\ result'[j] = result[j]
    BY <2>1, <2>2
  <2>6. \A j \in Kids : (j = t => pc'[j] \notin {"exiting", "done"}) /\ (j # t => pc'[j] = pc[j])
    BY <2>3 DEF All
  <2>7. TypeOK'
    BY <2>1, <2>3, <2>5 DEF TypeOK
  <2>8. Lifecycle'
    <3>1. \A j \in Kids : pc[j] = "done" => j # t
      BY <1>1
    <3> QED
      BY <1>2, <2>1, <2>3, <2>5, <2>6, <3>1 DEF Lifecycle
  <2>9. CallsFounded'
    BY <2>1, <2>2, <2>3 DEF CallsFounded
  <2>10. NamedOnce'
    <3>1. \A u \in All : ~Registers(u, k)
      BY <1>2 DEF NamedOnce
    <3> QED
      BY <2>1, <2>3, <2>4, <2>5, <3>1 DEF NamedOnce
  <2>11. BlocksHeld'
    <3> SUFFICES ASSUME ~shutdown, NEW j \in Kids,
                        handle[j] # None \/ \E u \in All : Claims(u, j)'
                 PROVE  block'[j] = "allocated"
      BY <1>1, <2>1 DEF BlocksHeld
    <3>1. handle[j] # None \/ \E u \in All \ {t} : Claims(u, j)
      BY <2>3, <2>4
    <3>2. block[j] = "allocated"
      BY <3>1 DEF BlocksHeld
    <3>3. j # k
      BY <1>2, <3>1 DEF NamedOnce, Joins
    <3> QED
      BY <2>5, <3>2, <3>3
  <2>12. BlocksReached'
    <3>1. \A u \in All, j \in Kids \ {k} : pc[u] = "claim" /\ target[u] = j
                                         => pc'[u] = "claim" /\ target'[u] = j
      BY <1>2, <2>3
    <3> QED
      BY <2>1, <2>3, <2>5, <3>1 DEF BlocksReached
  <2>13. RegistersAcyclic' /\ RegistryCounted'
    BY <2>1, <2>3, RegistrationsKept
  <2>14. ExitWaitsForThreads'
    BY <1>1, <2>1 DEF ExitWaitsForThreads
  <2> QED
    BY <2>7, <2>8, <2>9, <2>10, <2>11, <2>12, <2>13, <2>14
<1> QED
  BY <1>3, <1>4

\* main's body returns; from here on its claims are those of the shutdown.
LEMMA MainReturnKeeps ==
    ASSUME IInv, MainReturn
    PROVE  IInv'
<1> USE DEF IInv
<1>1. /\ Main \in All /\ pc[Main] = "run" /\ ~shutdown /\ ~exited /\ ~corrupt
      /\ Goto(Main, "pick", None) /\ DetachAll(Main) /\ shutdown' = TRUE
      /\ UNCHANGED <<registry, stateVars, exited, corrupt>>
  BY DEF MainReturn, At, All
<1>2. /\ pc' \in [All -> PCs] /\ target' \in [All -> Kids \cup {None}]
      /\ pc'[Main] = "pick" /\ target'[Main] = None
      /\ \A u \in All \ {Main} : pc'[u] = pc[u] /\ target'[u] = target[u]
      /\ \A u \in All, j \in Kids : Registers(u, j)' <=> Registers(u, j)
      /\ \A u \in All \ {Main}, j \in Kids : Claims(u, j)' <=> Claims(u, j)
      /\ \A j \in Kids : pc'[j] = "unborn" <=> pc[j] = "unborn"
  <2>1. "pick" \in PCs \ {"register", "unborn"} /\ pc[Main] \notin {"register", "unborn"}
    BY <1>1 DEF PCs
  <2> QED
    BY <1>1, <2>1, GotoEffect
<1>3. /\ handle' \in [Kids -> All \cup {None}]
      /\ \A j \in Kids : handle'[j] \in {handle[j], None}
  BY DEF MainReturn, DetachAll, TypeOK
<1>4. /\ \A u \in All, j \in Kids : Claims(u, j)' => Claims(u, j)
      /\ \A u \in All, j \in Kids : Joins(u, j)' => Joins(u, j)
  <2>1. \A j \in Kids : ~Claims(Main, j)' /\ ~Joins(Main, j)'
    BY <1>2 DEF Claims, Joins
  <2> QED
    BY <1>1, <1>2, <2>1 DEF Joins
<1>5. \A j \in Kids : pc'[j] = pc[j]
  BY <1>2, ThreadsAssumption DEF All
<1>6. TypeOK'
  BY <1>1, <1>2, <1>3 DEF TypeOK, stateVars
<1>7. Lifecycle'
  BY <1>1, <1>3, <1>5 DEF Lifecycle, stateVars
<1>8. CallsFounded'
  BY <1>1, <1>2, <1>5 DEF CallsFounded, stateVars
<1>9. NamedOnce'
  BY <1>1, <1>2, <1>3, <1>4 DEF NamedOnce, stateVars
<1>10. BlocksHeld'
  BY <1>1 DEF BlocksHeld
<1>11. BlocksReached'
  <2>1. \A u \in All, j \in Kids : pc[u] = "claim" /\ target[u] = j
                                 => pc'[u] = "claim" /\ target'[u] = j
    BY <1>1, <1>2
  <2> QED
    BY <1>1, <1>2, <2>1 DEF BlocksReached, stateVars
<1>12. RegistersAcyclic' /\ RegistryCounted'
  BY <1>1, <1>2, RegistrationsKept
<1>13. ExitWaitsForThreads'
  BY <1>1 DEF ExitWaitsForThreads
<1> QED
  BY <1>6, <1>7, <1>8, <1>9, <1>10, <1>11, <1>12, <1>13

\* With no state left in the registry, no thread is left: a thread that still
\* runs is registered, or being registered by a thread that still runs, and
\* such a chain has a first member.
LEMMA EmptyRegistryMeansDone ==
    ASSUME IInv, pc[Main] = "pick", Range(registry) \ {None} = {}
    PROVE  \A k \in Kids :
              \/ pc[k] = "unborn"
              \/ /\ pc[k] = "done" /\ finished[k] /\ result[k] \in {"moved", "dropped"}
                 /\ block[k] = "freed"
<1> USE DEF IInv
<1> DEFINE Running == {k \in Kids : pc[k] \notin {"unborn", "done"}}
<1>1. \A k \in Kids : k \notin Range(registry)
  BY ThreadsAssumption
<1>2. ASSUME NEW k \in Running PROVE \E t \in Running : Registers(t, k)
  <2>1. block[k] \notin {"none", "freed"}
    BY DEF Lifecycle
  <2>2. PICK t \in All : Registers(t, k) \/ (pc[t] = "claim" /\ target[t] = k)
    BY <1>1, <2>1 DEF BlocksReached
  <2>3. ~(pc[t] = "claim" /\ target[t] = k)
    BY DEF CallsFounded, Lifecycle
  <2>4. Registers(t, k) /\ t # Main
    BY <2>2, <2>3 DEF Registers
  <2> QED
    BY <2>4 DEF Registers, All
<1>3. Running = {}
  <2> SUFFICES ASSUME Running # {} PROVE FALSE
    OBVIOUS
  <2>1. Running \in SUBSET Kids
    OBVIOUS
  <2>2. PICK k \in Running : \A t \in Running : ~Registers(t, k)
    <3> HIDE DEF Running
    <3> QED
      BY <2>1 DEF RegistersAcyclic
  <2> QED
    BY <1>2, <2>2
<1> SUFFICES ASSUME NEW k \in Kids, pc[k] = "done"
             PROVE  /\ finished[k] /\ result[k] \in {"moved", "dropped"} /\ block[k] = "freed"
  BY <1>3
<1>4. \A t \in All : ~Registers(t, k) /\ ~(pc[t] = "claim" /\ target[t] = k)
  BY <1>3 DEF Registers, All
<1>5. block[k] = "freed"
  BY <1>1, <1>4 DEF BlocksReached, Lifecycle
<1> QED
  BY <1>5 DEF Lifecycle

\* A turn of the shutdown, or its end.
LEMMA ShutdownPickKeeps ==
    ASSUME IInv, ShutdownPick
    PROVE  IInv'
<1> USE DEF IInv
<1>1. /\ Main \in All /\ pc[Main] = "pick" /\ shutdown /\ ~exited /\ ~corrupt
      /\ UNCHANGED <<registry, stateVars, handle, shutdown, corrupt>>
  BY DEF ShutdownPick, At, All, CallsFounded
<1>2. PICK w \in {"lock", "done"}, k \in Kids \cup {None} :
          /\ Goto(Main, w, k)
          /\ w = "lock" => k \in Range(registry) /\ k \in Kids /\ exited' = exited
          /\ w = "done" => Range(registry) \ {None} = {} /\ exited' = TRUE
  <2>1. CASE Range(registry) \ {None} = {}
    BY <2>1 DEF ShutdownPick
  <2>2. CASE Range(registry) \ {None} # {}
    <3> DEFINE First(i) == registry[i] # None /\ \A j \in 1..(i - 1) : registry[j] = None
               i0 == CHOOSE i \in DOMAIN registry : First(i)
               S == {i \in DOMAIN registry : registry[i] # None}
    <3>1. DOMAIN registry = 1..Len(registry) /\ Len(registry) \in Nat
      BY LenProperties DEF TypeOK
    <3>2. S # {} /\ S \subseteq Nat
      BY <2>2, <3>1 DEF Range
    <3>3. PICK i \in S : \A j \in S : i <= j
      <4> HIDE DEF S
      <4> QED
        BY <3>2, FirstIndex
    <3>4. i \in DOMAIN registry /\ First(i)
      <4>1. ASSUME NEW j \in 1..(i - 1) PROVE registry[j] = None
        <5>1. j \in DOMAIN registry /\ ~(i <= j)
          BY <3>1, <3>3
        <5> QED
          BY <3>3, <5>1
      <4> QED
        BY <3>3, <4>1
    <3>5. i0 \in DOMAIN registry /\ First(i0)
      BY <3>4
    <3>6. Goto(Main, "lock", registry[i0]) /\ exited' = exited
      BY <2>2 DEF ShutdownPick
    <3>7. registry[i0] # None /\ registry[i0] \in Range(registry)
      BY <3>5 DEF Range
    <3> HIDE DEF i0
    <3>8. registry[i0] \in Kids \cup {None}
      BY <3>5, ElementOfSeq, <3>1 DEF TypeOK
    <3> QED
      BY <3>6, <3>7, <3>8
  <2> QED
    BY <2>1, <2>2
<1>3. /\ pc' \in [All -> PCs] /\ target' \in [All -> Kids \cup {None}]
      /\ pc'[Main] = w /\ target'[Main] = k
      /\ \A u \in All \ {Main} : pc'[u] = pc[u] /\ target'[u] = target[u]
      /\ \A u \in All, j \in Kids : Registers(u, j)' <=> Registers(u, j)
      /\ \A u \in All \ {Main}, j \in Kids : Claims(u, j)' <=> Claims(u, j)
      /\ \A j \in Kids : pc'[j] = "unborn" <=> pc[j] = "unborn"
  <2>1. w \in PCs \ {"register", "unborn"} /\ pc[Main] \notin {"register", "unborn"}
    BY <1>1 DEF PCs
  <2> QED
    BY <1>1, <1>2, <2>1, GotoEffect
<1>4. \A u \in All, j \in Kids : Joins(u, j)' <=> Joins(u, j)
  BY <1>1, <1>3 DEF Joins
<1>5. \A j \in Kids : pc'[j] = pc[j]
  BY <1>3, ThreadsAssumption DEF All
<1>6. w = "lock" => pc[k] # "unborn" /\ \A u \in All : ~Registers(u, k)
  BY <1>2 DEF Lifecycle, NamedOnce
<1>7. TypeOK'
  BY <1>1, <1>2, <1>3 DEF TypeOK, stateVars
<1>8. Lifecycle'
  BY <1>1, <1>5 DEF Lifecycle, stateVars
<1>9. CallsFounded'
  BY <1>1, <1>2, <1>3, <1>5, <1>6 DEF CallsFounded, stateVars
<1>10. NamedOnce'
  <2>1. \A j \in Kids : Claims(Main, j)' => w = "lock" /\ j = k
    BY <1>2, <1>3 DEF Claims
  <2> QED
    BY <1>1, <1>3, <1>4, <1>6, <2>1 DEF NamedOnce, stateVars
<1>11. BlocksHeld'
  BY <1>1 DEF BlocksHeld
<1>12. BlocksReached'
  <2>1. \A u \in All, j \in Kids : pc[u] = "claim" /\ target[u] = j
                                 => pc'[u] = "claim" /\ target'[u] = j
    BY <1>1, <1>3
  <2> QED
    BY <1>1, <1>3, <2>1 DEF BlocksReached, stateVars
<1>13. RegistersAcyclic' /\ RegistryCounted'
  BY <1>1, <1>3, RegistrationsKept
<1>14. ExitWaitsForThreads'
  <2>1. CASE w = "lock"
    BY <1>1, <1>2, <2>1 DEF ExitWaitsForThreads
  <2>2. CASE w = "done"
    <3>1. \A j \in Kids :
              \/ pc[j] = "unborn"
              \/ /\ pc[j] = "done" /\ finished[j] /\ result[j] \in {"moved", "dropped"}
                 /\ block[j] = "freed"
      BY <1>1, <1>2, <2>2, EmptyRegistryMeansDone
    <3> QED
      BY <1>1, <1>5, <3>1 DEF ExitWaitsForThreads, stateVars
  <2> QED
    BY <2>1, <2>2
<1> QED
  BY <1>7, <1>8, <1>9, <1>10, <1>11, <1>12, <1>13, <1>14

\* Every action preserves the invariant, whichever thread takes it.
LEMMA NextIInv == IInv /\ [Next]_vars => IInv'
<1> SUFFICES ASSUME IInv, [Next]_vars PROVE IInv'
  OBVIOUS
<1>1. ASSUME NEW t \in All, Progress(t) PROVE IInv'
  BY <1>1, SpawnRegisterKeeps, StagesKeep, ClaimKeeps, ThreadEndsKeeps, ShutdownPickKeeps
     DEF Progress
<1>2. ASSUME NEW t \in All, Return(t) PROVE IInv'
  BY <1>2, MainReturnKeeps, ThreadEndsKeeps DEF Return
<1>3. ASSUME NEW t \in All, Call(t) PROVE IInv'
  <2>1. PICK k \in Kids : \/ SpawnCreate(t, k) \/ Join(t, k) \/ DropHandle(t, k) \/ IsFinished(t, k)
                          \/ \E u \in All \ {t} : MoveHandle(t, u, k)
    BY <1>3 DEF Call
  <2>2. CASE IsFinished(t, k)
    <3>1. t # None
      BY ThreadsAssumption DEF All
    <3>2. Corrupts(k) /\ shutdown
      BY <2>2, <3>1 DEF IsFinished, At, Corrupts, IInv, BlocksHeld
    <3> QED
      BY <3>2, CorruptsKeeps
  <2> QED
    BY <2>1, <2>2, SpawnCreateKeeps, JoinKeeps, HandlesKeep
<1>4. CASE UNCHANGED vars
  <2> USE <1>4 DEF vars, stateVars, IInv
  <2>1. TypeOK' /\ Lifecycle' /\ CallsFounded' /\ BlocksHeld' /\ ExitWaitsForThreads'
    BY DEF TypeOK, Lifecycle, CallsFounded, BlocksHeld, ExitWaitsForThreads, Claims
  <2>2. NamedOnce' /\ BlocksReached'
    BY DEF NamedOnce, BlocksReached, Registers, Joins, Claims
  <2>3. RegistersAcyclic' /\ RegistryCounted'
    BY RegistrationsKept DEF Registers
  <2> QED
    BY <2>1, <2>2, <2>3
<1> QED
  BY <1>1, <1>2, <1>3, <1>4 DEF Next

LEMMA SpecIInv == Spec => []IInv
BY InitIInv, NextIInv, PTL DEF Spec

-----------------------------------------------------------------------------
(* Theorems *)

\* The process exits only after every thread it created has ended, with every
\* result taken and every block freed, however late a thread was created; and
\* the registry never holds more nodes than there are threads.
THEOREM ThreadsExitConsistent == Spec => []ExitConsistent
<1>1. IInv => ExitConsistent
  BY DEF IInv, ExitConsistent
<1> QED
  BY <1>1, SpecIInv, PTL

\* Until main's body returns, no call uses a freed block.
THEOREM ThreadsSafeUntilShutdown == Spec => []SafeUntilShutdown
<1>1. IInv => SafeUntilShutdown
  BY DEF IInv, BlocksHeld, SafeUntilShutdown
<1> QED
  BY <1>1, SpecIInv, PTL

\* A thread's result is taken once, from an allocated block, after the thread
\* published it and ended.
THEOREM ThreadsResultTakenOnce == Spec => ResultTakenOnce
<1> DEFINE TakenOnce ==
             \A k \in Kids : result[k] # result'[k] /\ result'[k] \in {"moved", "dropped"} =>
                result[k] = "set" /\ pc[k] = "done" /\ block[k] = "allocated"
<1>1. ASSUME IInv, [Next]_vars PROVE [TakenOnce]_vars
  <2> SUFFICES ASSUME NEW k \in Kids, Next, result[k] # result'[k],
                      result'[k] \in {"moved", "dropped"}
               PROVE  result[k] = "set" /\ pc[k] = "done" /\ block[k] = "allocated"
    BY <1>1
  <2>1. result \in [Kids -> {"unset", "set", "moved", "dropped"}]
    BY <1>1 DEF IInv, TypeOK
  <2>2. PICK t \in All : Progress(t) \/ Return(t) \/ Call(t)
    BY DEF Next
  <2>3. Claim(t)
    <3>1. CASE Progress(t)
      BY <3>1 DEF Progress, SpawnRegister, LockJoin, AwaitThread, Unregister, EntryReturn,
                  ShutdownPick, Corrupts, stateVars
    <3>2. ~Return(t)
      BY <2>1 DEF Return, MainReturn, BodyReturn, Corrupts, stateVars
    <3>3. ~Call(t)
      BY DEF Call, SpawnCreate, Join, DropHandle, IsFinished, MoveHandle, Corrupts, stateVars
    <3> QED
      BY <2>2, <3>1, <3>2, <3>3
  <2>4. k = target[t] /\ block[k] # "freed" /\ pc[t] = "claim"
    BY <2>1, <2>3 DEF Claim, At, Corrupts, stateVars
  <2>5. joined[k] /\ pc[k] = "done"
    BY <1>1, <2>4 DEF IInv, CallsFounded, Lifecycle
  <2> QED
    BY <1>1, <2>4, <2>5 DEF IInv, Lifecycle, TypeOK
<1> QED
  BY <1>1, SpecIInv, PTL DEF Spec, ResultTakenOnce
=============================================================================
