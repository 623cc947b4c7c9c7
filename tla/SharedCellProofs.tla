-------------------------- MODULE SharedCellProofs --------------------------
(***************************************************************************)
(* Shared[T] and Weak[T] for every number of threads and handles: the      *)
(* counts are the handles, the value outlives its owners, the block        *)
(* outlives the handles and nothing is leaked.                             *)
(***************************************************************************)
EXTENDS SharedCell, CommonLemmas, FiniteSetTheorems, TLAPS

\* The sets of handles of a typed state are finite.
LEMMA FiniteHandles ==
    ASSUME TypeOK
    PROVE  IsFiniteSet(shared) /\ IsFiniteSet(weaks) /\ IsFiniteSet(inner)
BY SharedCellAssumption, FS_Subset DEF TypeOK

\* SharedNew establishes the invariant.
LEMMA InitIInv == Init => IInv
<1> SUFFICES ASSUME Init PROVE IInv
  OBVIOUS
<1>1. PICK h \in SharedIds : shared = {h}
  BY DEF Init
<1>2. TypeOK
  BY <1>1 DEF Init, TypeOK, PCs
<1>3. Cardinality(shared) = 1 /\ Cardinality(weaks) = 0 /\ Cardinality(inner) = 0
  BY <1>1, FS_Singleton, FS_EmptySet DEF Init
<1>4. CountsAgree
  BY <1>3 DEF Init, CountsAgree, CommonWeak
<1>5. BorrowsLive /\ EndOfValue /\ EndOfBlock
  BY <1>1 DEF Init, BorrowsLive, EndOfValue, EndOfBlock
<1> QED
  BY <1>2, <1>4, <1>5 DEF IInv

\* Every action preserves the invariant, whichever thread takes it.
LEMMA NextIInv == IInv /\ [Next]_vars => IInv'
<1> SUFFICES ASSUME IInv, [Next]_vars PROVE IInv'
  OBVIOUS
<1> USE DEF IInv
<1>fin. /\ IsFiniteSet(shared) /\ IsFiniteSet(weaks) /\ IsFiniteSet(inner)
        /\ Cardinality(shared) \in Nat /\ Cardinality(weaks) \in Nat
        /\ Cardinality(inner) \in Nat
        /\ Cardinality(shared) = 0 <=> shared = {}
        /\ Cardinality(weaks) = 0 <=> weaks = {}
        /\ Cardinality(inner) = 0 <=> inner = {}
  BY FiniteHandles, CardinalityStep
<1>gone. /\ strong = 0 <=> shared = {}
         /\ weak = 0 => shared = {} /\ weaks = {} /\ inner = {}
                         /\ \A t \in Threads : pc[t] \notin {"destroying", "releasing"}
  BY <1>fin DEF CountsAgree, CommonWeak, At
<1>1. ASSUME NEW t \in Threads, NEW h \in SharedIds, NEW f \in SharedIds, CloneShared(t, h, f)
      PROVE  IInv'
  <2>card. Cardinality(shared') = Cardinality(shared) + 1
    BY <1>1, <1>fin, CardinalityStep DEF CloneShared, FreshWeak
  <2>1. TypeOK'
    BY <1>1, <1>fin, <1>gone, <2>card DEF CloneShared, Goto, FreshWeak, TypeOK, PCs, CountsAgree, CommonWeak, At
  <2>2. CountsAgree'
    BY <1>1, <1>fin, <1>gone, <2>card DEF CloneShared, Goto, TypeOK, CountsAgree, CommonWeak, At, EndOfValue, EndOfBlock
  <2>3. BorrowsLive'
    BY <1>1 DEF CloneShared, Goto, TypeOK, BorrowsLive
  <2>4. EndOfValue'
    BY <1>1, <1>fin, <1>gone, <2>card DEF CloneShared, Goto, FreshWeak, TypeOK, BorrowsLive, EndOfValue, CountsAgree
  <2>5. EndOfBlock'
    BY <1>1, <1>fin, <1>gone, <2>card DEF CloneShared, Goto, TypeOK, EndOfBlock, EndOfValue, CountsAgree, CommonWeak, At
  <2> QED
    BY <2>1, <2>2, <2>3, <2>4, <2>5
<1>2. ASSUME NEW t \in Threads, NEW w \in WeakIds, NEW f \in WeakIds, CloneWeak(t, w, f)
      PROVE  IInv'
  <2>card. Cardinality(weaks') = Cardinality(weaks) + 1
    BY <1>2, <1>fin, CardinalityStep DEF CloneWeak, FreshWeak
  <2>1. TypeOK'
    BY <1>2, <1>fin, <1>gone, <2>card DEF CloneWeak, Goto, FreshWeak, TypeOK, PCs, CountsAgree, CommonWeak, At
  <2>2. CountsAgree'
    BY <1>2, <1>fin, <1>gone, <2>card DEF CloneWeak, Goto, TypeOK, CountsAgree, CommonWeak, At, EndOfValue, EndOfBlock
  <2>3. BorrowsLive'
    BY <1>2 DEF CloneWeak, Goto, TypeOK, BorrowsLive
  <2>4. EndOfValue'
    BY <1>2, <1>fin, <1>gone, <2>card DEF CloneWeak, Goto, FreshWeak, TypeOK, BorrowsLive, EndOfValue, CountsAgree
  <2>5. EndOfBlock'
    BY <1>2, <1>fin, <1>gone, <2>card DEF CloneWeak, Goto, TypeOK, EndOfBlock, EndOfValue, CountsAgree, CommonWeak, At
  <2> QED
    BY <2>1, <2>2, <2>3, <2>4, <2>5
<1>3. ASSUME NEW t \in Threads, NEW h \in SharedIds, NEW f \in WeakIds, SharedDowngrade(t, h, f)
      PROVE  IInv'
  <2>card. Cardinality(weaks') = Cardinality(weaks) + 1
    BY <1>3, <1>fin, CardinalityStep DEF SharedDowngrade, FreshWeak
  <2>1. TypeOK'
    BY <1>3, <1>fin, <1>gone, <2>card DEF SharedDowngrade, Goto, FreshWeak, TypeOK, PCs, CountsAgree, CommonWeak, At
  <2>2. CountsAgree'
    BY <1>3, <1>fin, <1>gone, <2>card DEF SharedDowngrade, Goto, TypeOK, CountsAgree, CommonWeak, At, EndOfValue, EndOfBlock
  <2>3. BorrowsLive'
    BY <1>3 DEF SharedDowngrade, Goto, TypeOK, BorrowsLive
  <2>4. EndOfValue'
    BY <1>3, <1>fin, <1>gone, <2>card DEF SharedDowngrade, Goto, FreshWeak, TypeOK, BorrowsLive, EndOfValue, CountsAgree
  <2>5. EndOfBlock'
    BY <1>3, <1>fin, <1>gone, <2>card DEF SharedDowngrade, Goto, TypeOK, EndOfBlock, EndOfValue, CountsAgree, CommonWeak, At
  <2> QED
    BY <2>1, <2>2, <2>3, <2>4, <2>5
<1>4. ASSUME NEW t \in Threads, NEW w \in WeakIds, NEW f \in SharedIds, WeakUpgrade(t, w, f)
      PROVE  IInv'
  <2>card. Cardinality(shared') = Cardinality(shared) + 1
    BY <1>4, <1>fin, CardinalityStep DEF WeakUpgrade, FreshWeak
  <2>1. TypeOK'
    BY <1>4, <1>fin, <1>gone, <2>card DEF WeakUpgrade, Goto, FreshWeak, TypeOK, PCs, CountsAgree, CommonWeak, At
  <2>2. CountsAgree'
    BY <1>4, <1>fin, <1>gone, <2>card DEF WeakUpgrade, Goto, TypeOK, CountsAgree, CommonWeak, At, EndOfValue, EndOfBlock
  <2>3. BorrowsLive'
    BY <1>4 DEF WeakUpgrade, Goto, TypeOK, BorrowsLive
  <2>4. EndOfValue'
    BY <1>4, <1>fin, <1>gone, <2>card DEF WeakUpgrade, Goto, FreshWeak, TypeOK, BorrowsLive, EndOfValue, CountsAgree
  <2>5. EndOfBlock'
    BY <1>4, <1>fin, <1>gone, <2>card DEF WeakUpgrade, Goto, TypeOK, EndOfBlock, EndOfValue, CountsAgree, CommonWeak, At
  <2> QED
    BY <2>1, <2>2, <2>3, <2>4, <2>5
<1>5. ASSUME NEW t \in Threads, NEW h \in SharedIds, SharedGet(t, h)
      PROVE  IInv'
  <2>1. TypeOK'
    BY <1>5, <1>fin, <1>gone DEF SharedGet, Goto, FreshWeak, TypeOK, PCs, CountsAgree, CommonWeak, At
  <2>2. CountsAgree'
    BY <1>5, <1>fin, <1>gone DEF SharedGet, Goto, TypeOK, CountsAgree, CommonWeak, At, EndOfValue, EndOfBlock
  <2>3. BorrowsLive'
    BY <1>5 DEF SharedGet, Goto, TypeOK, BorrowsLive
  <2>4. EndOfValue'
    BY <1>5, <1>fin, <1>gone DEF SharedGet, Goto, FreshWeak, TypeOK, BorrowsLive, EndOfValue, CountsAgree
  <2>5. EndOfBlock'
    BY <1>5, <1>fin, <1>gone DEF SharedGet, Goto, TypeOK, EndOfBlock, EndOfValue, CountsAgree, CommonWeak, At
  <2> QED
    BY <2>1, <2>2, <2>3, <2>4, <2>5
<1>6. ASSUME NEW t \in Threads, NEW h \in SharedIds, DropShared(t, h)
      PROVE  IInv'
  <2>card. Cardinality(shared') = Cardinality(shared) - 1
    BY <1>6, <1>fin, CardinalityStep DEF DropShared
  <2>1. TypeOK'
    BY <1>6, <1>fin, <1>gone, <2>card DEF DropShared, Goto, FreshWeak, TypeOK, PCs, CountsAgree, CommonWeak, At
  <2>2. CountsAgree'
    BY <1>6, <1>fin, <1>gone, <2>card DEF DropShared, Goto, TypeOK, CountsAgree, CommonWeak, At, EndOfValue, EndOfBlock
  <2>3. BorrowsLive'
    BY <1>6 DEF DropShared, Goto, TypeOK, BorrowsLive
  <2>4. EndOfValue'
    <3>1. /\ pc[t] = "idle" /\ h \in shared /\ shared' = shared \ {h}
          /\ UNCHANGED <<value, inner, weaks>>
          /\ \A u \in Threads \ {t} : pc'[u] = pc[u]
          /\ pc'[t] = IF strong = 1 THEN "destroying" ELSE "idle"
      BY <1>6 DEF DropShared, Goto, TypeOK
    <3>2. shared' = {} <=> strong = 1
      <4>1. IsFiniteSet(shared')
        BY <1>fin, <3>1, FS_Subset
      <4> QED
        BY <1>fin, <2>card, <4>1, FS_EmptySet DEF CountsAgree
    <3>3. value = "alive" /\ \A u \in Threads : pc[u] \notin {"destroying", "releasing"}
      BY <3>1 DEF EndOfValue
    <3> QED
      BY <3>1, <3>2, <3>3 DEF EndOfValue
  <2>5. EndOfBlock'
    BY <1>6, <1>fin, <1>gone, <2>card DEF DropShared, Goto, TypeOK, EndOfBlock, EndOfValue, CountsAgree, CommonWeak, At
  <2> QED
    BY <2>1, <2>2, <2>3, <2>4, <2>5
<1>7. ASSUME NEW t \in Threads, NEW w \in WeakIds, KeepInside(t, w)
      PROVE  IInv'
  <2>card. /\ Cardinality(weaks') = Cardinality(weaks) - 1
           /\ Cardinality(inner') = Cardinality(inner) + 1
    BY <1>7, <1>fin, CardinalityStep DEF KeepInside, EndOfValue
  <2>1. TypeOK'
    BY <1>7, <1>fin, <1>gone, <2>card DEF KeepInside, Goto, FreshWeak, TypeOK, PCs, CountsAgree, CommonWeak, At
  <2>2. CountsAgree'
    BY <1>7, <1>fin, <1>gone, <2>card DEF KeepInside, Goto, TypeOK, CountsAgree, CommonWeak, At, EndOfValue, EndOfBlock
  <2>3. BorrowsLive'
    BY <1>7 DEF KeepInside, Goto, TypeOK, BorrowsLive
  <2>4. EndOfValue'
    BY <1>7, <1>fin, <1>gone, <2>card DEF KeepInside, Goto, FreshWeak, TypeOK, BorrowsLive, EndOfValue, CountsAgree
  <2>5. EndOfBlock'
    BY <1>7, <1>fin, <1>gone, <2>card DEF KeepInside, Goto, TypeOK, EndOfBlock, EndOfValue, CountsAgree, CommonWeak, At
  <2> QED
    BY <2>1, <2>2, <2>3, <2>4, <2>5
<1>8. ASSUME NEW t \in Threads, NEW w \in WeakIds, DropInner(t, w)
      PROVE  IInv'
  <2>card. Cardinality(inner') = Cardinality(inner) - 1
    BY <1>8, <1>fin, CardinalityStep DEF DropInner
  <2>1. TypeOK'
    BY <1>8, <1>fin, <1>gone, <2>card DEF DropInner, Goto, FreshWeak, TypeOK, PCs, CountsAgree, CommonWeak, At
  <2>2. CountsAgree'
    BY <1>8, <1>fin, <1>gone, <2>card DEF DropInner, Goto, TypeOK, CountsAgree, CommonWeak, At, EndOfValue, EndOfBlock
  <2>3. BorrowsLive'
    BY <1>8 DEF DropInner, Goto, TypeOK, BorrowsLive
  <2>4. EndOfValue'
    BY <1>8, <1>fin, <1>gone, <2>card DEF DropInner, Goto, FreshWeak, TypeOK, BorrowsLive, EndOfValue, CountsAgree
  <2>5. EndOfBlock'
    BY <1>8, <1>fin, <1>gone, <2>card DEF DropInner, Goto, TypeOK, EndOfBlock, EndOfValue, CountsAgree, CommonWeak, At
  <2> QED
    BY <2>1, <2>2, <2>3, <2>4, <2>5
<1>9. ASSUME NEW t \in Threads, NEW w \in WeakIds, DropWeak(t, w)
      PROVE  IInv'
  <2>card. Cardinality(weaks') = Cardinality(weaks) - 1
    BY <1>9, <1>fin, CardinalityStep DEF DropWeak
  <2>1. TypeOK'
    BY <1>9, <1>fin, <1>gone, <2>card DEF DropWeak, Goto, FreshWeak, TypeOK, PCs, CountsAgree, CommonWeak, At
  <2>2. CountsAgree'
    BY <1>9, <1>fin, <1>gone, <2>card DEF DropWeak, Goto, TypeOK, CountsAgree, CommonWeak, At, EndOfValue, EndOfBlock
  <2>3. BorrowsLive'
    BY <1>9 DEF DropWeak, Goto, TypeOK, BorrowsLive
  <2>4. EndOfValue'
    BY <1>9, <1>fin, <1>gone, <2>card DEF DropWeak, Goto, FreshWeak, TypeOK, BorrowsLive, EndOfValue, CountsAgree
  <2>5. EndOfBlock'
    <3>1. /\ weak \in Nat \ {0} /\ weak' = weak - 1 /\ UNCHANGED freed
          /\ \A u \in Threads \ {t} : pc'[u] = pc[u]
          /\ pc'[t] = IF weak = 1 THEN "freeing" ELSE "idle"
      BY <1>9, <1>gone DEF DropWeak, Goto, TypeOK
    <3>2. ~freed /\ \A u \in Threads : pc[u] # "freeing"
      BY <3>1 DEF EndOfBlock
    <3> QED
      BY <3>1, <3>2 DEF EndOfBlock
  <2> QED
    BY <2>1, <2>2, <2>3, <2>4, <2>5
<1>10. ASSUME NEW t \in Threads, EndBorrow(t)
      PROVE  IInv'
  <2>1. TypeOK'
    BY <1>10, <1>fin, <1>gone DEF EndBorrow, Goto, FreshWeak, TypeOK, PCs, CountsAgree, CommonWeak, At
  <2>2. CountsAgree'
    BY <1>10, <1>fin, <1>gone DEF EndBorrow, Goto, TypeOK, CountsAgree, CommonWeak, At, EndOfValue, EndOfBlock
  <2>3. BorrowsLive'
    BY <1>10 DEF EndBorrow, Goto, TypeOK, BorrowsLive
  <2>4. EndOfValue'
    BY <1>10, <1>fin, <1>gone DEF EndBorrow, Goto, FreshWeak, TypeOK, BorrowsLive, EndOfValue, CountsAgree
  <2>5. EndOfBlock'
    BY <1>10, <1>fin, <1>gone DEF EndBorrow, Goto, TypeOK, EndOfBlock, EndOfValue, CountsAgree, CommonWeak, At
  <2> QED
    BY <2>1, <2>2, <2>3, <2>4, <2>5
<1>11. ASSUME NEW t \in Threads, DropValue(t)
      PROVE  IInv'
  <2>1. TypeOK'
    BY <1>11, <1>fin, <1>gone DEF DropValue, Goto, FreshWeak, TypeOK, PCs, CountsAgree, CommonWeak, At
  <2>2. CountsAgree'
    BY <1>11, <1>fin, <1>gone DEF DropValue, Goto, TypeOK, CountsAgree, CommonWeak, At, EndOfValue, EndOfBlock
  <2>3. BorrowsLive'
    BY <1>11 DEF DropValue, Goto, TypeOK, BorrowsLive
  <2>4. EndOfValue'
    BY <1>11, <1>fin, <1>gone DEF DropValue, Goto, FreshWeak, TypeOK, BorrowsLive, EndOfValue, CountsAgree
  <2>5. EndOfBlock'
    BY <1>11, <1>fin, <1>gone DEF DropValue, Goto, TypeOK, EndOfBlock, EndOfValue, CountsAgree, CommonWeak, At
  <2> QED
    BY <2>1, <2>2, <2>3, <2>4, <2>5
<1>12. ASSUME NEW t \in Threads, ReleaseWeak(t)
      PROVE  IInv'
  <2>0. /\ weak \in Nat \ {0} /\ weak' = weak - 1
        /\ \A u \in Threads \ {t} : pc'[u] = pc[u]
        /\ pc[t] = "releasing" /\ pc'[t] \in {"idle", "freeing"}
        /\ UNCHANGED <<strong, value, freed, shared, weaks, inner, via>>
    BY <1>12, <1>gone DEF ReleaseWeak, Goto, TypeOK
  <2>1. TypeOK'
    <3>1. pc' \in [Threads -> PCs]
      BY <1>12 DEF ReleaseWeak, Goto, TypeOK, PCs
    <3> QED
      BY <2>0, <3>1 DEF TypeOK
  <2>2. CountsAgree'
    <3>1. strong = 0 /\ CommonWeak = 1
      BY <2>0, <1>gone DEF EndOfValue, CommonWeak, At
    <3>2. CommonWeak' = 0
      BY <2>0, <3>1 DEF EndOfValue, CommonWeak, At
    <3> QED
      BY <1>fin, <2>0, <3>1, <3>2 DEF CountsAgree
  <2>3. BorrowsLive'
    BY <1>12 DEF ReleaseWeak, Goto, TypeOK, BorrowsLive
  <2>4. EndOfValue'
    BY <1>12, <1>fin, <1>gone DEF ReleaseWeak, Goto, FreshWeak, TypeOK, BorrowsLive, EndOfValue, CountsAgree
  <2>5. EndOfBlock'
    BY <1>12, <1>fin, <1>gone DEF ReleaseWeak, Goto, TypeOK, EndOfBlock, EndOfValue, CountsAgree, CommonWeak, At
  <2> QED
    BY <2>1, <2>2, <2>3, <2>4, <2>5
<1>13. ASSUME NEW t \in Threads, FreeBlock(t)
      PROVE  IInv'
  <2>1. TypeOK'
    BY <1>13, <1>fin, <1>gone DEF FreeBlock, Goto, FreshWeak, TypeOK, PCs, CountsAgree, CommonWeak, At
  <2>2. CountsAgree'
    BY <1>13, <1>fin, <1>gone DEF FreeBlock, Goto, TypeOK, CountsAgree, CommonWeak, At, EndOfValue, EndOfBlock
  <2>3. BorrowsLive'
    BY <1>13 DEF FreeBlock, Goto, TypeOK, BorrowsLive
  <2>4. EndOfValue'
    BY <1>13, <1>fin, <1>gone DEF FreeBlock, Goto, FreshWeak, TypeOK, BorrowsLive, EndOfValue, CountsAgree
  <2>5. EndOfBlock'
    BY <1>13, <1>fin, <1>gone DEF FreeBlock, Goto, TypeOK, EndOfBlock, EndOfValue, CountsAgree, CommonWeak, At
  <2> QED
    BY <2>1, <2>2, <2>3, <2>4, <2>5
<1>14. CASE UNCHANGED vars
  BY <1>14 DEF vars, TypeOK, PCs, CountsAgree, CommonWeak, At, BorrowsLive, EndOfValue, EndOfBlock
<1> QED
  BY <1>1, <1>2, <1>3, <1>4, <1>5, <1>6, <1>7, <1>8, <1>9, <1>10, <1>11, <1>12, <1>13, <1>14 DEF Next

LEMMA SpecIInv == Spec => []IInv
<1>1. IInv /\ UNCHANGED vars => IInv'
  BY NextIInv
<1> QED
  BY InitIInv, NextIInv, PTL DEF Spec

\* Type correctness of the block and of the program's handles, and the counts
\* are the handles: clone, downgrade, upgrade and both drops keep strong equal
\* to the number of Shared handles and weak to the Weak ones and the common one.
THEOREM CountsCorrect == Spec => [](TypeOK /\ CountsAgree)
<1>1. IInv => TypeOK /\ CountsAgree
  BY DEF IInv
<1> QED
  BY <1>1, SpecIInv, PTL

\* An owner or a borrow always finds an initialised value, and one thread
\* drops it: WeakUpgrade racing DropShared cannot revive a dying value.
THEOREM ValueSafe == Spec => []ValueOutlivesOwners
<1>1. ASSUME IInv PROVE ValueOutlivesOwners
  <2>1. (shared # {} \/ At("reading") # {}) => shared # {}
    BY <1>1 DEF IInv, BorrowsLive, At
  <2> QED
    BY <1>1, <2>1 DEF IInv, EndOfValue, ValueOutlivesOwners, At
<1> QED
  BY <1>1, SpecIInv, PTL

\* No handle and no unfinished drop ever refers to a freed block, and the
\* block is freed by one thread, once.
THEOREM BlockSafe == Spec => []BlockOutlivesHandles
<1>1. ASSUME IInv PROVE BlockOutlivesHandles
  <2>1. weak = 0 => /\ shared = {} /\ weaks = {} /\ inner = {}
                    /\ \A t \in Threads : pc[t] \notin {"destroying", "releasing"}
    <3>1. /\ Cardinality(shared) \in Nat /\ Cardinality(weaks) \in Nat
          /\ Cardinality(inner) \in Nat
          /\ Cardinality(shared) = 0 <=> shared = {}
          /\ Cardinality(weaks) = 0 <=> weaks = {}
          /\ Cardinality(inner) = 0 <=> inner = {}
      BY <1>1, FiniteHandles, CardinalityStep DEF IInv
    <3> QED
      BY <1>1, <3>1 DEF IInv, CountsAgree, CommonWeak, At
  <2>2. weak = 0 => \A t \in Threads : pc[t] \in {"idle", "freeing"}
    BY <1>1, <2>1 DEF IInv, TypeOK, PCs, BorrowsLive
  <2>3. freed => weak = 0 /\ \A t \in Threads : pc[t] # "freeing"
    BY <1>1 DEF IInv, EndOfBlock
  <2>4. \A t \in At("freeing") : weak = 0 /\ \A u \in Threads \ {t} : pc[u] # "freeing"
    BY <1>1 DEF IInv, EndOfBlock, At
  <2> QED
    BY <2>1, <2>2, <2>3, <2>4 DEF BlockOutlivesHandles, At
<1> QED
  BY <1>1, SpecIInv, PTL

\* When the last handle is gone and the drops have returned, the value has
\* been dropped and the block freed.
THEOREM NothingLeaked == Spec => []Reclaimed
<1>1. ASSUME IInv, shared \cup weaks = {}, \A t \in Threads : pc[t] = "idle"
      PROVE  value = "dropped" /\ freed
  <2>1. value = "dropped" /\ inner = {}
    BY <1>1 DEF IInv, TypeOK, EndOfValue
  <2>2. shared = {} /\ weaks = {}
    BY <1>1
  <2>3. strong = 0 /\ weak = CommonWeak
    BY <1>1, <2>1, <2>2, FS_EmptySet DEF IInv, CountsAgree, CommonWeak, At
  <2>4. weak = 0
    BY <1>1, <2>3 DEF CommonWeak, At
  <2> QED
    BY <1>1, <2>1, <2>4 DEF IInv, EndOfBlock
<1>2. IInv => Reclaimed
  BY <1>1 DEF Reclaimed
<1> QED
  BY <1>2, SpecIInv, PTL
=============================================================================
