-------------------------- MODULE SchedulerProofs --------------------------
(***************************************************************************)
(* Proofs of the safety of Scheduler for every set of requests, every      *)
(* output an execution may return and all limits.                          *)
(***************************************************************************)
EXTENDS Scheduler, CommonLemmas, FiniteSetTheorems, SequenceTheorems, TLAPS

-----------------------------------------------------------------------------
(* Chains of parents *)

\* The fields of the work in a graph.
LEMMA WorkFields ==
    ASSUME NEW w \in Works
    PROVE  /\ Len(w) \in Nat /\ DOMAIN w = 1..Len(w)
           /\ \A i \in 1..Len(w) :
                 /\ w[i] \in Pieces
                 /\ w[i].request \in Requests /\ w[i].parent \in Nat /\ w[i].depth \in Nat
                 /\ w[i].state \in States /\ w[i].reason \in Reasons
<1>1. Len(w) \in Nat /\ DOMAIN w = 1..Len(w) /\ \A i \in 1..Len(w) : w[i] \in Pieces
  BY ElementOfSeq DEF Works
<1> QED
  BY <1>1 DEF Pieces

\* The walk from a piece of work to the root of its chain exists, since every
\* parent is older (cycle_chain).
LEMMA ChainUnfolds ==
    ASSUME NEW w \in Works, Founded(w)
    PROVE  /\ Chain(w, 0) = {}
           /\ \A i \in DOMAIN w : Chain(w, i) = {i} \cup Chain(w, w[i].parent)
<1> DEFINE Up(n, g) == /\ DOMAIN g = 0..n
                       /\ \A i \in 0..n : g[i] = IF i = 0 THEN {} ELSE {i} \cup g[w[i].parent]
           Walked == {n \in 0..Len(w) : \E g : Up(n, g)}
           Climb(h) == [i \in 0..Len(w) |-> IF i = 0 THEN {} ELSE {i} \cup h[w[i].parent]]
           above == CHOOSE h : h = Climb(h)
<1>1. /\ Len(w) \in Nat /\ DOMAIN w = 1..Len(w)
      /\ \A i \in 1..Len(w) : w[i].parent \in 0..(i - 1)
  BY WorkFields DEF Founded
<1>2. ASSUME NEW n \in 0..Len(w), \A m \in 0..(n - 1) : m \in Walked
      PROVE  n \in Walked
  <2>1. CASE n = 0
    <3>1. Up(0, [i \in 0..0 |-> {}])
      OBVIOUS
    <3> QED
      BY <2>1, <3>1
  <2>2. CASE n # 0
    <3>1. n - 1 \in Walked
      <4> HIDE DEF Walked
      <4> QED
        BY <1>1, <1>2, <2>2
    <3>2. PICK g : Up(n - 1, g)
      BY <3>1
    <3> DEFINE h == [i \in 0..n |-> IF i = n THEN {n} \cup g[w[n].parent] ELSE g[i]]
    <3>3. ASSUME NEW i \in 0..n, i # 0
          PROVE  h[i] = {i} \cup h[w[i].parent]
      <4>1. w[i].parent \in 0..(i - 1)
        BY <1>1, <3>3
      <4>2. h[w[i].parent] = g[w[i].parent]
        BY <1>1, <4>1
      <4> QED
        BY <1>1, <2>2, <3>2, <3>3, <4>1, <4>2
    <3>4. h[0] = {}
      BY <1>1, <2>2, <3>2
    <3>5. Up(n, h)
      BY <3>3, <3>4
    <3> QED
      BY <3>5
  <2> QED
    BY <2>1, <2>2
<1>3. Len(w) \in Walked
  <2> HIDE DEF Walked
  <2>1. \A n \in 0..Len(w) : n \in Walked
    BY <1>1, <1>2, InductionUpTo
  <2> QED
    BY <1>1, <2>1
<1>4. PICK g : Up(Len(w), g)
  BY <1>3
<1>5. [i \in 0..Len(w) |-> g[i]] = Climb([i \in 0..Len(w) |-> g[i]])
  BY <1>1, <1>4
<1>6. above = Climb(above)
  BY <1>5
<1>7. \A i \in 0..Len(w) : Chain(w, i) = above[i]
  BY DEF Chain
<1>8. \A i \in 0..Len(w) : above[i] = IF i = 0 THEN {} ELSE {i} \cup above[w[i].parent]
  <2> HIDE DEF above
  <2> QED
    BY <1>6
<1> QED
  <2> HIDE DEF above
  <2>1. Chain(w, 0) = {}
    <3>1. 0 \in 0..Len(w)
      BY <1>1
    <3>2. Chain(w, 0) = above[0] /\ above[0] = {}
      BY <1>7, <1>8, <3>1
    <3> QED
      BY <3>2
  <2>2. ASSUME NEW i \in DOMAIN w
        PROVE  Chain(w, i) = {i} \cup Chain(w, w[i].parent)
    <3>1. i \in 0..Len(w) /\ i # 0 /\ w[i].parent \in 0..Len(w)
      BY <1>1
    <3> QED
      BY <1>7, <1>8, <3>1
  <2> QED
    BY <2>1, <2>2

\* A chain is a finite set of work no younger than where it starts.
LEMMA ChainBelow ==
    ASSUME NEW w \in Works, Founded(w)
    PROVE  \A i \in 0..Len(w) : Chain(w, i) \subseteq 1..i /\ IsFiniteSet(Chain(w, i))
<1> DEFINE Below == {i \in 0..Len(w) : Chain(w, i) \subseteq 1..i}
<1>1. Len(w) \in Nat /\ DOMAIN w = 1..Len(w)
  BY WorkFields
<1>2. ASSUME NEW i \in 0..Len(w), \A m \in 0..(i - 1) : m \in Below
      PROVE  i \in Below
  <2>1. CASE i = 0
    BY <2>1, ChainUnfolds
  <2>2. CASE i # 0
    <3>1. i \in DOMAIN w /\ w[i].parent \in 0..(i - 1)
      BY <1>1, <2>2, WorkFields DEF Founded
    <3>2. w[i].parent \in Below
      <4> HIDE DEF Below
      <4> QED
        BY <1>2, <3>1
    <3>3. Chain(w, w[i].parent) \subseteq 1..w[i].parent
      BY <3>2
    <3>4. 1..w[i].parent \subseteq 1..i /\ i \in 1..i
      BY <1>1, <2>2, <3>1
    <3>5. Chain(w, i) = {i} \cup Chain(w, w[i].parent)
      BY <3>1, ChainUnfolds
    <3> QED
      BY <3>3, <3>4, <3>5
  <2> QED
    BY <2>1, <2>2
<1>3. \A i \in 0..Len(w) : i \in Below
  <2> HIDE DEF Below
  <2> QED
    BY <1>1, <1>2, InductionUpTo
<1>4. \A i \in 0..Len(w) : IsFiniteSet(1..i)
  BY <1>1, FS_Interval
<1> QED
  BY <1>3, <1>4, FS_Subset

\* Chains depend on the parents only: a graph that grows, or changes its
\* states, keeps them.
LEMMA ChainKept ==
    ASSUME NEW w \in Works, Founded(w), NEW v \in Works, Founded(v), Len(w) <= Len(v),
           \A i \in DOMAIN w : v[i].parent = w[i].parent
    PROVE  \A i \in 0..Len(w) : Chain(v, i) = Chain(w, i)
<1> DEFINE Same == {i \in 0..Len(w) : Chain(v, i) = Chain(w, i)}
<1>1. /\ Len(w) \in Nat /\ DOMAIN w = 1..Len(w)
      /\ Len(v) \in Nat /\ DOMAIN v = 1..Len(v)
  BY WorkFields
<1>2. ASSUME NEW i \in 0..Len(w), \A m \in 0..(i - 1) : m \in Same
      PROVE  i \in Same
  <2>1. CASE i = 0
    <3>1. Chain(v, 0) = {} /\ Chain(w, 0) = {}
      BY ChainUnfolds
    <3> QED
      BY <2>1, <3>1
  <2>2. CASE i # 0
    <3>1. /\ i \in DOMAIN w /\ i \in DOMAIN v /\ w[i].parent \in 0..(i - 1)
          /\ v[i].parent = w[i].parent
      BY <1>1, <2>2, WorkFields DEF Founded
    <3>2. w[i].parent \in Same
      <4> HIDE DEF Same
      <4> QED
        BY <1>2, <3>1
    <3>3. Chain(v, i) = {i} \cup Chain(v, v[i].parent)
      BY <3>1, ChainUnfolds
    <3>4. Chain(w, i) = {i} \cup Chain(w, w[i].parent)
      BY <3>1, ChainUnfolds
    <3> QED
      BY <3>1, <3>2, <3>3, <3>4
  <2> QED
    BY <2>1, <2>2
<1>3. \A i \in 0..Len(w) : i \in Same
  <2> HIDE DEF Same
  <2> QED
    BY <1>1, <1>2, InductionUpTo
<1> QED
  BY <1>3

-----------------------------------------------------------------------------
(* The operations on a graph *)

\* A change of states and reasons leaves requests, parents and depths alone.
LEMMA ShapeKept ==
    ASSUME NEW w \in Works, Founded(w), DepthCounted(w), Admitted(w),
           NEW v \in Works, DOMAIN v = DOMAIN w,
           \A i \in DOMAIN w :
              /\ v[i].parent = w[i].parent /\ v[i].depth = w[i].depth
              /\ v[i].request = w[i].request
              /\ v[i].state # "Recovered" => w[i].state # "Recovered"
    PROVE  /\ Founded(v) /\ DepthCounted(v) /\ Admitted(v)
           /\ \A i \in 0..Len(w) : Chain(v, i) = Chain(w, i)
<1>1. /\ Len(w) \in Nat /\ DOMAIN w = 1..Len(w)
      /\ Len(v) \in Nat /\ DOMAIN v = 1..Len(v)
  BY WorkFields
<1>2. Len(v) = Len(w)
  BY <1>1
<1>3. Founded(v)
  BY DEF Founded
<1>4. \A i \in 0..Len(w) : Chain(v, i) = Chain(w, i)
  BY <1>1, <1>2, <1>3, ChainKept
<1>5. DepthCounted(v)
  BY <1>1, <1>4 DEF DepthCounted
<1>6. Admitted(v)
  <2> SUFFICES ASSUME NEW i \in DOMAIN w, v[i].state # "Recovered"
               PROVE  /\ v[i].depth <= ActiveDepth
                      /\ \A a, b \in Chain(w, i) :
                            v[a].request.key = v[b].request.key => a = b
    BY <1>1, <1>4 DEF Admitted
  <2>1. /\ w[i].depth <= ActiveDepth
        /\ \A a, b \in Chain(w, i) : w[a].request.key = w[b].request.key => a = b
    BY DEF Admitted
  <2>2. \A a \in Chain(w, i) : a \in DOMAIN w
    BY <1>1, ChainBelow
  <2> QED
    BY <2>1, <2>2
<1> QED
  BY <1>3, <1>4, <1>5, <1>6

\* What enqueueing leaves of a graph: all it had, and nothing new is active.
Extends(v, w) ==
    /\ Len(w) <= Len(v)
    /\ \A i \in DOMAIN w : v[i] = w[i]
    /\ \A i \in DOMAIN v \ DOMAIN w : v[i].state # "Active"

\* enqueue_internal admits work or recovers it at once, and touches no other.
LEMMA EnqueueInternalSound ==
    ASSUME NEW w, Sound(w), NEW request \in Requests, NEW parent \in 0..Len(w)
    PROVE  /\ Sound(EnqueueInternal(w, request, parent))
           /\ Extends(EnqueueInternal(w, request, parent), w)
           /\ Len(EnqueueInternal(w, request, parent)) = Len(w) + 1
<1> DEFINE v == EnqueueInternal(w, request, parent)
           n == Len(w) + 1
<1>1. w \in Works /\ Founded(w) /\ DepthCounted(w) /\ Admitted(w) /\ Waiting(w) /\ Explained(w)
  BY DEF Sound
<1>2. Len(w) \in Nat /\ DOMAIN w = 1..Len(w)
  BY <1>1, WorkFields
<1>3. Depth(w, parent) \in Nat /\ (parent # 0 => parent \in DOMAIN w /\ w[parent].state \in States)
  BY <1>1, <1>2, WorkFields DEF Depth
<1>4. PICK x \in Pieces :
         /\ v = Append(w, x)
         /\ x.request = request /\ x.parent = parent /\ x.depth = Depth(w, parent)
         /\ x.state # "Active" /\ x.state # "Completed"
         /\ x.state # "Recovered" =>
               x.depth <= ActiveDepth /\ CycleChain(w, request, parent) = {}
         /\ x.state = "Ready" => parent = 0 \/ w[parent].state = "Completed"
         /\ x.state = "Pending" => parent # 0 /\ w[parent].state \notin {"Completed", "Recovered"}
         /\ x.reason = "Dependency" => parent # 0 /\ w[parent].state = "Recovered"
         /\ x.reason \notin {"ExecutionFailure", "Executions", "GeneratedNodes"}
  <2> DEFINE as(state, reason) == [request |-> request, parent |-> parent,
                                   depth |-> Depth(w, parent), state |-> state, reason |-> reason]
             x == IF Depth(w, parent) > ActiveDepth THEN as("Recovered", "ActiveDepth")
                  ELSE IF CycleChain(w, request, parent) # {} THEN as("Recovered", "Cycle")
                  ELSE IF parent = 0 \/ w[parent].state = "Completed" THEN as("Ready", "none")
                  ELSE IF w[parent].state = "Recovered" THEN as("Recovered", "Dependency")
                  ELSE as("Pending", "none")
  <2>1. v = Append(w, x)
    BY DEF EnqueueInternal
  <2>2. \A state \in States, reason \in Reasons : as(state, reason) \in Pieces
    BY <1>2, <1>3 DEF Pieces
  <2>3. x \in Pieces
    <3>1. x \in {as("Recovered", "ActiveDepth"), as("Recovered", "Cycle"), as("Ready", "none"),
                 as("Recovered", "Dependency"), as("Pending", "none")}
      OBVIOUS
    <3> HIDE DEF as, x
    <3> QED
      BY <2>2, <3>1 DEF States, Reasons
  <2>4. /\ x.request = request /\ x.parent = parent /\ x.depth = Depth(w, parent)
        /\ x.state # "Active" /\ x.state # "Completed"
    OBVIOUS
  <2>5. ActiveDepth \in Nat
    BY SchedulerAssumption
  <2>6. /\ x.state # "Recovered" =>
             x.depth <= ActiveDepth /\ CycleChain(w, request, parent) = {}
        /\ x.state = "Ready" => parent = 0 \/ w[parent].state = "Completed"
        /\ x.state = "Pending" => parent # 0 /\ w[parent].state \notin {"Completed", "Recovered"}
        /\ x.reason = "Dependency" => parent # 0 /\ w[parent].state = "Recovered"
        /\ x.reason \notin {"ExecutionFailure", "Executions", "GeneratedNodes"}
    BY <1>3, <2>5
  <2> HIDE DEF x
  <2> QED
    BY <2>1, <2>3, <2>4, <2>6
<1>5. /\ v \in Works /\ Len(v) = n /\ DOMAIN v = 1..n
      /\ \A i \in DOMAIN w : v[i] = w[i]
      /\ v[n] = x
  <2>1. w \in Seq(Pieces)
    BY <1>1 DEF Works
  <2> HIDE DEF v
  <2> QED
    BY <1>2, <1>4, <2>1, AppendProperties DEF Works
<1> HIDE DEF v
<1>6. DOMAIN v = DOMAIN w \cup {n} /\ n \notin DOMAIN w /\ n # 0
  BY <1>2, <1>5
<1>7. Founded(v)
  BY <1>1, <1>2, <1>4, <1>5, <1>6 DEF Founded
<1>8. \A i \in 0..Len(w) : Chain(v, i) = Chain(w, i)
  BY <1>1, <1>2, <1>5, <1>7, ChainKept
<1>9. Chain(v, n) = {n} \cup Chain(w, parent)
  <2>1. Chain(v, n) = {n} \cup Chain(v, v[n].parent)
    BY <1>5, <1>6, <1>7, ChainUnfolds
  <2>2. v[n].parent = parent
    BY <1>4, <1>5
  <2> QED
    BY <1>8, <2>1, <2>2
<1>10. \A i \in 0..Len(w) : IsFiniteSet(Chain(w, i)) /\ \A a \in Chain(w, i) : a \in DOMAIN w
  BY <1>1, <1>2, ChainBelow
<1>11. DepthCounted(v)
  <2>1. \A i \in DOMAIN w : v[i].depth = Cardinality(Chain(v, i))
    BY <1>1, <1>2, <1>5, <1>8 DEF DepthCounted
  <2>2. v[n].depth = Cardinality(Chain(v, n))
    <3>1. Cardinality(Chain(v, n)) = Cardinality(Chain(w, parent)) + 1
      <4>1. n \notin Chain(w, parent) /\ IsFiniteSet(Chain(w, parent))
        BY <1>6, <1>10
      <4>2. Cardinality(Chain(w, parent) \cup {n}) = Cardinality(Chain(w, parent)) + 1
        BY <4>1, CardinalityStep
      <4> QED
        BY <1>9, <4>2
    <3>2. CASE parent = 0
      <4>1. Cardinality(Chain(w, parent)) = 0
        BY <1>1, <3>2, ChainUnfolds, FS_EmptySet
      <4> QED
        BY <1>4, <1>5, <3>1, <3>2, <4>1 DEF Depth
    <3>3. CASE parent # 0
      <4>1. Cardinality(Chain(w, parent)) = w[parent].depth
        BY <1>1, <1>3, <3>3 DEF DepthCounted
      <4> QED
        BY <1>4, <1>5, <3>1, <3>3, <4>1 DEF Depth
    <3> QED
      BY <3>2, <3>3
  <2> QED
    BY <1>6, <2>1, <2>2 DEF DepthCounted
<1>12. \A i \in DOMAIN w : \A a \in Chain(v, i) : v[a] = w[a]
  BY <1>2, <1>5, <1>8, <1>10
<1>13. Admitted(v)
  <2>1. ASSUME NEW i \in DOMAIN w, v[i].state # "Recovered"
        PROVE  /\ v[i].depth <= ActiveDepth
               /\ \A a, b \in Chain(v, i) : v[a].request.key = v[b].request.key => a = b
    <3>1. /\ w[i].depth <= ActiveDepth
          /\ \A a, b \in Chain(w, i) : w[a].request.key = w[b].request.key => a = b
      BY <1>1, <1>5, <2>1 DEF Admitted
    <3>2. Chain(v, i) = Chain(w, i)
      BY <1>2, <1>8
    <3> QED
      BY <1>5, <1>12, <3>1, <3>2
  <2>2. ASSUME v[n].state # "Recovered"
        PROVE  /\ v[n].depth <= ActiveDepth
               /\ \A a, b \in Chain(v, n) : v[a].request.key = v[b].request.key => a = b
    <3>1. \A a \in Chain(w, parent) : w[a].request.key # request.key
      BY <1>4, <1>5, <2>2 DEF CycleChain
    <3>2. \A a, b \in Chain(w, parent) : w[a].request.key = w[b].request.key => a = b
      <4>1. CASE parent = 0
        BY <1>1, <4>1, ChainUnfolds
      <4>2. CASE parent # 0
        <5>1. w[parent].state # "Recovered"
          <6>1. x.state \in States /\ x.state # "Recovered"
            BY <1>5, <2>2 DEF Pieces
          <6> QED
            BY <1>4, <4>2, <6>1 DEF States
        <5> QED
          BY <1>1, <1>3, <4>2, <5>1 DEF Admitted
      <4> QED
        BY <4>1, <4>2
    <3>3. \A a \in Chain(w, parent) : v[a] = w[a]
      BY <1>5, <1>10
    <3>4. v[n].request = request /\ v[n].depth <= ActiveDepth
      BY <1>4, <1>5, <2>2
    <3>5. ASSUME NEW a \in Chain(v, n), NEW b \in Chain(v, n), v[a].request.key = v[b].request.key
          PROVE  a = b
      <4>1. (a = n \/ a \in Chain(w, parent)) /\ (b = n \/ b \in Chain(w, parent))
        BY <1>9
      <4> QED
        BY <3>1, <3>2, <3>3, <3>4, <3>5, <4>1
    <3> QED
      BY <3>4, <3>5
  <2> QED
    BY <1>6, <2>1, <2>2 DEF Admitted
<1>14. Waiting(v)
  <2>1. ASSUME NEW i \in DOMAIN w
        PROVE  /\ v[i].state = "Pending" =>
                     /\ v[i].parent # 0
                     /\ v[v[i].parent].state \in {"Pending", "Ready", "Active"}
               /\ v[i].state \in {"Ready", "Active", "Completed"} =>
                     \A a \in Chain(v, v[i].parent) : v[a].state = "Completed"
    <3>1. w[i].parent \in 0..Len(w) /\ (w[i].parent # 0 => w[i].parent \in DOMAIN w)
      BY <1>1, <1>2, WorkFields DEF Founded
    <3>2. \A a \in Chain(w, w[i].parent) : v[a] = w[a]
      BY <1>5, <1>10, <3>1
    <3>3. Chain(v, w[i].parent) = Chain(w, w[i].parent)
      BY <1>8, <3>1
    <3> QED
      BY <1>1, <1>5, <3>1, <3>2, <3>3 DEF Waiting
  <2>2. v[n].state = "Pending" =>
           /\ v[n].parent # 0
           /\ v[v[n].parent].state \in {"Pending", "Ready", "Active"}
    BY <1>3, <1>4, <1>5 DEF States
  <2>3. ASSUME v[n].state \in {"Ready", "Active", "Completed"}
        PROVE  \A a \in Chain(v, v[n].parent) : v[a].state = "Completed"
    <3>1. Chain(v, v[n].parent) = Chain(w, parent)
      BY <1>4, <1>5, <1>8
    <3>2. parent = 0 \/ w[parent].state = "Completed"
      BY <1>4, <1>5, <2>3
    <3>3. CASE parent = 0
      BY <1>1, <3>1, <3>3, ChainUnfolds
    <3>4. CASE parent # 0
      <4>1. Chain(w, parent) = {parent} \cup Chain(w, w[parent].parent)
        BY <1>1, <1>3, <3>4, ChainUnfolds
      <4>2. \A a \in Chain(w, parent) : w[a].state = "Completed"
        BY <1>1, <1>3, <3>2, <3>4, <4>1 DEF Waiting
      <4> QED
        BY <1>5, <1>10, <3>1, <4>2
    <3> QED
      BY <3>3, <3>4
  <2> QED
    BY <1>6, <2>1, <2>2, <2>3 DEF Waiting
<1>15. Explained(v)
  <2>1. ASSUME NEW i \in DOMAIN w, v[i].state = "Recovered"
        PROVE  /\ v[i].reason = "Dependency" =>
                     v[i].parent # 0 /\ v[v[i].parent].state = "Recovered"
               /\ v[i].reason \in {"ExecutionFailure", "Executions", "GeneratedNodes"} =>
                     v[i].parent = 0 \/ v[v[i].parent].state = "Completed"
    <3>1. w[i].parent # 0 => w[i].parent \in DOMAIN w
      BY <1>1, <1>2, WorkFields DEF Founded
    <3> QED
      BY <1>1, <1>5, <2>1, <3>1 DEF Explained
  <2>2. /\ v[n].reason = "Dependency" => v[n].parent # 0 /\ v[v[n].parent].state = "Recovered"
        /\ v[n].reason \notin {"ExecutionFailure", "Executions", "GeneratedNodes"}
    BY <1>3, <1>4, <1>5
  <2> QED
    BY <1>6, <2>1, <2>2 DEF Explained
<1>16. Extends(v, w)
  BY <1>2, <1>4, <1>5, <1>6 DEF Extends
<1> QED
  BY <1>5, <1>7, <1>11, <1>13, <1>14, <1>15, <1>16 DEF Sound, v

LEMMA ExtendsTransitive ==
    ASSUME NEW u \in Works, NEW v \in Works, NEW w \in Works, Extends(v, u), Extends(w, v)
    PROVE  Extends(w, u)
BY WorkFields DEF Extends

\* What a loop that enqueues may do to w.
Grown(w) == {v \in Works : Sound(v) /\ Extends(v, w)}

LEMMA EnqueueGrows ==
    ASSUME NEW w, Sound(w), NEW v \in Grown(w), NEW request \in Requests, NEW parent \in 0..Len(v)
    PROVE  EnqueueInternal(v, request, parent) \in Grown(w)
<1>1. w \in Works /\ v \in Works /\ Sound(v) /\ Extends(v, w)
  BY DEF Grown, Sound
<1>2. /\ Sound(EnqueueInternal(v, request, parent))
      /\ Extends(EnqueueInternal(v, request, parent), v)
  BY <1>1, EnqueueInternalSound
<1>3. EnqueueInternal(v, request, parent) \in Works
  BY <1>2 DEF Sound
<1> QED
  BY <1>1, <1>2, <1>3, ExtendsTransitive DEF Grown

LEMMA NothingGrown ==
    ASSUME NEW w, Sound(w)
    PROVE  w \in Grown(w)
BY WorkFields DEF Grown, Extends, Sound

\* The three loops that enqueue: the chain of a definition, the invocations of
\* an output, and its definitions one after the other.
LEMMA EnqueueDefinitionGrows ==
    ASSUME NEW w, Sound(w), NEW u \in Grown(w), NEW definition \in Seq(Requests),
           NEW generated_by \in 0..Len(w)
    PROVE  EnqueueDefinition(u, definition, generated_by) \in Grown(w)
<1> DEFINE N == Len(definition)
           Turn(n, v) == EnqueueInternal(v, definition[n], IF n = 1 THEN generated_by ELSE Len(v))
           Loop(h) == [n \in 0..N |-> IF n = 0 THEN u ELSE Turn(n, h[n - 1])]
           after == CHOOSE h : h = Loop(h)
           F == [n \in 1..N |-> [v \in Grown(w) |-> Turn(n, v)]]
           S == [n \in 0..N |-> Grown(w)]
<1>1. N \in Nat /\ u \in Grown(w) /\ \A n \in 1..N : definition[n] \in Requests
  BY ElementOfSeq
<1>2. ASSUME NEW n \in 1..N, NEW v \in Grown(w) PROVE Turn(n, v) \in Grown(w)
  <2>1. w \in Works /\ v \in Works /\ Len(w) <= Len(v)
    BY DEF Grown, Extends, Sound
  <2>2. generated_by \in 0..Len(v) /\ Len(v) \in 0..Len(v)
    BY <2>1, WorkFields
  <2> QED
    BY <1>1, <2>2, EnqueueGrows
<1>3. \A n \in 1..N : F[n] \in [Grown(w) -> Grown(w)]
  BY <1>2
<1>4. LoopRuns(N, S, u, F)
  <2>1. u \in S[0] /\ \A n \in 1..N : F[n] \in [S[n - 1] -> S[n]]
    BY <1>1, <1>3
  <2> HIDE DEF F, N, S
  <2> QED
    BY <1>1, <2>1, Iteration
<1>5. PICK g : IsLoop(g, N, u, F) /\ \A n \in 0..N : g[n] \in Grown(w)
  BY <1>4 DEF LoopRuns
<1> DEFINE table == [n \in 0..N |-> g[n]]
<1>6. table = Loop(table)
  <2>1. ASSUME NEW n \in 0..N, n # 0 PROVE g[n] = Turn(n, g[n - 1])
    <3>1. n \in 1..N /\ n - 1 \in 0..N
      BY <1>1, <2>1
    <3>2. g[n - 1] \in Grown(w) /\ g[n] = F[n][g[n - 1]]
      BY <1>5, <3>1 DEF IsLoop
    <3> HIDE DEF Turn
    <3> QED
      BY <3>1, <3>2
  <2>2. \A n \in 1..N : n - 1 \in 0..N
    BY <1>1
  <2> HIDE DEF Turn, F
  <2> QED
    BY <1>5, <2>1, <2>2 DEF IsLoop
<1> HIDE DEF Turn, table
<1>7. after = Loop(after)
  BY <1>6
<1>8. \A n \in 0..N : after[n] \in Grown(w)
  <2> HIDE DEF after
  <2>1. after[0] = u /\ \A n \in 1..N : after[n] = Turn(n, after[n - 1])
    BY <1>1, <1>7
  <2>2. /\ after[0] \in S[0]
        /\ \A n \in 1..N : after[n - 1] \in S[n - 1] => after[n] \in S[n]
    BY <1>1, <1>2, <2>1
  <2>3. \A n \in 0..N : after[n] \in S[n]
    <3> HIDE DEF N, S
    <3> QED
      BY <1>1, <2>2, LoopKeeps
  <2> QED
    BY <2>3
<1>9. EnqueueDefinition(u, definition, generated_by) = after[N]
  BY DEF EnqueueDefinition, Turn
<1> QED
  <2> HIDE DEF after
  <2> QED
    BY <1>1, <1>8, <1>9

LEMMA EnqueueInvocationsGrows ==
    ASSUME NEW w, Sound(w), NEW invocations \in Seq(Requests), NEW id \in 0..Len(w)
    PROVE  EnqueueInvocations(w, invocations, id) \in Grown(w)
<1> DEFINE N == Len(invocations)
           Turn(n, v) == EnqueueInternal(v, invocations[n], id)
           Loop(h) == [n \in 0..N |-> IF n = 0 THEN w ELSE Turn(n, h[n - 1])]
           after == CHOOSE h : h = Loop(h)
           F == [n \in 1..N |-> [v \in Grown(w) |-> Turn(n, v)]]
           S == [n \in 0..N |-> Grown(w)]
<1>1. N \in Nat /\ w \in Grown(w) /\ \A n \in 1..N : invocations[n] \in Requests
  BY ElementOfSeq, NothingGrown
<1>2. ASSUME NEW n \in 1..N, NEW v \in Grown(w) PROVE Turn(n, v) \in Grown(w)
  <2>1. w \in Works /\ v \in Works /\ Len(w) <= Len(v)
    BY DEF Grown, Extends, Sound
  <2>2. id \in 0..Len(v)
    BY <2>1, WorkFields
  <2> QED
    BY <1>1, <2>2, EnqueueGrows
<1>3. \A n \in 1..N : F[n] \in [Grown(w) -> Grown(w)]
  BY <1>2
<1>4. LoopRuns(N, S, w, F)
  <2>1. w \in S[0] /\ \A n \in 1..N : F[n] \in [S[n - 1] -> S[n]]
    BY <1>1, <1>3
  <2> HIDE DEF F, N, S
  <2> QED
    BY <1>1, <2>1, Iteration
<1>5. PICK g : IsLoop(g, N, w, F) /\ \A n \in 0..N : g[n] \in Grown(w)
  BY <1>4 DEF LoopRuns
<1> DEFINE table == [n \in 0..N |-> g[n]]
<1>6. table = Loop(table)
  <2>1. ASSUME NEW n \in 0..N, n # 0 PROVE g[n] = Turn(n, g[n - 1])
    <3>1. n \in 1..N /\ n - 1 \in 0..N
      BY <1>1, <2>1
    <3>2. g[n - 1] \in Grown(w) /\ g[n] = F[n][g[n - 1]]
      BY <1>5, <3>1 DEF IsLoop
    <3> HIDE DEF Turn
    <3> QED
      BY <3>1, <3>2
  <2>2. \A n \in 1..N : n - 1 \in 0..N
    BY <1>1
  <2> HIDE DEF Turn, F
  <2> QED
    BY <1>5, <2>1, <2>2 DEF IsLoop
<1> HIDE DEF Turn, table
<1>7. after = Loop(after)
  BY <1>6
<1>8. \A n \in 0..N : after[n] \in Grown(w)
  <2> HIDE DEF after
  <2>1. after[0] = w /\ \A n \in 1..N : after[n] = Turn(n, after[n - 1])
    BY <1>1, <1>7
  <2>2. /\ after[0] \in S[0]
        /\ \A n \in 1..N : after[n - 1] \in S[n - 1] => after[n] \in S[n]
    BY <1>1, <1>2, <2>1
  <2>3. \A n \in 0..N : after[n] \in S[n]
    <3> HIDE DEF N, S
    <3> QED
      BY <1>1, <2>2, LoopKeeps
  <2> QED
    BY <2>3
<1>9. EnqueueInvocations(w, invocations, id) = after[N]
  BY DEF EnqueueInvocations, Turn
<1> QED
  <2> HIDE DEF after
  <2> QED
    BY <1>1, <1>8, <1>9

LEMMA EnqueueOutputGrows ==
    ASSUME NEW w, Sound(w), NEW output \in Outputs, NEW id \in 0..Len(w)
    PROVE  EnqueueOutput(w, output, id) \in Grown(w)
<1> DEFINE first == EnqueueInvocations(w, output.invocations, id)
           N == Len(output.definitions)
           Turn(n, v) == EnqueueDefinition(v, output.definitions[n], id)
           Loop(h) == [n \in 0..N |-> IF n = 0 THEN first ELSE Turn(n, h[n - 1])]
           after == CHOOSE h : h = Loop(h)
           F == [n \in 1..N |-> [v \in Grown(w) |-> Turn(n, v)]]
           S == [n \in 0..N |-> Grown(w)]
<1>1. /\ N \in Nat /\ first \in Grown(w)
      /\ \A n \in 1..N : output.definitions[n] \in Seq(Requests)
  <2>1. output.invocations \in Seq(Requests) /\ output.definitions \in Seq(Seq(Requests))
    BY SchedulerAssumption
  <2> QED
    BY <2>1, ElementOfSeq, EnqueueInvocationsGrows
<1>2. ASSUME NEW n \in 1..N, NEW v \in Grown(w) PROVE Turn(n, v) \in Grown(w)
  BY <1>1, EnqueueDefinitionGrows
<1>3. \A n \in 1..N : F[n] \in [Grown(w) -> Grown(w)]
  BY <1>2
<1>4. LoopRuns(N, S, first, F)
  <2>1. first \in S[0] /\ \A n \in 1..N : F[n] \in [S[n - 1] -> S[n]]
    <3>1. first \in Grown(w) /\ N \in Nat
      BY <1>1
    <3> HIDE DEF first, N, F
    <3> QED
      BY <1>3, <3>1
  <2> HIDE DEF F, N, S
  <2> QED
    BY <1>1, <2>1, Iteration
<1>5. PICK g : IsLoop(g, N, first, F) /\ \A n \in 0..N : g[n] \in Grown(w)
  BY <1>4 DEF LoopRuns
<1> DEFINE table == [n \in 0..N |-> g[n]]
<1>6. table = Loop(table)
  <2>1. ASSUME NEW n \in 0..N, n # 0 PROVE g[n] = Turn(n, g[n - 1])
    <3>1. n \in 1..N /\ n - 1 \in 0..N
      BY <1>1, <2>1
    <3>2. g[n - 1] \in Grown(w) /\ g[n] = F[n][g[n - 1]]
      BY <1>5, <3>1 DEF IsLoop
    <3> HIDE DEF Turn
    <3> QED
      BY <3>1, <3>2
  <2>2. \A n \in 1..N : n - 1 \in 0..N
    BY <1>1
  <2> HIDE DEF Turn, F
  <2> QED
    BY <1>5, <2>1, <2>2 DEF IsLoop
<1> HIDE DEF Turn, table
<1>7. after = Loop(after)
  BY <1>6
<1> HIDE DEF first
<1>8. \A n \in 0..N : after[n] \in Grown(w)
  <2> HIDE DEF after
  <2>1. after[0] = first /\ \A n \in 1..N : after[n] = Turn(n, after[n - 1])
    <3>1. N \in Nat
      BY <1>1
    <3> HIDE DEF N
    <3> QED
      BY <1>7, <3>1
  <2>2. /\ after[0] \in S[0]
        /\ \A n \in 1..N : after[n - 1] \in S[n - 1] => after[n] \in S[n]
    BY <1>1, <1>2, <2>1
  <2>3. \A n \in 0..N : after[n] \in S[n]
    <3> HIDE DEF N, S
    <3> QED
      BY <1>1, <2>2, LoopKeeps
  <2> QED
    BY <2>3
<1>9. EnqueueOutput(w, output, id) = after[N]
  BY DEF EnqueueOutput, Turn, first
<1> QED
  <2> HIDE DEF after
  <2> QED
    BY <1>1, <1>8, <1>9

\* The facts about one piece of work that the changes of state below share.
LEMMA Above ==
    ASSUME NEW w, Sound(w), NEW i \in DOMAIN w
    PROVE  /\ w[i].parent \in 0..Len(w) /\ w[i].state \in States
           /\ w[i].parent # 0 => w[i].parent \in DOMAIN w /\ w[i].parent \in Chain(w, w[i].parent)
           /\ Chain(w, i) = {i} \cup Chain(w, w[i].parent)
           /\ \A a \in Chain(w, i) : a \in DOMAIN w
           /\ \A a \in Chain(w, w[i].parent) : a \in DOMAIN w
           /\ w[i].state \in {"Ready", "Active", "Completed"} =>
                 \A a \in Chain(w, w[i].parent) : w[a].state = "Completed"
<1>1. w \in Works /\ Founded(w) /\ Waiting(w)
  BY DEF Sound
<1>2. Len(w) \in Nat /\ DOMAIN w = 1..Len(w) /\ w[i].parent \in 0..(i - 1) /\ w[i].state \in States
  BY <1>1, WorkFields DEF Founded
<1>3. w[i].parent # 0 => w[i].parent \in DOMAIN w
  BY <1>2
<1>4. Chain(w, i) = {i} \cup Chain(w, w[i].parent)
  BY <1>1, ChainUnfolds
<1>5. w[i].parent # 0 => w[i].parent \in Chain(w, w[i].parent)
  BY <1>1, <1>3, ChainUnfolds
<1>6. \A a \in Chain(w, i) : a \in DOMAIN w
  BY <1>1, <1>2, ChainBelow
<1> QED
  BY <1>1, <1>2, <1>3, <1>4, <1>5, <1>6 DEF Waiting

Failures == {"ExecutionFailure", "Executions", "GeneratedNodes"}

\* recover gives up the work and all that waits for it, and explains both.
LEMMA RecoverSound ==
    ASSUME NEW w, Sound(w), NEW id \in DOMAIN w, w[id].state \in {"Ready", "Active"},
           NEW reason \in Failures
    PROVE  /\ Sound(Recover(w, id, reason))
           /\ DOMAIN Recover(w, id, reason) = DOMAIN w
           /\ \A i \in DOMAIN w :
                 Recover(w, id, reason)[i].state = "Active" => i # id /\ w[i].state = "Active"
<1> DEFINE v == Recover(w, id, reason)
           Given(i) == w[i].state = "Pending" /\ id \in Chain(w, i)
<1>1. w \in Works /\ Founded(w) /\ DepthCounted(w) /\ Admitted(w) /\ Waiting(w) /\ Explained(w)
  BY DEF Sound
<1>2. /\ Len(w) \in Nat /\ DOMAIN w = 1..Len(w)
      /\ \A i \in DOMAIN w : w[i] \in Pieces
  BY <1>1, WorkFields
<1>3. /\ DOMAIN v = DOMAIN w
      /\ \A i \in DOMAIN w :
            /\ v[i] \in Pieces
            /\ v[i].parent = w[i].parent /\ v[i].depth = w[i].depth /\ v[i].request = w[i].request
            /\ v[i].state = IF i = id \/ Given(i) THEN "Recovered" ELSE w[i].state
            /\ v[i].reason = IF i = id THEN reason
                             ELSE IF Given(i) THEN "Dependency" ELSE w[i].reason
  <2>1. DOMAIN v = DOMAIN w
    BY DEF Recover
  <2>3. reason \in Reasons /\ "Dependency" \in Reasons /\ "Recovered" \in States
    BY DEF Failures, Reasons, States
  <2>4. ASSUME NEW i \in DOMAIN w
        PROVE  v[i] = IF i = id THEN [w[i] EXCEPT !.state = "Recovered", !.reason = reason]
                      ELSE IF Given(i)
                      THEN [w[i] EXCEPT !.state = "Recovered", !.reason = "Dependency"]
                      ELSE w[i]
    BY DEF Recover
  <2> HIDE DEF v, Given
  <2>5. ASSUME NEW i \in DOMAIN w
        PROVE  /\ v[i] \in Pieces
               /\ v[i].parent = w[i].parent /\ v[i].depth = w[i].depth /\ v[i].request = w[i].request
               /\ v[i].state = IF i = id \/ Given(i) THEN "Recovered" ELSE w[i].state
               /\ v[i].reason = IF i = id THEN reason
                                ELSE IF Given(i) THEN "Dependency" ELSE w[i].reason
    <3>1. CASE i = id
      BY <1>2, <2>3, <2>4, <3>1 DEF Pieces
    <3>2. CASE i # id /\ Given(i)
      <4>1. PICK x \in Pieces : x = w[i]
        BY <1>2
      <4>2. v[i] = [x EXCEPT !.state = "Recovered", !.reason = "Dependency"]
        BY <2>4, <3>2, <4>1
      <4>3. /\ v[i] \in Pieces /\ v[i].state = "Recovered" /\ v[i].reason = "Dependency"
            /\ v[i].parent = x.parent /\ v[i].depth = x.depth /\ v[i].request = x.request
        BY <2>3, <4>2 DEF Pieces
      <4> QED
        BY <3>2, <4>1, <4>3
    <3>3. CASE i # id /\ ~Given(i)
      BY <1>2, <2>4, <3>3
    <3> QED
      BY <3>1, <3>2, <3>3
  <2> QED
    BY <2>1, <2>5
<1>4. v \in Works
  <2>1. v = [i \in 1..Len(w) |-> v[i]]
    BY <1>2 DEF Recover
  <2> HIDE DEF v
  <2> QED
    BY <1>2, <1>3, <2>1, SeqDef DEF Works
<1> HIDE DEF v, Given
<1>5. /\ Founded(v) /\ DepthCounted(v) /\ Admitted(v)
      /\ \A i \in 0..Len(w) : Chain(v, i) = Chain(w, i)
  BY <1>1, <1>3, <1>4, ShapeKept
<1>6. \A i \in DOMAIN w : w[i].state = "Completed" => v[i].state = "Completed"
  BY <1>3 DEF Given
<1>7. Waiting(v)
  <2> SUFFICES ASSUME NEW i \in DOMAIN w
               PROVE  /\ v[i].state = "Pending" =>
                            /\ v[i].parent # 0
                            /\ v[v[i].parent].state \in {"Pending", "Ready", "Active"}
                      /\ v[i].state \in {"Ready", "Active", "Completed"} =>
                            \A a \in Chain(v, v[i].parent) : v[a].state = "Completed"
    BY <1>3 DEF Waiting
  <2>1. ASSUME v[i].state = "Pending"
        PROVE  v[i].parent # 0 /\ v[v[i].parent].state \in {"Pending", "Ready", "Active"}
    <3>1. i # id /\ w[i].state = "Pending" /\ id \notin Chain(w, i)
      BY <1>3, <2>1 DEF Given
    <3>2. w[i].parent # 0 /\ w[w[i].parent].state \in {"Pending", "Ready", "Active"}
      BY <1>1, <3>1 DEF Waiting
    <3>3. w[i].parent \in DOMAIN w /\ w[i].parent # id /\ id \notin Chain(w, w[i].parent)
      BY <3>1, <3>2, Above
    <3> QED
      BY <1>3, <3>2, <3>3 DEF Given
  <2>2. ASSUME v[i].state \in {"Ready", "Active", "Completed"}
        PROVE  \A a \in Chain(v, v[i].parent) : v[a].state = "Completed"
    <3>1. w[i].state \in {"Ready", "Active", "Completed"}
      BY <1>3, <2>2
    <3>2. Chain(v, v[i].parent) = Chain(w, w[i].parent)
      BY <1>3, <1>5, Above
    <3> QED
      BY <1>6, <3>1, <3>2, Above
  <2> QED
    BY <2>1, <2>2
<1>8. Explained(v)
  <2> SUFFICES ASSUME NEW i \in DOMAIN w, v[i].state = "Recovered"
               PROVE  /\ v[i].reason = "Dependency" =>
                            v[i].parent # 0 /\ v[v[i].parent].state = "Recovered"
                      /\ v[i].reason \in Failures =>
                            v[i].parent = 0 \/ v[v[i].parent].state = "Completed"
    BY <1>3 DEF Explained, Failures
  <2>1. CASE i = id
    <3>1. w[i].parent = 0 \/ w[w[i].parent].state = "Completed"
      BY <2>1, Above
    <3>2. reason # "Dependency"
      BY DEF Failures
    <3> QED
      BY <1>3, <1>6, <2>1, <3>1, <3>2, Above
  <2>2. CASE i # id /\ Given(i)
    <3>1. w[i].state = "Pending" /\ id \in Chain(w, i) /\ v[i].reason = "Dependency"
      BY <1>3, <2>2 DEF Given
    <3>2. w[i].parent # 0 /\ w[w[i].parent].state \in {"Pending", "Ready", "Active"}
      BY <1>1, <3>1 DEF Waiting
    <3>3. w[i].parent \in DOMAIN w /\ id \in Chain(w, w[i].parent)
      BY <2>2, <3>1, <3>2, Above
    <3>4. w[i].parent = id \/ w[w[i].parent].state = "Pending"
      <4> SUFFICES ASSUME w[i].parent # id, w[w[i].parent].state \in {"Ready", "Active"}
                   PROVE  FALSE
        BY <3>2
      <4>1. /\ Chain(w, w[i].parent) = {w[i].parent} \cup Chain(w, w[w[i].parent].parent)
            /\ \A a \in Chain(w, w[w[i].parent].parent) : w[a].state = "Completed"
        BY <3>3, Above
      <4> QED
        BY <3>3, <4>1
    <3>5. v[w[i].parent].state = "Recovered"
      BY <1>3, <3>3, <3>4 DEF Given
    <3> QED
      BY <1>3, <3>1, <3>2, <3>5 DEF Failures
  <2>3. CASE i # id /\ ~Given(i)
    <3>1. w[i].state = "Recovered" /\ v[i].reason = w[i].reason /\ v[i].parent = w[i].parent
      BY <1>3, <2>3
    <3>2. \A j \in DOMAIN w : w[j].state = "Recovered" => v[j].state = "Recovered"
      BY <1>3
    <3> QED
      BY <1>1, <1>6, <3>1, <3>2, Above DEF Explained, Failures
  <2> QED
    BY <2>1, <2>2, <2>3
<1>9. \A i \in DOMAIN w : v[i].state = "Active" => i # id /\ w[i].state = "Active"
  BY <1>3
<1>10. Sound(v)
  BY <1>4, <1>5, <1>7, <1>8 DEF Sound
<1> QED
  BY <1>3, <1>9, <1>10 DEF v

\* complete makes ready what waited for id, and no more.
LEMMA CompletedSound ==
    ASSUME NEW w, Sound(w), NEW id \in DOMAIN w, w[id].state = "Active"
    PROVE  /\ Sound(Completed(w, id))
           /\ DOMAIN Completed(w, id) = DOMAIN w
           /\ \A i \in DOMAIN w :
                 Completed(w, id)[i].state = "Active" => i # id /\ w[i].state = "Active"
<1> DEFINE v == Completed(w, id)
           Given(i) == w[i].state = "Pending" /\ w[i].parent = id
<1>1. w \in Works /\ Founded(w) /\ DepthCounted(w) /\ Admitted(w) /\ Waiting(w) /\ Explained(w)
  BY DEF Sound
<1>2. /\ Len(w) \in Nat /\ DOMAIN w = 1..Len(w)
      /\ \A i \in DOMAIN w : w[i] \in Pieces
  BY <1>1, WorkFields
<1>3. /\ DOMAIN v = DOMAIN w
      /\ \A i \in DOMAIN w :
            /\ v[i] \in Pieces
            /\ v[i].parent = w[i].parent /\ v[i].depth = w[i].depth /\ v[i].request = w[i].request
            /\ v[i].state = IF i = id THEN "Completed" ELSE IF Given(i) THEN "Ready" ELSE w[i].state
            /\ v[i].reason = w[i].reason
  <2>1. DOMAIN v = DOMAIN w
    BY DEF Completed
  <2>3. "Completed" \in States /\ "Ready" \in States
    BY DEF States
  <2>4. ASSUME NEW i \in DOMAIN w
        PROVE  v[i] = IF i = id THEN [w[i] EXCEPT !.state = "Completed"]
                      ELSE IF Given(i) THEN [w[i] EXCEPT !.state = "Ready"] ELSE w[i]
    BY DEF Completed
  <2> HIDE DEF v, Given
  <2>5. ASSUME NEW i \in DOMAIN w
        PROVE  /\ v[i] \in Pieces
               /\ v[i].parent = w[i].parent /\ v[i].depth = w[i].depth /\ v[i].request = w[i].request
               /\ v[i].state = IF i = id THEN "Completed"
                               ELSE IF Given(i) THEN "Ready" ELSE w[i].state
               /\ v[i].reason = w[i].reason
    <3>1. CASE i = id
      BY <1>2, <2>3, <2>4, <3>1 DEF Pieces
    <3>2. CASE i # id /\ Given(i)
      BY <1>2, <2>3, <2>4, <3>2 DEF Pieces
    <3>3. CASE i # id /\ ~Given(i)
      BY <1>2, <2>4, <3>3
    <3> QED
      BY <3>1, <3>2, <3>3
  <2> QED
    BY <2>1, <2>5
<1>4. v \in Works
  <2>1. v = [i \in 1..Len(w) |-> v[i]]
    BY <1>2 DEF Completed
  <2> HIDE DEF v
  <2> QED
    BY <1>2, <1>3, <2>1, SeqDef DEF Works
<1> HIDE DEF v, Given
<1>5. /\ Founded(v) /\ DepthCounted(v) /\ Admitted(v)
      /\ \A i \in 0..Len(w) : Chain(v, i) = Chain(w, i)
  <2>1. \A i \in DOMAIN w : v[i].state # "Recovered" => w[i].state # "Recovered"
    BY <1>3 DEF Given
  <2> QED
    BY <1>1, <1>3, <1>4, <2>1, ShapeKept
<1>6. \A i \in DOMAIN w :
         /\ w[i].state = "Completed" => v[i].state = "Completed"
         /\ w[i].state = "Recovered" <=> v[i].state = "Recovered"
  BY <1>3 DEF Given
<1>7. Waiting(v)
  <2> SUFFICES ASSUME NEW i \in DOMAIN w
               PROVE  /\ v[i].state = "Pending" =>
                            /\ v[i].parent # 0
                            /\ v[v[i].parent].state \in {"Pending", "Ready", "Active"}
                      /\ v[i].state \in {"Ready", "Active", "Completed"} =>
                            \A a \in Chain(v, v[i].parent) : v[a].state = "Completed"
    BY <1>3 DEF Waiting
  <2>1. ASSUME v[i].state = "Pending"
        PROVE  v[i].parent # 0 /\ v[v[i].parent].state \in {"Pending", "Ready", "Active"}
    <3>1. w[i].state = "Pending" /\ w[i].parent # id /\ v[i].parent = w[i].parent
      BY <1>3, <2>1 DEF Given
    <3>2. w[i].parent # 0 /\ w[w[i].parent].state \in {"Pending", "Ready", "Active"}
      BY <1>1, <3>1 DEF Waiting
    <3>3. w[i].parent \in DOMAIN w
      BY <3>2, Above
    <3> QED
      BY <1>3, <3>1, <3>2, <3>3
  <2>2. ASSUME v[i].state \in {"Ready", "Active", "Completed"}
        PROVE  \A a \in Chain(v, v[i].parent) : v[a].state = "Completed"
    <3>1. Chain(v, v[i].parent) = Chain(w, w[i].parent)
      BY <1>3, <1>5, Above
    <3>2. CASE w[i].state \in {"Ready", "Active", "Completed"}
      BY <1>6, <3>1, <3>2, Above
    <3>3. CASE Given(i)
      <4>1. w[i].parent = id /\ Chain(w, id) = {id} \cup Chain(w, w[id].parent)
        BY <3>3, Above DEF Given
      <4>2. \A a \in Chain(w, w[id].parent) : a \in DOMAIN w /\ w[a].state = "Completed"
        BY Above
      <4>3. v[id].state = "Completed"
        BY <1>3
      <4> QED
        BY <1>6, <3>1, <4>1, <4>2, <4>3
    <3> QED
      BY <1>3, <2>2, <3>2, <3>3
  <2> QED
    BY <2>1, <2>2
<1>8. Explained(v)
  BY <1>1, <1>3, <1>6, Above DEF Explained
<1>9. \A i \in DOMAIN w : v[i].state = "Active" => i # id /\ w[i].state = "Active"
  BY <1>3
<1>10. Sound(v)
  BY <1>4, <1>5, <1>7, <1>8 DEF Sound
<1> QED
  BY <1>3, <1>9, <1>10 DEF v

\* next_ready starts ready work, which has nothing incomplete above it.
LEMMA ActivateSound ==
    ASSUME NEW w, Sound(w), NEW id \in DOMAIN w, w[id].state = "Ready"
    PROVE  Sound([w EXCEPT ![id].state = "Active"])
<1> DEFINE v == [w EXCEPT ![id].state = "Active"]
<1>1. w \in Works /\ Founded(w) /\ DepthCounted(w) /\ Admitted(w) /\ Waiting(w) /\ Explained(w)
  BY DEF Sound
<1>2. /\ Len(w) \in Nat /\ DOMAIN w = 1..Len(w)
      /\ \A i \in DOMAIN w : w[i] \in Pieces
  BY <1>1, WorkFields
<1>3. /\ DOMAIN v = DOMAIN w /\ v \in Works
      /\ \A i \in DOMAIN w :
            /\ v[i].parent = w[i].parent /\ v[i].depth = w[i].depth /\ v[i].request = w[i].request
            /\ v[i].state = (IF i = id THEN "Active" ELSE w[i].state)
            /\ v[i].reason = w[i].reason
  <2>1. "Active" \in States /\ w \in Seq(Pieces)
    BY <1>1 DEF States, Works
  <2>2. [w[id] EXCEPT !.state = "Active"] \in Pieces
    BY <1>2, <2>1 DEF Pieces
  <2>3. v \in Works
    BY <2>1, <2>2, ExceptSeq DEF Works
  <2>4. ASSUME NEW i \in DOMAIN w
        PROVE  /\ v[i].parent = w[i].parent /\ v[i].depth = w[i].depth
               /\ v[i].request = w[i].request /\ v[i].reason = w[i].reason
               /\ v[i].state = (IF i = id THEN "Active" ELSE w[i].state)
    BY <1>2 DEF Pieces
  <2> QED
    BY <2>3, <2>4
<1> HIDE DEF v
<1>4. /\ Founded(v) /\ DepthCounted(v) /\ Admitted(v)
      /\ \A i \in 0..Len(w) : Chain(v, i) = Chain(w, i)
  <2>1. \A i \in DOMAIN w : v[i].state # "Recovered" => w[i].state # "Recovered"
    BY <1>3
  <2> QED
    BY <1>1, <1>3, <2>1, ShapeKept
<1>5. \A i \in DOMAIN w :
         /\ w[i].state = "Completed" => v[i].state = "Completed"
         /\ w[i].state = "Recovered" <=> v[i].state = "Recovered"
         /\ w[i].state \in {"Pending", "Ready", "Active"} =>
               v[i].state \in {"Pending", "Ready", "Active"}
  BY <1>3
<1>6. Waiting(v)
  <2> SUFFICES ASSUME NEW i \in DOMAIN w
               PROVE  /\ v[i].state = "Pending" =>
                            /\ v[i].parent # 0
                            /\ v[v[i].parent].state \in {"Pending", "Ready", "Active"}
                      /\ v[i].state \in {"Ready", "Active", "Completed"} =>
                            \A a \in Chain(v, v[i].parent) : v[a].state = "Completed"
    BY <1>3 DEF Waiting
  <2>1. Chain(v, v[i].parent) = Chain(w, w[i].parent) /\ v[i].parent = w[i].parent
    BY <1>3, <1>4, Above
  <2>2. /\ v[i].state = "Pending" => w[i].state = "Pending"
        /\ v[i].state \in {"Ready", "Active", "Completed"} =>
              w[i].state \in {"Ready", "Active", "Completed"}
    BY <1>3
  <2> QED
    BY <1>1, <1>5, <2>1, <2>2, Above DEF Waiting
<1>7. Explained(v)
  BY <1>1, <1>3, <1>5, Above DEF Explained
<1> QED
  BY <1>3, <1>4, <1>6, <1>7 DEF Sound, v

-----------------------------------------------------------------------------
(* The steps *)

\* pop_first of the ready set finds work whenever there is some.
LEMMA FirstReady ==
    ASSUME work \in Works, In("Ready") # {}
    PROVE  First \in In("Ready")
<1> DEFINE R == In("Ready")
           at(i) == work[i].request.location
<1>1. R \subseteq Nat /\ R # {} /\ \A i \in R : at(i) \in Nat
  <2>1. \A i \in R : i \in DOMAIN work /\ work[i].request \in Requests
    BY WorkFields DEF In
  <2>2. R \subseteq Nat /\ R # {}
    BY <2>1, WorkFields
  <2>3. \A r \in Requests : r.location \in Locations
    BY DEF Requests
  <2>4. \A i \in R : at(i) \in Nat
    BY <2>1, <2>3, SchedulerAssumption
  <2> QED
    BY <2>2, <2>4
<1> HIDE DEF R, at
<1>2. PICK l \in {at(i) : i \in R} : \A k \in {at(i) : i \in R} : l <= k
  <2>1. {at(i) : i \in R} \subseteq Nat /\ {at(i) : i \in R} # {}
    BY <1>1
  <2> QED
    BY <2>1, FirstIndex
<1>3. PICK i \in {j \in R : at(j) = l} : \A k \in {j \in R : at(j) = l} : i <= k
  <2>1. {j \in R : at(j) = l} \subseteq Nat /\ {j \in R : at(j) = l} # {}
    BY <1>1, <1>2
  <2> QED
    BY <2>1, FirstIndex
<1>4. \A j \in R : at(i) < at(j) \/ (at(i) = at(j) /\ i <= j)
  BY <1>1, <1>2, <1>3
<1>5. i \in In("Ready") /\ \A j \in In("Ready") :
         LET li == work[i].request.location
             lj == work[j].request.location
         IN  li < lj \/ (li = lj /\ i <= j)
  BY <1>3, <1>4 DEF R, at
<1> QED
  BY <1>5 DEF First

LEMMA InitIInv == Init => IInv
<1> SUFFICES ASSUME Init PROVE IInv
  OBVIOUS
<1>1. work \in Works /\ DOMAIN work = {}
  <2>1. work = <<>> /\ <<>> \in Seq(Pieces)
    BY DEF Init
  <2> QED
    BY <2>1 DEF Works
<1>2. Sound(work)
  BY <1>1 DEF Sound, Founded, DepthCounted, Admitted, Waiting, Explained
<1>3. OneActive
  BY <1>1 DEF OneActive, In
<1>4. usage \in [executions : 0..Executions, generated_nodes : 0..GeneratedNodes]
  <2>1. 0 \in 0..Executions /\ 0 \in 0..GeneratedNodes
    BY SchedulerAssumption
  <2> QED
    BY <2>1 DEF Init
<1> QED
  BY <1>2, <1>3, <1>4 DEF Init, IInv

\* Every action keeps the invariant.
LEMMA NextIInv == IInv /\ [Next]_vars => IInv'
<1> SUFFICES ASSUME IInv, [Next]_vars PROVE IInv'
  OBVIOUS
<1>1. /\ Sound(work) /\ OneActive /\ work \in Works
      /\ usage \in [executions : 0..Executions, generated_nodes : 0..GeneratedNodes]
      /\ enqueued \in Nat /\ running \in BOOLEAN
      /\ Len(work) \in Nat /\ DOMAIN work = 1..Len(work)
  BY WorkFields DEF IInv, Sound
<1>2. /\ Executions \in Nat /\ GeneratedNodes \in Nat
      /\ \A o \in Outputs : o.generated_nodes \in Nat
  BY SchedulerAssumption
<1>3. ASSUME NEW request \in Requests, Enqueue(request) PROVE IInv'
  <2>1. /\ Sound(work') /\ Extends(work', work)
    BY <1>1, <1>3, EnqueueInternalSound DEF Enqueue
  <2>2. OneActive'
    BY <1>1, <1>3, <2>1 DEF Enqueue, OneActive, In, Extends
  <2> QED
    BY <1>1, <1>3, <2>1, <2>2 DEF Enqueue, IInv
<1>4. ASSUME NEW r1 \in Requests, NEW r2 \in Requests, EnqueueDefinitionCall(<<r1, r2>>)
      PROVE  IInv'
  <2>1. <<r1, r2>> \in Seq(Requests) /\ Len(<<r1, r2>>) = 2
    OBVIOUS
  <2>2. work' \in Grown(work)
    <3>1. work \in Grown(work) /\ 0 \in 0..Len(work)
      BY <1>1, NothingGrown
    <3> QED
      BY <1>1, <1>4, <2>1, <3>1, EnqueueDefinitionGrows DEF EnqueueDefinitionCall
  <2>3. Sound(work') /\ Extends(work', work)
    BY <2>2 DEF Grown
  <2>4. OneActive'
    BY <1>1, <1>4, <2>3 DEF EnqueueDefinitionCall, OneActive, In, Extends
  <2> QED
    BY <1>1, <1>4, <2>1, <2>3, <2>4 DEF EnqueueDefinitionCall, IInv
<1>5. CASE Run
  BY <1>1, <1>5 DEF Run, IInv, OneActive, In
<1>6. CASE RunReturns
  <2>1. In("Active") = {}
    BY <1>6 DEF RunReturns
  <2> QED
    BY <1>1, <1>6, <2>1 DEF RunReturns, IInv, OneActive, In
<1>7. CASE NextReady
  <2>1. First \in DOMAIN work /\ work[First].state = "Ready"
    BY <1>1, <1>7, FirstReady DEF NextReady, In
  <2>2. CASE usage.executions >= Executions
    <3>1. work' = Recover(work, First, "Executions") /\ "Executions" \in Failures
      BY <1>7, <2>2 DEF NextReady, Failures
    <3>2. /\ Sound(work') /\ DOMAIN work' = DOMAIN work
          /\ \A i \in DOMAIN work : work'[i].state = "Active" => work[i].state = "Active"
      BY <1>1, <2>1, <3>1, RecoverSound
    <3>3. OneActive'
      BY <1>1, <1>7, <3>2 DEF OneActive, In, NextReady
    <3> QED
      BY <1>1, <1>7, <2>2, <3>2, <3>3 DEF NextReady, IInv
  <2>3. CASE ~(usage.executions >= Executions)
    <3>1. /\ work' = [work EXCEPT ![First].state = "Active"]
          /\ usage' = [usage EXCEPT !.executions = @ + 1]
      BY <1>7, <2>3 DEF NextReady
    <3>2. Sound(work')
      BY <1>1, <2>1, <3>1, ActivateSound
    <3>3. /\ DOMAIN work' = DOMAIN work
          /\ \A i \in DOMAIN work : i # First => work'[i].state # "Active"
      <4>1. \A i \in DOMAIN work : work[i].state # "Active"
        BY <1>7 DEF NextReady, In
      <4> QED
        BY <3>1, <4>1
    <3>4. OneActive'
      BY <1>7, <3>3 DEF NextReady, OneActive, In
    <3>5. usage' \in [executions : 0..Executions, generated_nodes : 0..GeneratedNodes]
      BY <1>1, <1>2, <2>3, <3>1
    <3> QED
      BY <1>1, <1>7, <3>2, <3>4, <3>5 DEF NextReady, IInv
  <2> QED
    BY <2>2, <2>3
<1>8. ASSUME NEW id \in In("Active"), Fail(id) PROVE IInv'
  <2>1. /\ id \in DOMAIN work /\ work[id].state = "Active"
        /\ work' = Recover(work, id, "ExecutionFailure") /\ "ExecutionFailure" \in Failures
    BY <1>8 DEF Fail, In, Failures
  <2>2. /\ Sound(work') /\ DOMAIN work' = DOMAIN work
        /\ \A i \in DOMAIN work : work'[i].state = "Active" => work[i].state = "Active"
    BY <1>1, <2>1, RecoverSound
  <2>3. OneActive'
    BY <1>1, <1>8, <2>2 DEF OneActive, In, Fail
  <2> QED
    BY <1>1, <1>8, <2>2, <2>3 DEF Fail, IInv
<1>9. ASSUME NEW id \in In("Active"), NEW output \in Outputs, Complete(id, output) PROVE IInv'
  <2> DEFINE nodes == usage.generated_nodes + output.generated_nodes
  <2>1. id \in DOMAIN work /\ work[id].state = "Active" /\ running /\ nodes \in Nat
    BY <1>1, <1>2, <1>9 DEF Complete, In
  <2>2. CASE nodes > GeneratedNodes
    <3>1. work' = Recover(work, id, "GeneratedNodes") /\ "GeneratedNodes" \in Failures
      BY <1>9, <2>2 DEF Complete, Failures
    <3>2. /\ Sound(work') /\ DOMAIN work' = DOMAIN work
          /\ \A i \in DOMAIN work : work'[i].state = "Active" => work[i].state = "Active"
      BY <1>1, <2>1, <3>1, RecoverSound
    <3>3. OneActive'
      BY <1>1, <1>9, <3>2 DEF OneActive, In, Complete
    <3> QED
      BY <1>1, <1>9, <2>2, <3>2, <3>3 DEF Complete, IInv
  <2>3. CASE ~(nodes > GeneratedNodes)
    <3> DEFINE done == Completed(work, id)
    <3>1. /\ work' = EnqueueOutput(done, output, id)
          /\ usage' = [usage EXCEPT !.generated_nodes = nodes]
      BY <1>9, <2>3 DEF Complete
    <3>2. /\ Sound(done) /\ DOMAIN done = DOMAIN work
          /\ \A i \in DOMAIN work : done[i].state = "Active" => i # id /\ work[i].state = "Active"
      BY <1>1, <2>1, CompletedSound
    <3> HIDE DEF done
    <3>3. id \in 0..Len(done)
      BY <1>1, <2>1, <3>2, WorkFields DEF Sound
    <3>4. work' \in Grown(done)
      BY <3>1, <3>2, <3>3, EnqueueOutputGrows
    <3>5. Sound(work') /\ Extends(work', done)
      BY <3>4 DEF Grown
    <3>6. \A i \in DOMAIN done : done[i].state # "Active"
      BY <1>1, <1>9, <3>2 DEF OneActive, In
    <3>7. In("Active")' = {}
      BY <3>5, <3>6 DEF In, Extends
    <3>8. OneActive'
      BY <3>7 DEF OneActive
    <3>9. usage' \in [executions : 0..Executions, generated_nodes : 0..GeneratedNodes]
      BY <1>1, <1>2, <2>1, <2>3, <3>1
    <3> QED
      BY <1>1, <1>9, <3>5, <3>8, <3>9 DEF Complete, IInv
  <2> QED
    BY <2>2, <2>3
<1>10. CASE UNCHANGED vars
  BY <1>10, <1>1 DEF vars, IInv, OneActive, In
<1> QED
  BY <1>3, <1>4, <1>5, <1>6, <1>7, <1>8, <1>9, <1>10 DEF Next, Step

\* IInv holds of every graph the scheduler builds.
THEOREM SchedulerInductive == Spec => []IInv
<1> QED
  BY InitIInv, NextIInv, PTL DEF Spec

-----------------------------------------------------------------------------
(* The properties *)

LEMMA IInvSound == IInv => SchedulerSound
<1> SUFFICES ASSUME IInv PROVE SchedulerSound
  OBVIOUS
<1>1. Sound(work) /\ OneActive
  BY DEF IInv
<1>2. Admitted(work) /\ DepthCounted(work) /\ Explained(work)
  BY <1>1 DEF Sound
<1>3. RecoveryExplained
  BY <1>2 DEF RecoveryExplained
<1>4. Cardinality(In("Active")) <= 1
  <2>1. CASE In("Active") = {}
    BY <2>1, FS_EmptySet
  <2>2. CASE In("Active") # {}
    <3>1. PICK i \in In("Active") : TRUE
      BY <2>2
    <3>2. In("Active") = {i}
      BY <1>1, <3>1 DEF OneActive
    <3>3. Cardinality({i}) = 1
      BY FS_Singleton
    <3> QED
      BY <3>2, <3>3
  <2> QED
    BY <2>1, <2>2
<1>5. ASSUME NEW i \in In("Ready") \cup In("Active") \cup In("Completed")
      PROVE  /\ work[i].parent = 0 \/ work[work[i].parent].state = "Completed"
             /\ work[i].depth <= ActiveDepth
             /\ work[i].depth = Cardinality(Chain(work, i))
             /\ \A a, b \in Chain(work, i) :
                   work[a].request.key = work[b].request.key => a = b
  <2>1. i \in DOMAIN work /\ work[i].state \in {"Ready", "Active", "Completed"}
    BY DEF In
  <2>2. work[i].parent = 0 \/ work[work[i].parent].state = "Completed"
    BY <1>1, <2>1, Above
  <2> QED
    BY <1>2, <2>1, <2>2 DEF Admitted, DepthCounted
<1>6. BudgetsHold
  <2>1. /\ usage.executions <= Executions
        /\ usage.generated_nodes <= GeneratedNodes
    BY SchedulerAssumption DEF IInv
  <2> QED
    BY <1>4, <1>5, <2>1 DEF BudgetsHold
<1>7. NoReentry
  BY <1>5 DEF NoReentry
<1> QED
  BY <1>3, <1>6, <1>7 DEF SchedulerSound

\* Whatever is enqueued, executes, generates or fails: the budgets hold, nothing
\* re-enters its own chain, and every recovery has one reported cause.
THEOREM SchedulerIsSound == Spec => []SchedulerSound
<1> QED
  BY SchedulerInductive, IInvSound, PTL

\* Work that waits has work below it that is ready or active: the oldest that
\* waits waits for nothing that waits.
LEMMA WaitingHasWork ==
    ASSUME NEW w, Sound(w), NEW i \in DOMAIN w, w[i].state = "Pending"
    PROVE  \E j \in DOMAIN w : w[j].state \in {"Ready", "Active"}
<1>1. w \in Works /\ Founded(w) /\ Waiting(w)
  BY DEF Sound
<1> DEFINE P == {k \in DOMAIN w : w[k].state = "Pending"}
<1>2. PICK k \in P : \A j \in P : k <= j
  <2>1. P \subseteq Nat /\ P # {}
    BY <1>1, WorkFields
  <2> HIDE DEF P
  <2> QED
    BY <2>1, FirstIndex
<1>3. w[k].parent # 0 /\ w[w[k].parent].state \in {"Pending", "Ready", "Active"}
  BY <1>1 DEF Waiting
<1>4. w[k].parent \in DOMAIN w
  BY <1>3, Above
<1>5. w[k].parent < k /\ w[k].parent \in Nat /\ k \in Nat
  BY <1>1, WorkFields DEF Founded
<1>6. w[k].parent \notin P
  BY <1>2, <1>5
<1> QED
  BY <1>3, <1>4, <1>6

\* When run returns, every piece of work has completed or been recovered.
THEOREM SchedulerFixedPoint == Spec => FixedPoint
<1>1. ASSUME IInv, [Next]_vars, running, ~running'
      PROVE  \A i \in DOMAIN work : work[i].state \in {"Completed", "Recovered"}
  <2>1. RunReturns
    BY <1>1 DEF Next, Step, vars, NextReady, Fail, Complete, Run, Enqueue, EnqueueDefinitionCall
  <2>2. Sound(work) /\ \A i \in DOMAIN work : work[i].state \notin {"Ready", "Active"}
    BY <1>1, <2>1 DEF IInv, RunReturns, In
  <2>3. \A i \in DOMAIN work : work[i].state # "Pending"
    BY <2>2, WaitingHasWork
  <2>4. \A i \in DOMAIN work : work[i].state \in States
    BY <2>2, Above
  <2> QED
    BY <2>2, <2>3, <2>4 DEF States
<1>2. IInv /\ [Next]_vars =>
         [running /\ ~running' => \A i \in DOMAIN work : work[i].state \in {"Completed", "Recovered"}]_vars
  BY <1>1
<1> QED
  BY <1>2, SchedulerInductive, PTL DEF Spec, FixedPoint
=============================================================================
