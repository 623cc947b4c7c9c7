--------------------------- MODULE ChannelProofs ---------------------------
(***************************************************************************)
(* The channel for every number of threads, endpoints and messages: its    *)
(* counters are exact, its block is freed once, by a thread that is alone  *)
(* with it, and it is not leaked; each message is in one place, messages   *)
(* are moved out in the order they were pushed, the queue stays within its *)
(* capacity, no wakeup is lost and a rendezvous send returns only when its *)
(* own message was taken.                                                  *)
(***************************************************************************)
EXTENDS Channel, CommonLemmas, FiniteSetTheorems, SequenceTheorems, TLAPS

\* The sets that the counters count are finite.
LEMMA FiniteCounted ==
    ASSUME TypeOK
    PROVE  /\ IsFiniteSet(live \cap SenderIds)
           /\ IsFiniteSet(live \cap ReceiverIds)
           /\ IsFiniteSet(Receiving)
BY ChannelAssumption, FS_Subset DEF TypeOK, Receiving

\* A counted state: the counters are numbers and are zero when nothing is
\* counted.
LEMMA CountersExact ==
    ASSUME IInv
    PROVE  /\ senders \in Nat /\ receivers \in Nat /\ waiting_receivers \in Nat
           /\ senders = 0 <=> live \cap SenderIds = {}
           /\ receivers = 0 <=> live \cap ReceiverIds = {}
           /\ waiting_receivers = 0 <=> Receiving = {}
BY FiniteCounted, CardinalityStep DEF IInv, EndpointsCounted, QueueCounted

\* What Push does to the queue and to what is counted.
LEMMA PushEffect ==
    ASSUME TypeOK, count = Len(queue), NEW m \in Messages, Push(m)
    PROVE  /\ queue' \in Seq(Messages) /\ count' = Len(queue') /\ count' \in Nat \ {0}
           /\ readable' \subseteq Threads
           /\ fate' \in [Messages -> Fates]
<1>1. queue' = Append(queue, m) /\ queue \in Seq(Messages)
  BY DEF Push, TypeOK
<1>2. queue' \in Seq(Messages) /\ Len(queue') = Len(queue) + 1
  BY <1>1, AppendProperties
<1>3. readable' \subseteq Threads
  BY DEF Push, Signal, TypeOK
<1>4. fate' \in [Messages -> Fates]
  BY DEF Push, TypeOK, Fates
<1> QED
  BY <1>2, <1>3, <1>4 DEF Push, TypeOK

\* What Pop does to a queue that is not empty.
LEMMA PopEffect ==
    ASSUME TypeOK, count = Len(queue), count # 0, NEW wr, Pop(wr)
    PROVE  /\ queue' \in Seq(Messages) /\ count' = Len(queue') /\ count' \in Nat
           /\ fate' \in [Messages -> Fates]
<1>1. queue \in Seq(Messages) /\ queue # <<>>
  BY EmptySeq DEF TypeOK
<1>2. Tail(queue) \in Seq(Messages) /\ Len(Tail(queue)) = Len(queue) - 1 /\ Len(queue) \in Nat \ {0}
  BY <1>1, HeadTailProperties, EmptySeq
<1>3. fate' \in [Messages -> Fates]
  BY DEF Pop, TypeOK, Fates
<1> QED
  BY <1>2, <1>3 DEF Pop

\* ChannelCreate establishes the invariant.
LEMMA InitIInv == Init => IInv
<1> SUFFICES ASSUME Init PROVE IInv
  OBVIOUS
<1>1. PICK s \in SenderIds, r \in ReceiverIds : live = {s, r}
  BY DEF Init
<1>2. TypeOK
  <2>1. <<>> \in Seq(Messages)
    BY EmptySeq
  <2>2. capacity \in Nat /\ unbounded \in BOOLEAN
    BY ChannelAssumption DEF Init
  <2> QED
    BY <1>1, <2>1, <2>2 DEF Init, TypeOK, Endpoints, Fates
<1>3. live \cap SenderIds = {s} /\ live \cap ReceiverIds = {r}
  BY <1>1, ChannelAssumption
<1>4. EndpointsCounted
  <2>1. Cardinality(live \cap SenderIds) = 1 /\ Cardinality(live \cap ReceiverIds) = 1
    BY <1>3, FS_Singleton
  <2> QED
    BY <2>1 DEF Init, EndpointsCounted
<1>5. QueueCounted
  <2>1. Receiving = {}
    BY DEF Init, Receiving
  <2> QED
    BY <2>1, EmptySeq, FS_EmptySet DEF Init, QueueCounted
<1>6. CallsBorrow /\ DestroyedOnce
  BY <1>1 DEF Init, CallsBorrow, DestroyedOnce
<1> QED
  BY <1>2, <1>4, <1>5, <1>6 DEF IInv

-----------------------------------------------------------------------------
(* A step inside an operation: the endpoints, the closed flags and the     *)
(* duty to destroy are as they were.                                       *)

SameEndpoints == UNCHANGED <<dropVars, live, senders, receivers, sender_closed, receiver_closed>>

\* Such a step by a thread that is not in a drop keeps the parts of the
\* invariant about endpoints and about the duty to destroy.
LEMMA SameEndpointsKeeps ==
    ASSUME IInv, SameEndpoints, NEW t \in Threads, pc[t] # "dropping",
           \A u \in Threads \ {t} : pc'[u] = pc[u]
    PROVE  EndpointsCounted' /\ DestroyedOnce'
<1>1. EndpointsCounted'
  BY DEF IInv, SameEndpoints, EndpointsCounted
<1>2. DestroyedOnce'
  BY DEF IInv, SameEndpoints, dropVars, TypeOK, DestroyedOnce
<1> QED
  BY <1>1, <1>2

\* A blocking send past its tests.
LEMMA SendPushKeeps ==
    ASSUME IInv, NEW t \in Threads, NEW e \in live \cap SenderIds, NEW m \in Messages,
           pc[t] \in {"idle", "sending"}, ~Closed, SendPush(t, e, m),
           UNCHANGED <<dropVars, live>>
    PROVE  IInv'
<1> USE DEF IInv
<1>1. /\ queue' \in Seq(Messages) /\ count' = Len(queue') /\ count' \in Nat \ {0}
      /\ readable' \subseteq Threads /\ fate' \in [Messages -> Fates]
  BY PushEffect DEF SendPush, QueueCounted
<1>2. /\ pc' \in [Threads -> {"idle", "sending", "handoff", "receiving", "dropping"}]
      /\ via' \in [Threads -> Endpoints \cup {None}]
      /\ arg' \in [Threads -> Messages \cup {None}]
  BY DEF SendPush, Enter, Return, TypeOK, Endpoints
<1>3. TypeOK'
  BY <1>1, <1>2 DEF SendPush, Push, TypeOK, dropVars
<1>4. SameEndpoints /\ \A u \in Threads \ {t} : pc'[u] = pc[u]
  BY DEF SameEndpoints, SendPush, Push, Enter, Return, TypeOK
<1>5. EndpointsCounted' /\ DestroyedOnce'
  BY <1>4, SameEndpointsKeeps
<1>6. CallsBorrow'
  BY DEF SendPush, Enter, Return, TypeOK, CallsBorrow
<1>7. QueueCounted'
  <2>1. Receiving' = Receiving
    BY DEF Receiving, SendPush, Enter, Return, TypeOK
  <2>2. receivers' # 0
    BY DEF Closed, EndpointsCounted, SendPush, Push
  <2> QED
    BY <1>1, <2>1, <2>2 DEF QueueCounted, SendPush, Push
<1> QED
  BY <1>3, <1>5, <1>6, <1>7

\* A send that is refused.
LEMMA RefuseKeeps ==
    ASSUME IInv, NEW t \in Threads, NEW m \in Messages, NEW why \in {"closed", "full"},
           pc[t] \in {"idle", "sending"}, Refuse(t, m, why), UNCHANGED <<dropVars, live>>
    PROVE  IInv'
<1> USE DEF IInv
<1>1. TypeOK'
  BY DEF Refuse, Enter, Return, TypeOK, Fates, dropVars, chanVars, condVars
<1>2. SameEndpoints /\ \A u \in Threads \ {t} : pc'[u] = pc[u]
  BY DEF SameEndpoints, Refuse, Enter, Return, TypeOK, chanVars
<1>3. EndpointsCounted' /\ DestroyedOnce'
  BY <1>2, SameEndpointsKeeps
<1>4. CallsBorrow'
  BY DEF Refuse, Enter, Return, TypeOK, CallsBorrow
<1>5. Receiving' = Receiving
  BY DEF Receiving, Refuse, Enter, Return, TypeOK
<1>6. QueueCounted'
  BY <1>5 DEF QueueCounted, Refuse, chanVars
<1> QED
  BY <1>1, <1>3, <1>4, <1>6

\* A message moved out by receive or try_receive.
LEMMA PopKeeps ==
    ASSUME IInv, NEW t \in Threads, NEW wr, pc[t] \in {"idle", "receiving"}, count # 0, Pop(wr),
           UNCHANGED <<readable, dropVars, live>>,
           \/ wr = waiting_receivers /\ pc[t] = "idle" /\ UNCHANGED callVars
           \/ wr = waiting_receivers - 1 /\ pc[t] = "receiving" /\ Return(t)
    PROVE  IInv'
<1> USE DEF IInv
<1>1. /\ queue' \in Seq(Messages) /\ count' = Len(queue') /\ count' \in Nat
      /\ fate' \in [Messages -> Fates]
  BY PopEffect DEF QueueCounted
<1>2. /\ wr \in Nat
      /\ wr = Cardinality(Receiving')
  <2>1. CASE pc[t] = "idle"
    <3>1. Receiving' = Receiving
      BY <2>1 DEF Receiving, callVars
    <3> QED
      BY <2>1, <3>1, CountersExact DEF QueueCounted
  <2>2. CASE pc[t] = "receiving"
    <3>1. t \in Receiving /\ Receiving' = Receiving \ {t}
      BY <2>2 DEF Receiving, Return, Enter, TypeOK
    <3>2. Cardinality(Receiving) \in Nat \ {0} /\ Cardinality(Receiving \ {t}) = Cardinality(Receiving) - 1
      BY <3>1, FiniteCounted, CardinalityStep
    <3> QED
      BY <2>2, <3>1, <3>2 DEF QueueCounted
  <2> QED
    BY <2>1, <2>2
<1>3. TypeOK'
  BY <1>1, <1>2 DEF Pop, Return, Enter, TypeOK, dropVars, callVars
<1>4. SameEndpoints /\ \A u \in Threads \ {t} : pc'[u] = pc[u]
  BY DEF SameEndpoints, Pop, Return, Enter, TypeOK, callVars
<1>5. EndpointsCounted' /\ DestroyedOnce'
  BY <1>4, SameEndpointsKeeps
<1>6. CallsBorrow'
  BY DEF Return, Enter, TypeOK, CallsBorrow, callVars
<1>7. QueueCounted'
  <2>1. receivers' # 0
    BY EmptySeq DEF QueueCounted, Pop, TypeOK
  <2> QED
    BY <1>1, <1>2, <2>1 DEF QueueCounted, Pop
<1> QED
  BY <1>3, <1>5, <1>6, <1>7

\* send and try_send, up to their first wait or return.
LEMMA SendsKeep ==
    ASSUME IInv, NEW t \in Threads, NEW e \in Endpoints, NEW m \in Messages,
           SendCall(t, e, m) \/ TrySend(t, e, m)
    PROVE  IInv'
<1> USE DEF IInv
<1>1. pc[t] = "idle" /\ e \in live \cap SenderIds /\ UNCHANGED <<dropVars, live>>
  BY DEF SendCall, TrySend, MayCall
<1>2. CASE Refuse(t, m, "closed") \/ Refuse(t, m, "full")
  BY <1>1, <1>2, RefuseKeeps
<1>3. CASE ~Closed /\ SendPush(t, e, m)
  BY <1>1, <1>3, SendPushKeeps
<1>4. CASE /\ Enter(t, "sending", e, m)
           /\ fate' = [fate EXCEPT ![m] = "argument"]
           /\ writable' = writable \cup {t}
           /\ UNCHANGED <<chanVars, readable>>
  <2>1. TypeOK'
    BY <1>1, <1>4 DEF Enter, TypeOK, Fates, Endpoints, dropVars, chanVars
  <2>2. SameEndpoints /\ \A u \in Threads \ {t} : pc'[u] = pc[u]
    BY <1>1, <1>4 DEF SameEndpoints, Enter, TypeOK, chanVars
  <2>3. EndpointsCounted' /\ DestroyedOnce'
    BY <1>1, <2>2, SameEndpointsKeeps
  <2>4. CallsBorrow'
    BY <1>1, <1>4 DEF Enter, TypeOK, CallsBorrow
  <2>5. Receiving' = Receiving
    BY <1>1, <1>4 DEF Receiving, Enter, TypeOK
  <2>6. QueueCounted'
    BY <1>4, <2>5 DEF QueueCounted, chanVars
  <2> QED
    BY <2>1, <2>3, <2>4, <2>6
<1>5. CASE ~Closed /\ Push(m) /\ UNCHANGED <<callVars, writable>>
  <2>1. /\ queue' \in Seq(Messages) /\ count' = Len(queue') /\ count' \in Nat \ {0}
        /\ readable' \subseteq Threads /\ fate' \in [Messages -> Fates]
    BY <1>5, PushEffect DEF QueueCounted
  <2>2. TypeOK'
    BY <1>1, <1>5, <2>1 DEF Push, TypeOK, dropVars, callVars
  <2>3. SameEndpoints /\ \A u \in Threads \ {t} : pc'[u] = pc[u]
    BY <1>1, <1>5 DEF SameEndpoints, Push, callVars
  <2>4. EndpointsCounted' /\ DestroyedOnce'
    BY <1>1, <2>3, SameEndpointsKeeps
  <2>5. CallsBorrow'
    BY <1>1, <1>5 DEF CallsBorrow, callVars
  <2>6. QueueCounted'
    BY <1>5, <2>1 DEF QueueCounted, Push, Closed, EndpointsCounted, Receiving, callVars
  <2> QED
    BY <2>2, <2>4, <2>5, <2>6
<1> QED
  BY <1>2, <1>3, <1>4, <1>5 DEF SendCall, TrySend

\* receive and try_receive, up to their first wait or return.
LEMMA ReceivesKeep ==
    ASSUME IInv, NEW t \in Threads, NEW e \in Endpoints, ReceiveCall(t, e) \/ TryReceive(t, e)
    PROVE  IInv'
<1> USE DEF IInv
<1>1. pc[t] = "idle" /\ e \in live \cap ReceiverIds /\ UNCHANGED <<dropVars, live>>
  BY DEF ReceiveCall, TryReceive, MayCall
<1>2. CASE count # 0 /\ Pop(waiting_receivers) /\ UNCHANGED <<readable, callVars>>
  BY <1>1, <1>2, PopKeeps
<1>3. CASE writable' \in {writable, {}} /\ UNCHANGED <<chanVars, readable, callVars, fate>>
  <2>1. TypeOK'
    BY <1>1, <1>3 DEF TypeOK, dropVars, chanVars, callVars
  <2>2. SameEndpoints /\ \A u \in Threads \ {t} : pc'[u] = pc[u]
    BY <1>1, <1>3 DEF SameEndpoints, chanVars, callVars
  <2>3. EndpointsCounted' /\ DestroyedOnce'
    BY <1>1, <2>2, SameEndpointsKeeps
  <2>4. CallsBorrow' /\ QueueCounted'
    BY <1>1, <1>3 DEF CallsBorrow, QueueCounted, Receiving, chanVars, callVars
  <2> QED
    BY <2>1, <2>3, <2>4
<1>4. CASE /\ waiting_receivers' = waiting_receivers + 1
           /\ writable' = {} /\ readable' = readable \cup {t}
           /\ Enter(t, "receiving", e, None)
           /\ UNCHANGED <<capacity, unbounded, count, queue, sender_closed,
                          receiver_closed, senders, receivers, fate>>
  <2>1. TypeOK'
    BY <1>1, <1>4 DEF Enter, TypeOK, Endpoints, dropVars
  <2>2. SameEndpoints /\ \A u \in Threads \ {t} : pc'[u] = pc[u]
    BY <1>1, <1>4 DEF SameEndpoints, Enter, TypeOK
  <2>3. EndpointsCounted' /\ DestroyedOnce'
    BY <1>1, <2>2, SameEndpointsKeeps
  <2>4. CallsBorrow'
    BY <1>1, <1>4 DEF Enter, TypeOK, CallsBorrow
  <2>5. t \notin Receiving /\ Receiving' = Receiving \cup {t}
    BY <1>1, <1>4 DEF Receiving, Enter, TypeOK
  <2>6. Cardinality(Receiving') = Cardinality(Receiving) + 1
    BY <2>5, FiniteCounted, CardinalityStep
  <2>7. QueueCounted'
    BY <1>4, <2>6 DEF QueueCounted
  <2> QED
    BY <2>1, <2>3, <2>4, <2>7
<1> QED
  BY <1>1, <1>2, <1>3, <1>4 DEF ReceiveCall, TryReceive, condVars

\* The steps of a send or receive that has waited.
LEMMA ResumesKeep ==
    ASSUME IInv, NEW t \in Threads, SendResume(t) \/ SendHandoff(t) \/ ReceiveResume(t)
    PROVE  IInv'
<1> USE DEF IInv
<1>1. UNCHANGED <<dropVars, live>>
  BY DEF SendResume, SendHandoff, ReceiveResume
<1>2. pc[t] \in {"sending", "handoff", "receiving"}
  BY DEF SendResume, SendHandoff, ReceiveResume
<1>3. CASE pc[t] = "sending" /\ Refuse(t, arg[t], "closed")
  <2>1. arg[t] \in Messages
    BY <1>3 DEF CallsBorrow
  <2> QED
    BY <1>1, <1>3, <2>1, RefuseKeeps
<1>4. CASE pc[t] = "sending" /\ ~Closed /\ SendPush(t, via[t], arg[t])
  <2>1. via[t] \in live \cap SenderIds /\ arg[t] \in Messages
    BY <1>4 DEF CallsBorrow
  <2> QED
    BY <1>1, <1>4, <2>1, SendPushKeeps
<1>5. CASE pc[t] = "receiving" /\ count # 0 /\ Pop(waiting_receivers - 1) /\ Return(t) /\ UNCHANGED readable
  BY <1>1, <1>5, PopKeeps
<1>6. CASE \* back to sleep
           /\ readable' \subseteq readable \cup {t} /\ writable' \subseteq writable \cup {t}
           /\ UNCHANGED <<chanVars, callVars, fate>>
  <2>1. TypeOK'
    BY <1>1, <1>6 DEF TypeOK, dropVars, chanVars, callVars
  <2>2. SameEndpoints /\ \A u \in Threads \ {t} : pc'[u] = pc[u]
    BY <1>1, <1>6 DEF SameEndpoints, chanVars, callVars
  <2>3. EndpointsCounted' /\ DestroyedOnce'
    BY <1>2, <2>2, SameEndpointsKeeps
  <2>4. CallsBorrow' /\ QueueCounted'
    BY <1>1, <1>6 DEF CallsBorrow, QueueCounted, Receiving, chanVars, callVars
  <2> QED
    BY <2>1, <2>3, <2>4
<1>7. CASE pc[t] = "handoff" /\ Return(t) /\ UNCHANGED <<chanVars, condVars, fate>>
  <2>1. TypeOK'
    BY <1>1, <1>7 DEF TypeOK, Return, Enter, dropVars, chanVars, condVars
  <2>2. SameEndpoints /\ \A u \in Threads \ {t} : pc'[u] = pc[u]
    BY <1>1, <1>7 DEF SameEndpoints, chanVars, Return, Enter, TypeOK
  <2>3. EndpointsCounted' /\ DestroyedOnce'
    BY <1>2, <2>2, SameEndpointsKeeps
  <2>4. CallsBorrow'
    BY <1>1, <1>7 DEF CallsBorrow, Return, Enter, TypeOK
  <2>5. Receiving' = Receiving
    BY <1>7 DEF Receiving, Return, Enter, TypeOK
  <2>6. QueueCounted'
    BY <1>7, <2>5 DEF QueueCounted, chanVars
  <2> QED
    BY <2>1, <2>3, <2>4, <2>6
<1>8. CASE /\ pc[t] = "receiving"
           /\ waiting_receivers' = waiting_receivers - 1
           /\ Return(t)
           /\ UNCHANGED <<capacity, unbounded, count, queue, sender_closed,
                          receiver_closed, senders, receivers, condVars, fate>>
  <2>1. t \in Receiving /\ Receiving' = Receiving \ {t}
    BY <1>8 DEF Receiving, Return, Enter, TypeOK
  <2>2. Cardinality(Receiving) \in Nat \ {0} /\ Cardinality(Receiving') = Cardinality(Receiving) - 1
    BY <2>1, FiniteCounted, CardinalityStep
  <2>3. waiting_receivers' \in Nat /\ waiting_receivers' = Cardinality(Receiving')
    BY <1>8, <2>2 DEF QueueCounted
  <2>4. TypeOK'
    BY <1>1, <1>8, <2>3 DEF TypeOK, Return, Enter, dropVars, condVars
  <2>5. SameEndpoints /\ \A u \in Threads \ {t} : pc'[u] = pc[u]
    BY <1>1, <1>8 DEF SameEndpoints, Return, Enter, TypeOK
  <2>6. EndpointsCounted' /\ DestroyedOnce'
    BY <1>2, <2>5, SameEndpointsKeeps
  <2>7. CallsBorrow'
    BY <1>1, <1>8 DEF CallsBorrow, Return, Enter, TypeOK
  <2>8. QueueCounted'
    BY <1>8, <2>3 DEF QueueCounted
  <2> QED
    BY <2>4, <2>6, <2>7, <2>8
<1>9. CASE SendResume(t)
  BY <1>9, <1>3, <1>4, <1>6 DEF SendResume
<1>10. CASE SendHandoff(t)
  BY <1>10, <1>6, <1>7 DEF SendHandoff, condVars
<1>11. CASE ReceiveResume(t)
  BY <1>11, <1>5, <1>6, <1>8 DEF ReceiveResume
<1> QED
  BY <1>9, <1>10, <1>11

-----------------------------------------------------------------------------
(* Endpoints come and go *)

\* Cloning an endpoint.
LEMMA ClonesKeep ==
    ASSUME IInv, NEW t \in Threads, NEW e \in Endpoints, NEW f \in Endpoints,
           CloneSender(t, e, f) \/ CloneReceiver(t, e, f)
    PROVE  IInv'
<1> USE DEF IInv
<1>1. e \in live /\ f \notin live /\ live' = live \cup {f}
  BY DEF CloneSender, CloneReceiver, MayCall
<1>2. /\ UNCHANGED <<condVars, callVars, dropVars, fate>>
      /\ UNCHANGED <<capacity, unbounded, count, queue, waiting_receivers, sender_closed, receiver_closed>>
  BY DEF CloneSender, CloneReceiver
<1>3. EndpointsCounted' /\ senders' \in Nat /\ receivers' \in Nat
  <2>1. CASE CloneSender(t, e, f)
    <3>1. /\ (live \cap SenderIds) \cup {f} = live' \cap SenderIds
          /\ live' \cap ReceiverIds = live \cap ReceiverIds /\ f \notin live \cap SenderIds
      BY <1>1, <2>1, ChannelAssumption DEF CloneSender
    <3>2. Cardinality(live' \cap SenderIds) = Cardinality(live \cap SenderIds) + 1
      BY <3>1, FiniteCounted, CardinalityStep
    <3>3. senders # 0
      BY <1>1, <2>1, CountersExact DEF CloneSender
    <3>4. /\ senders' = senders + 1 /\ receivers' = receivers /\ senders \in Nat /\ receivers \in Nat
          /\ UNCHANGED <<sender_closed, receiver_closed>>
      BY <2>1, CountersExact DEF CloneSender
    <3> QED
      BY <3>1, <3>2, <3>3, <3>4 DEF EndpointsCounted
  <2>2. CASE CloneReceiver(t, e, f)
    <3>1. /\ (live \cap ReceiverIds) \cup {f} = live' \cap ReceiverIds
          /\ live' \cap SenderIds = live \cap SenderIds /\ f \notin live \cap ReceiverIds
      BY <1>1, <2>2, ChannelAssumption DEF CloneReceiver
    <3>2. Cardinality(live' \cap ReceiverIds) = Cardinality(live \cap ReceiverIds) + 1
      BY <3>1, FiniteCounted, CardinalityStep
    <3>3. receivers # 0
      BY <1>1, <2>2, CountersExact DEF CloneReceiver
    <3>4. /\ receivers' = receivers + 1 /\ senders' = senders /\ senders \in Nat /\ receivers \in Nat
          /\ UNCHANGED <<sender_closed, receiver_closed>>
      BY <2>2, CountersExact DEF CloneReceiver
    <3> QED
      BY <3>1, <3>2, <3>3, <3>4 DEF EndpointsCounted
  <2> QED
    BY <2>1, <2>2
<1>4. TypeOK'
  BY <1>1, <1>2, <1>3 DEF TypeOK, condVars, callVars, dropVars
<1>5. CallsBorrow'
  BY <1>1, <1>2 DEF CallsBorrow, callVars
<1>6. QueueCounted'
  <2>1. receivers' = 0 => receivers = 0
    BY CountersExact DEF CloneSender, CloneReceiver
  <2>2. Receiving' = Receiving
    BY <1>2 DEF Receiving, callVars
  <2> QED
    BY <1>2, <2>1, <2>2 DEF QueueCounted
<1>7. DestroyedOnce'
  BY <1>1, <1>2 DEF DestroyedOnce, dropVars, callVars
<1> QED
  BY <1>3, <1>4, <1>5, <1>6, <1>7

\* What the two drops have in common once the counters are known to be right.
LEMMA DetachKeeps ==
    ASSUME IInv, NEW t \in Threads, NEW e \in Endpoints, MayDrop(t, e), live' = live \ {e},
           EndpointsCounted', senders' \in Nat, receivers' \in Nat,
           sender_closed' \in BOOLEAN, receiver_closed' \in BOOLEAN,
           DetachAndBroadcast(t)
    PROVE  IInv'
<1> USE DEF IInv
<1>1. pc[t] = "idle" /\ e \in live /\ \A u \in Threads : via[u] # e
  BY DEF MayDrop, MayCall
<1>2. /\ queue' \in Seq(Messages) /\ count' = Len(queue') /\ count' \in Nat
      /\ receivers' = 0 => queue' = <<>>
  <2>1. CASE receivers' = 0
    BY <2>1, EmptySeq DEF DetachAndBroadcast
  <2>2. CASE receivers' # 0
    BY <2>2 DEF DetachAndBroadcast, QueueCounted, TypeOK
  <2> QED
    BY <2>1, <2>2
<1>3. messages' \in [Threads -> SUBSET Messages] /\ fate' \in [Messages -> Fates]
  <2>1. Range(queue) \subseteq Messages
    BY RangeOfSeq DEF TypeOK
  <2> QED
    BY <2>1 DEF DetachAndBroadcast, TypeOK, Fates
<1>4. /\ pc' = [pc EXCEPT ![t] = "dropping"]
      /\ via' = [via EXCEPT ![t] = None]
      /\ arg' = [arg EXCEPT ![t] = None]
      /\ destroy' = [destroy EXCEPT ![t] = MustDestroy]
      /\ readable' = {} /\ writable' = {}
      /\ UNCHANGED <<capacity, unbounded, waiting_receivers, freed>>
  BY DEF DetachAndBroadcast, Enter, BroadcastBoth
<1>5. TypeOK'
  BY <1>2, <1>3, <1>4 DEF TypeOK, MustDestroy
<1>6. CallsBorrow'
  BY <1>1, <1>4 DEF CallsBorrow, TypeOK
<1>7. QueueCounted'
  <2>1. Receiving' = Receiving
    BY <1>1, <1>4 DEF Receiving, TypeOK
  <2> QED
    BY <1>2, <1>4, <2>1 DEF QueueCounted
<1>8. MustDestroy <=> live' = {}
  <2>1. /\ senders' = 0 <=> live' \cap SenderIds = {}
        /\ receivers' = 0 <=> live' \cap ReceiverIds = {}
    <3>1. IsFiniteSet(live' \cap SenderIds) /\ IsFiniteSet(live' \cap ReceiverIds)
      BY ChannelAssumption, FS_Subset
    <3> QED
      BY <3>1, CardinalityStep DEF EndpointsCounted
  <2>2. live' \subseteq SenderIds \cup ReceiverIds
    BY <1>5 DEF TypeOK, Endpoints
  <2> QED
    BY <2>1, <2>2 DEF MustDestroy
<1>9. DestroyedOnce'
  <2>1. ~freed /\ \A u \in Threads : ~destroy[u]
    BY <1>1 DEF DestroyedOnce
  <2>2. \A u \in Threads : destroy'[u] <=> (u = t /\ live' = {})
    BY <1>4, <1>8, <2>1 DEF TypeOK
  <2>3. pc'[t] = "dropping" /\ ~freed'
    BY <1>4, <2>1 DEF TypeOK
  <2> QED
    BY <2>2, <2>3 DEF DestroyedOnce
<1> QED
  BY <1>5, <1>6, <1>7, <1>9

\* Dropping an endpoint, up to its unlock.
LEMMA DropsKeep ==
    ASSUME IInv, NEW t \in Threads, NEW e \in Endpoints, DropSender(t, e) \/ DropReceiver(t, e)
    PROVE  IInv'
<1> USE DEF IInv
<1>1. CASE DropSender(t, e)
  <2>1. /\ e \in live \cap SenderIds /\ live' = live \ {e}
        /\ live' \cap SenderIds = (live \cap SenderIds) \ {e}
        /\ live' \cap ReceiverIds = live \cap ReceiverIds
    BY <1>1, ChannelAssumption DEF DropSender, MayDrop, MayCall
  <2>2. Cardinality(live' \cap SenderIds) = senders - 1 /\ senders \in Nat \ {0} /\ receivers \in Nat
    <3>1. Cardinality((live \cap SenderIds) \ {e}) = Cardinality(live \cap SenderIds) - 1
      BY <2>1, FiniteCounted, CardinalityStep
    <3>2. senders \in Nat \ {0} /\ receivers \in Nat
      BY <2>1, CountersExact
    <3> QED
      BY <2>1, <3>1, <3>2 DEF EndpointsCounted
  <2>3. senders' = senders - 1 /\ receivers' = receivers /\ receiver_closed' = receiver_closed
    BY <1>1, <2>2 DEF DropSender
  <2>4. sender_closed' <=> senders' = 0
    <3>1. ~sender_closed
      BY <2>2 DEF EndpointsCounted
    <3>2. sender_closed' = (sender_closed \/ senders = 1)
      BY <1>1 DEF DropSender
    <3>3. senders' = 0 <=> senders = 1
      BY <2>2, <2>3
    <3> QED
      BY <3>1, <3>2, <3>3
  <2>5. sender_closed' \in BOOLEAN /\ receiver_closed' \in BOOLEAN
    BY <1>1, <2>3 DEF DropSender, TypeOK
  <2>6. EndpointsCounted'
    BY <2>1, <2>2, <2>3, <2>4 DEF EndpointsCounted
  <2> QED
    BY <1>1, <2>1, <2>2, <2>3, <2>5, <2>6, DetachKeeps DEF DropSender
<1>2. CASE DropReceiver(t, e)
  <2>1. /\ e \in live \cap ReceiverIds /\ live' = live \ {e}
        /\ live' \cap ReceiverIds = (live \cap ReceiverIds) \ {e}
        /\ live' \cap SenderIds = live \cap SenderIds
    BY <1>2, ChannelAssumption DEF DropReceiver, MayDrop, MayCall
  <2>2. Cardinality(live' \cap ReceiverIds) = receivers - 1 /\ receivers \in Nat \ {0} /\ senders \in Nat
    <3>1. Cardinality((live \cap ReceiverIds) \ {e}) = Cardinality(live \cap ReceiverIds) - 1
      BY <2>1, FiniteCounted, CardinalityStep
    <3>2. receivers \in Nat \ {0} /\ senders \in Nat
      BY <2>1, CountersExact
    <3> QED
      BY <2>1, <3>1, <3>2 DEF EndpointsCounted
  <2>3. receivers' = receivers - 1 /\ senders' = senders /\ sender_closed' = sender_closed
    BY <1>2, <2>2 DEF DropReceiver
  <2>4. receiver_closed' <=> receivers' = 0
    <3>1. ~receiver_closed
      BY <2>2 DEF EndpointsCounted
    <3>2. receiver_closed' = (receiver_closed \/ receivers = 1)
      BY <1>2 DEF DropReceiver
    <3>3. receivers' = 0 <=> receivers = 1
      BY <2>2, <2>3
    <3> QED
      BY <3>1, <3>2, <3>3
  <2>5. sender_closed' \in BOOLEAN /\ receiver_closed' \in BOOLEAN
    BY <1>2, <2>3 DEF DropReceiver, TypeOK
  <2>6. EndpointsCounted'
    BY <2>1, <2>2, <2>3, <2>4 DEF EndpointsCounted
  <2> QED
    BY <1>2, <2>1, <2>2, <2>3, <2>5, <2>6, DetachKeeps DEF DropReceiver
<1> QED
  BY <1>1, <1>2

\* The tail of a drop, after its unlock.
LEMMA DropReleaseKeeps ==
    ASSUME IInv, NEW t \in Threads, DropRelease(t)
    PROVE  IInv'
<1> USE DEF IInv
<1>1. /\ pc[t] = "dropping"
      /\ pc' = [pc EXCEPT ![t] = "idle"]
      /\ via' = [via EXCEPT ![t] = None]
      /\ destroy' = [destroy EXCEPT ![t] = FALSE]
      /\ freed' = (freed \/ destroy[t])
      /\ UNCHANGED <<chanVars, condVars, live>>
  BY DEF DropRelease, Return, Enter
<1>2. TypeOK'
  BY <1>1 DEF DropRelease, Return, Enter, TypeOK, Fates, chanVars, condVars
<1>3. EndpointsCounted'
  BY <1>1 DEF EndpointsCounted, chanVars
<1>4. CallsBorrow'
  BY <1>1 DEF CallsBorrow, TypeOK, DropRelease, Return, Enter
<1>5. QueueCounted'
  <2>1. Receiving' = Receiving
    BY <1>1 DEF Receiving, TypeOK
  <2> QED
    BY <1>1, <2>1 DEF QueueCounted, chanVars
<1>6. DestroyedOnce'
  BY <1>1 DEF DestroyedOnce, TypeOK
<1> QED
  BY <1>2, <1>3, <1>4, <1>5, <1>6

\* Every action preserves the invariant, whichever thread takes it.
LEMMA NextIInv == IInv /\ [Next]_vars => IInv'
<1> SUFFICES ASSUME IInv, [Next]_vars PROVE IInv'
  OBVIOUS
<1>1. ASSUME NEW t \in Threads, Call(t) PROVE IInv'
  BY <1>1, SendsKeep, ReceivesKeep, ClonesKeep, DropsKeep DEF Call
<1>2. ASSUME NEW t \in Threads, Resume(t) PROVE IInv'
  BY <1>2, ResumesKeep, DropReleaseKeeps DEF Resume
<1>3. ASSUME NEW t \in Threads, SpuriousWake(t) PROVE IInv'
  <2>1. TypeOK'
    BY <1>3 DEF IInv, SpuriousWake, TypeOK, chanVars, callVars, dropVars
  <2>2. EndpointsCounted' /\ CallsBorrow' /\ DestroyedOnce'
    BY <1>3 DEF IInv, SpuriousWake, EndpointsCounted, CallsBorrow, DestroyedOnce, chanVars, callVars, dropVars
  <2>3. QueueCounted'
    BY <1>3 DEF IInv, SpuriousWake, QueueCounted, Receiving, chanVars, callVars
  <2> QED
    BY <2>1, <2>2, <2>3 DEF IInv
<1>4. CASE UNCHANGED vars
  <2>1. TypeOK'
    BY <1>4 DEF IInv, vars, TypeOK, chanVars, callVars, dropVars, condVars
  <2>2. EndpointsCounted' /\ CallsBorrow' /\ DestroyedOnce'
    BY <1>4 DEF IInv, vars, EndpointsCounted, CallsBorrow, DestroyedOnce, chanVars, callVars, dropVars
  <2>3. QueueCounted'
    BY <1>4 DEF IInv, vars, QueueCounted, Receiving, chanVars, callVars
  <2> QED
    BY <2>1, <2>2, <2>3 DEF IInv
<1> QED
  BY <1>1, <1>2, <1>3, <1>4 DEF Next

\* The invariant holds in every reachable state.
LEMMA SpecIInv == Spec => []IInv
BY InitIInv, NextIInv, PTL DEF Spec

-----------------------------------------------------------------------------
(* Theorems *)

\* The counters never leave their type: no drop and no resumed receive
\* decrements senders, receivers, count or waiting_receivers below zero.
THEOREM ChannelTypeCorrect == Spec => []TypeOK
<1>1. IInv => TypeOK
  BY DEF IInv
<1> QED
  BY <1>1, SpecIInv, PTL

\* The block is freed once, by the drop of the last endpoint, and nothing
\* uses it afterwards.
THEOREM ChannelMemorySafe == Spec => []MemorySafe
<1>1. ASSUME IInv PROVE MemorySafe
  <2>1. \A t \in Threads : pc[t] \in {"sending", "handoff", "receiving"} => live # {}
    BY <1>1 DEF IInv, CallsBorrow
  <2>2. \A t \in Threads : pc[t] \in {"idle", "sending", "handoff", "receiving", "dropping"}
    BY <1>1 DEF IInv, TypeOK
  <2> QED
    BY <1>1, <2>1, <2>2 DEF IInv, DestroyedOnce, MemorySafe
<1> QED
  BY <1>1, SpecIInv, PTL

\* A channel that nobody holds and nobody is inside has been freed, with no
\* message left in its queue.
THEOREM ChannelReclaimed == Spec => []Reclaimed
<1>1. ASSUME IInv, live = {}, \A t \in Threads : ~InCall(t)
      PROVE  freed /\ queue = <<>>
  <2>1. receivers = 0
    BY <1>1, CountersExact
  <2> QED
    BY <1>1, <2>1 DEF IInv, DestroyedOnce, QueueCounted, InCall
<1>2. IInv => Reclaimed
  BY <1>1 DEF Reclaimed
<1> QED
  BY <1>2, SpecIInv, PTL

-----------------------------------------------------------------------------
(* Sequences without repetitions *)

Distinct(s) == \A i, j \in 1..Len(s) : s[i] = s[j] => i = j

\* Appending what is not there.
LEMMA AppendDistinct ==
    ASSUME NEW S, NEW s \in Seq(S), NEW m \in S, Distinct(s), m \notin Range(s)
    PROVE  Distinct(Append(s, m)) /\ Range(Append(s, m)) = Range(s) \cup {m}
<1> DEFINE a == Append(s, m)
<1>1. /\ Len(s) \in Nat /\ Len(a) = Len(s) + 1
      /\ DOMAIN s = 1..Len(s) /\ DOMAIN a = 1..Len(a)
      /\ \A i \in 1..Len(s) : a[i] = s[i]
      /\ a[Len(s) + 1] = m
  BY AppendProperties, LenProperties
<1>2. \A i \in 1..Len(s) : s[i] # m
  BY <1>1 DEF Range
<1>3. ASSUME NEW i \in 1..Len(a), NEW j \in 1..Len(a), a[i] = a[j] PROVE i = j
  BY <1>1, <1>2, <1>3 DEF Distinct
<1>4. Range(a) = Range(s) \cup {m}
  BY <1>1 DEF Range
<1> QED
  BY <1>3, <1>4 DEF Distinct

\* Taking the head off.
LEMMA TailDistinct ==
    ASSUME NEW S, NEW s \in Seq(S), s # <<>>, Distinct(s)
    PROVE  /\ Distinct(Tail(s))
           /\ Head(s) \in Range(s) /\ Head(s) \in S
           /\ Range(Tail(s)) = Range(s) \ {Head(s)}
<1> DEFINE r == Tail(s)
<1>1. /\ Len(s) \in Nat \ {0} /\ Len(r) = Len(s) - 1 /\ r \in Seq(S)
      /\ DOMAIN s = 1..Len(s) /\ DOMAIN r = 1..Len(r)
      /\ \A i \in 1..Len(r) : r[i] = s[i + 1]
      /\ Head(s) = s[1] /\ Head(s) \in S
  BY HeadTailProperties, LenProperties, EmptySeq
<1>2. ASSUME NEW i \in 1..Len(r), NEW j \in 1..Len(r), r[i] = r[j] PROVE i = j
  <2>1. i + 1 \in 1..Len(s) /\ j + 1 \in 1..Len(s) /\ s[i + 1] = s[j + 1]
    BY <1>1, <1>2
  <2> QED
    BY <2>1 DEF Distinct
<1>3. Head(s) \in Range(s)
  BY <1>1 DEF Range
<1>4. ASSUME NEW x \in Range(r) PROVE x \in Range(s) \ {Head(s)}
  <2>1. PICK i \in 1..Len(r) : x = r[i]
    BY <1>1, <1>4 DEF Range
  <2>2. i + 1 \in 1..Len(s) /\ i + 1 # 1 /\ 1 \in 1..Len(s) /\ x = s[i + 1]
    BY <1>1, <2>1
  <2> QED
    BY <1>1, <2>2 DEF Range, Distinct
<1>5. ASSUME NEW x \in Range(s) \ {Head(s)} PROVE x \in Range(r)
  <2>1. PICK i \in 1..Len(s) : x = s[i] /\ i # 1
    BY <1>1, <1>5 DEF Range
  <2>2. i - 1 \in 1..Len(r) /\ r[i - 1] = x
    BY <1>1, <2>1
  <2> QED
    BY <1>1, <2>2 DEF Range
<1> QED
  BY <1>1, <1>2, <1>3, <1>4, <1>5 DEF Distinct

-----------------------------------------------------------------------------
(* A message comes or goes *)

\* The pushed message was not in the queue, and every other one keeps its fate.
LEMMA PushConserves ==
    ASSUME IInv, Conservation, MessagesHeld, NEW t \in Threads, NEW m \in Messages,
           \/ pc[t] = "idle" /\ fate[m] = "owned"
           \/ pc[t] = "sending" /\ m = arg[t],
           Push(m), UNCHANGED messages
    PROVE  Conservation'
<1>1. queue \in Seq(Messages) /\ fate \in [Messages -> Fates] /\ Distinct(queue)
  BY DEF IInv, TypeOK, Conservation, Distinct
<1>2. fate[m] \in {"owned", "argument"}
  BY DEF MessagesHeld
<1>3. m \notin Range(queue)
  BY <1>2 DEF Conservation
<1>4. /\ queue' = Append(queue, m) /\ count' = count + 1 /\ Len(queue') = Len(queue) + 1
      /\ fate' = [fate EXCEPT ![m] = "queued"] /\ messages' = messages
  BY <1>1, AppendProperties DEF Push
<1>5. Distinct(queue') /\ Range(queue') = Range(queue) \cup {m}
  BY <1>1, <1>3, <1>4, AppendDistinct
<1>6. \A x \in Messages : fate'[x] = "queued" <=> x \in Range(queue')
  BY <1>1, <1>4, <1>5 DEF Conservation
<1>7. \A x \in Messages : fate'[x] = "detached" <=> \E u \in Threads : x \in messages'[u]
  BY <1>1, <1>2, <1>4 DEF Conservation
<1>8. \A u, v \in Threads : u # v => messages'[u] \cap messages'[v] = {}
  BY <1>4 DEF Conservation
<1> QED
  BY <1>4, <1>5, <1>6, <1>7, <1>8 DEF Conservation, Distinct

\* The message at the head leaves the queue for good.
LEMMA PopConserves ==
    ASSUME IInv, Conservation, count # 0, NEW wr, Pop(wr), UNCHANGED messages
    PROVE  /\ Conservation' /\ Head(queue) \in Messages /\ fate[Head(queue)] = "queued"
           /\ count \in Nat \ {0} /\ count' = count - 1
<1>1. queue \in Seq(Messages) /\ fate \in [Messages -> Fates] /\ Distinct(queue)
  BY DEF IInv, TypeOK, Conservation, Distinct
<1>2. queue # <<>> /\ count = Len(queue)
  BY EmptySeq DEF Conservation
<1>3. /\ queue' = Tail(queue) /\ count' = count - 1
      /\ fate' = [fate EXCEPT ![Head(queue)] = "received"] /\ messages' = messages
  BY DEF Pop
<1>4. /\ Distinct(queue') /\ Range(queue') = Range(queue) \ {Head(queue)}
      /\ Head(queue) \in Range(queue) /\ Head(queue) \in Messages
  BY <1>1, <1>2, <1>3, TailDistinct
<1>5. Len(queue') = Len(queue) - 1 /\ Len(queue) \in Nat \ {0}
  BY <1>1, <1>2, <1>3, HeadTailProperties, EmptySeq
<1>6. fate[Head(queue)] = "queued"
  BY <1>4 DEF Conservation
<1>7. \A x \in Messages : fate'[x] = "queued" <=> x \in Range(queue')
  BY <1>1, <1>3, <1>4 DEF Conservation
<1>8. \A x \in Messages : fate'[x] = "detached" <=> \E u \in Threads : x \in messages'[u]
  BY <1>1, <1>3, <1>4, <1>6 DEF Conservation
<1>9. \A u, v \in Threads : u # v => messages'[u] \cap messages'[v] = {}
  BY <1>3 DEF Conservation
<1> QED
  BY <1>2, <1>3, <1>4, <1>5, <1>6, <1>7, <1>8, <1>9 DEF Conservation, Distinct

\* A push past the tests of send, whether the thread returns or waits for the
\* hand-over.
LEMMA PushDelivers ==
    ASSUME IInv, DeliveryInv, NEW t \in Threads, NEW m \in Messages, NEW e,
           \/ pc[t] = "idle" /\ fate[m] = "owned"
           \/ pc[t] = "sending" /\ m = arg[t],
           ~Full, ~Closed, Push(m), UNCHANGED messages,
           \/ Enter(t, "handoff", e, m) /\ capacity = 0 /\ writable' = writable \cup {t}
           \/ Return(t) /\ writable' = writable
           \/ pc[t] = "idle" /\ UNCHANGED <<callVars, writable>>
    PROVE  DeliveryInv'
<1> USE DEF DeliveryInv
<1>1. Conservation'
  BY PushConserves
<1>2. /\ fate' = [fate EXCEPT ![m] = "queued"] /\ count' = count + 1 /\ count \in Nat
      /\ fate \in [Messages -> Fates]
      /\ UNCHANGED <<capacity, unbounded, waiting_receivers, sender_closed, receiver_closed, messages>>
  BY DEF Push, IInv, TypeOK
<1>3. /\ pc \in [Threads -> {"idle", "sending", "handoff", "receiving", "dropping"}]
      /\ via \in [Threads -> Endpoints \cup {None}] /\ arg \in [Threads -> Messages \cup {None}]
  BY DEF IInv, TypeOK
<1>4. /\ \A u \in Threads \ {t} : pc'[u] = pc[u] /\ arg'[u] = arg[u]
      /\ \/ pc'[t] = "handoff" /\ arg'[t] = m /\ capacity = 0
         \/ pc'[t] = "idle"
  BY <1>3 DEF Enter, Return, callVars
<1>5. Receiving' = Receiving
  BY <1>3, <1>4 DEF Receiving
<1>6. Backpressure'
  <2>1. ~unbounded /\ capacity = 0 => Receiving # {} /\ count = 0
    BY CountersExact DEF Full
  <2>2. ~unbounded /\ capacity # 0 => count < capacity
    BY <1>2 DEF Full, IInv, TypeOK
  <2> QED
    BY <1>2, <1>5, <2>1, <2>2 DEF Backpressure, IInv, TypeOK
<1>8. NoLostReadable' /\ readable' \subseteq Receiving'
  <2>1. CASE readable = {}
    BY <2>1 DEF Push, Signal, NoLostReadable
  <2>2. CASE readable # {}
    <3>1. PICK w \in readable : readable' = readable \ {w}
      BY <2>2 DEF Push, Signal
    <3>2. /\ count <= Cardinality(Receiving \ readable) /\ readable \subseteq Receiving
          /\ ~sender_closed /\ ~receiver_closed
      BY <2>2 DEF NoLostWakeup, NoLostReadable, SleepersWait
    <3>3. IsFiniteSet(Receiving \ readable)
      BY FiniteCounted, FS_Subset DEF IInv
    <3>4. w \notin Receiving \ readable /\ Receiving \ readable' = (Receiving \ readable) \cup {w}
      BY <3>1, <3>2
    <3>5. Cardinality(Receiving \ readable') = Cardinality(Receiving \ readable) + 1
      BY <3>3, <3>4, CardinalityStep
    <3>6. Cardinality(Receiving \ readable) \in Nat
      BY <3>3, CardinalityStep
    <3> QED
      BY <1>2, <1>5, <3>1, <3>2, <3>5, <3>6 DEF NoLostReadable
  <2> QED
    BY <2>1, <2>2
<1>9. \A u \in writable : pc[u] = "handoff" /\ u # t
  BY DEF NoLostWakeup, NoLostWritable, SleepersWait
<1>10. NoLostWritable' /\ \A u \in writable' : pc'[u] = "handoff"
  <2>1. writable' \subseteq writable \cup {t} /\ (t \in writable' => pc'[t] = "handoff")
    BY <1>3, <1>9 DEF Enter, Return
  <2>2. \A u \in writable : u \in Threads
    BY DEF IInv, TypeOK
  <2>3. \A u \in writable' : pc'[u] = "handoff"
    BY <1>4, <1>9, <2>1, <2>2
  <2>4. count' # 0 /\ ~receiver_closed'
    BY <1>2 DEF Closed
  <2> QED
    BY <2>3, <2>4 DEF NoLostWritable
<1>11. MessagesHeld'
  <2>1. \A u \in Threads : pc[u] = "sending" /\ u # t => arg[u] # m
    BY DEF MessagesHeld
  <2>2. \A u \in Threads : pc[u] \in {"sending", "handoff"} => arg[u] \in Messages
    BY DEF IInv, CallsBorrow
  <2>3. \A u \in Threads : pc'[u] = "sending" => u # t /\ pc[u] = "sending" /\ arg'[u] = arg[u]
    BY <1>4
  <2>4. \A u \in Threads : pc'[u] = "sending" => fate'[arg'[u]] = "argument"
    BY <1>2, <2>1, <2>2, <2>3 DEF MessagesHeld
  <2>5. \A u \in Threads : pc'[u] = "handoff" => fate'[arg'[u]] \in {"queued", "received"}
    BY <1>2, <1>4, <2>2 DEF MessagesHeld
  <2>6. \A u \in Threads : messages'[u] # {} => pc'[u] = "dropping"
    BY <1>2, <1>4 DEF MessagesHeld
  <2> QED
    BY <2>3, <2>4, <2>5, <2>6 DEF MessagesHeld
<1>12. SleepersWait'
  <2>1. \A u \in Threads : pc'[u] = "handoff" => capacity' = 0
    BY <1>2, <1>4 DEF SleepersWait
  <2>2. unbounded' => capacity' # 0
    BY <1>2 DEF SleepersWait
  <2> QED
    BY <1>8, <1>10, <2>1, <2>2 DEF SleepersWait
<1> QED
  BY <1>1, <1>6, <1>8, <1>10, <1>11, <1>12 DEF NoLostWakeup

-----------------------------------------------------------------------------
(* The queue stays as it is *)

\* A message outside the queue and outside every drop may change its fate to
\* another such fate.
LEMMA ConservationFrame ==
    ASSUME Conservation, UNCHANGED <<queue, count, messages>>,
           \A x \in Messages :
              \/ fate'[x] = fate[x]
              \/ /\ fate[x] \notin {"queued", "detached"}
                 /\ fate'[x] \notin {"queued", "detached"}
    PROVE  Conservation'
BY DEF Conservation

\* Waking threads, for a reason or none: a broadcast, a spurious wakeup, and
\* with no thread woken, a clone or a call that changes nothing.
LEMMA WakingDelivers ==
    ASSUME IInv, DeliveryInv, readable' \subseteq readable, writable' \subseteq writable,
           UNCHANGED <<capacity, unbounded, count, queue, waiting_receivers, sender_closed,
                       receiver_closed, callVars, messages, fate>>
    PROVE  DeliveryInv'
<1> USE DEF DeliveryInv
<1>1. Conservation'
  BY ConservationFrame
<1>2. Receiving' = Receiving
  BY DEF Receiving, callVars
<1>3. Backpressure' /\ MessagesHeld'
  BY <1>2 DEF Backpressure, MessagesHeld, callVars
<1>4. SleepersWait'
  BY <1>2 DEF SleepersWait, callVars
<1>5. NoLostReadable'
  <2>1. /\ IsFiniteSet(Receiving \ readable) /\ IsFiniteSet(Receiving \ readable')
        /\ Receiving \ readable \subseteq Receiving \ readable'
    BY FiniteCounted, FS_Subset DEF IInv
  <2>2. Cardinality(Receiving \ readable) <= Cardinality(Receiving \ readable')
    BY <2>1, FS_Subset
  <2>3. /\ Cardinality(Receiving \ readable) \in Nat /\ Cardinality(Receiving \ readable') \in Nat
        /\ count \in Nat
    BY <2>1, FS_CardinalityType DEF IInv, TypeOK
  <2> QED
    BY <1>2, <2>2, <2>3 DEF NoLostWakeup, NoLostReadable
<1>6. NoLostWritable'
  BY DEF NoLostWakeup, NoLostWritable, Full, callVars
<1> QED
  BY <1>1, <1>3, <1>4, <1>5, <1>6 DEF NoLostWakeup

\* A send is refused: the argument is nowhere any more.
LEMMA RefuseDelivers ==
    ASSUME IInv, DeliveryInv, NEW t \in Threads, NEW m \in Messages,
           NEW why \in {"closed", "full"},
           \/ pc[t] = "idle" /\ fate[m] = "owned"
           \/ pc[t] = "sending" /\ m = arg[t] /\ t \notin writable,
           Refuse(t, m, why), UNCHANGED messages
    PROVE  DeliveryInv'
<1> USE DEF DeliveryInv
<1>1. /\ fate' = [fate EXCEPT ![m] = why] /\ fate \in [Messages -> Fates]
      /\ UNCHANGED <<capacity, unbounded, count, queue, waiting_receivers, sender_closed,
                     receiver_closed, readable, writable, messages>>
  BY DEF Refuse, IInv, TypeOK, chanVars, condVars
<1>2. /\ \A u \in Threads \ {t} : pc'[u] = pc[u] /\ arg'[u] = arg[u]
      /\ pc'[t] = "idle" /\ t \notin writable /\ pc[t] # "receiving"
  BY DEF Refuse, Return, Enter, IInv, TypeOK, SleepersWait
<1>3. fate[m] \in {"owned", "argument"}
  BY DEF MessagesHeld
<1>4. Conservation'
  BY <1>1, <1>3, ConservationFrame
<1>5. Receiving' = Receiving
  BY <1>2 DEF Receiving
<1>6. Backpressure' /\ NoLostReadable'
  BY <1>1, <1>5 DEF Backpressure, NoLostWakeup, NoLostReadable
<1>7. writable \subseteq Threads
  BY DEF IInv, TypeOK
<1>8. NoLostWritable'
  BY <1>1, <1>2, <1>7 DEF NoLostWakeup, NoLostWritable, Full
<1>9. SleepersWait'
  BY <1>1, <1>2, <1>5, <1>7 DEF SleepersWait
<1>10. MessagesHeld'
  <2>1. \A u \in Threads \ {t} : pc[u] \in {"sending", "handoff"} => arg[u] # m
    BY <1>3 DEF MessagesHeld
  <2>2. \A u \in Threads \ {t} : pc[u] \in {"sending", "handoff"} => fate'[arg'[u]] = fate[arg[u]]
    BY <1>1, <1>2, <2>1 DEF IInv, CallsBorrow
  <2>3. \A u \in Threads : messages[u] # {} => u # t
    BY DEF MessagesHeld
  <2> QED
    BY <1>1, <1>2, <2>2, <2>3 DEF MessagesHeld
<1> QED
  BY <1>4, <1>6, <1>8, <1>9, <1>10 DEF NoLostWakeup

\* A send goes to sleep until there is room.
LEMMA SendSleepDelivers ==
    ASSUME IInv, DeliveryInv, NEW t \in Threads, NEW e, NEW m \in Messages,
           pc[t] = "idle", fate[m] = "owned", ~Closed, Full,
           Enter(t, "sending", e, m), fate' = [fate EXCEPT ![m] = "argument"],
           writable' = writable \cup {t}, UNCHANGED <<chanVars, readable, messages>>
    PROVE  DeliveryInv'
<1> USE DEF DeliveryInv
<1>1. /\ fate \in [Messages -> Fates] /\ writable \subseteq Threads
      /\ UNCHANGED <<capacity, unbounded, count, queue, waiting_receivers, sender_closed,
                     receiver_closed, readable, messages>>
  BY DEF IInv, TypeOK, chanVars
<1>2. /\ \A u \in Threads \ {t} : pc'[u] = pc[u] /\ arg'[u] = arg[u]
      /\ pc'[t] = "sending" /\ arg'[t] = m
  BY DEF Enter, IInv, TypeOK
<1>3. Conservation'
  BY <1>1, ConservationFrame
<1>4. Receiving' = Receiving
  BY <1>2 DEF Receiving
<1>5. Backpressure' /\ NoLostReadable'
  BY <1>1, <1>4 DEF Backpressure, NoLostWakeup, NoLostReadable
<1>6. NoLostWritable'
  BY <1>1, <1>2 DEF NoLostWakeup, NoLostWritable, Full, Closed
<1>7. SleepersWait'
  BY <1>1, <1>2, <1>4 DEF SleepersWait
<1>8. MessagesHeld'
  <2>1. \A u \in Threads : pc[u] \in {"sending", "handoff"} => arg[u] # m /\ u # t
    BY DEF MessagesHeld
  <2>2. \A u \in Threads \ {t} : pc[u] \in {"sending", "handoff"} => fate'[arg'[u]] = fate[arg[u]]
    BY <1>1, <1>2, <2>1 DEF IInv, CallsBorrow
  <2>3. fate'[arg'[t]] = "argument"
    BY <1>1, <1>2
  <2> QED
    BY <1>1, <1>2, <2>1, <2>2, <2>3 DEF MessagesHeld
<1> QED
  BY <1>3, <1>5, <1>6, <1>7, <1>8 DEF NoLostWakeup

\* A woken send finds its condition still true and sleeps again.
LEMMA SendAgainDelivers ==
    ASSUME IInv, DeliveryInv, NEW t \in Threads,
           \/ pc[t] = "sending" /\ ~Closed /\ Full
           \/ pc[t] = "handoff" /\ count # 0 /\ ~receiver_closed,
           writable' = writable \cup {t},
           UNCHANGED <<chanVars, readable, callVars, messages, fate>>
    PROVE  DeliveryInv'
<1> USE DEF DeliveryInv, chanVars, callVars
<1>1. Conservation'
  BY ConservationFrame
<1>2. Receiving' = Receiving
  BY DEF Receiving
<1>3. Backpressure' /\ NoLostReadable' /\ MessagesHeld' /\ SleepersWait'
  BY <1>2 DEF Backpressure, NoLostWakeup, NoLostReadable, MessagesHeld, SleepersWait
<1>4. NoLostWritable'
  BY DEF NoLostWakeup, NoLostWritable, Full, Closed
<1> QED
  BY <1>1, <1>3, <1>4 DEF NoLostWakeup

\* A send of a rendezvous channel returns after its wait.
LEMMA HandoffReturnDelivers ==
    ASSUME IInv, DeliveryInv, NEW t \in Threads, pc[t] = "handoff", t \notin writable,
           Return(t), UNCHANGED <<chanVars, condVars, messages, fate>>
    PROVE  DeliveryInv'
<1> USE DEF DeliveryInv, chanVars, condVars
<1>1. /\ \A u \in Threads \ {t} : pc'[u] = pc[u] /\ arg'[u] = arg[u]
      /\ pc'[t] = "idle" /\ writable \subseteq Threads
  BY DEF Return, Enter, IInv, TypeOK
<1>2. Conservation'
  BY ConservationFrame
<1>3. Receiving' = Receiving
  BY <1>1 DEF Receiving
<1>4. Backpressure' /\ NoLostReadable'
  BY <1>3 DEF Backpressure, NoLostWakeup, NoLostReadable
<1>5. MessagesHeld'
  BY <1>1 DEF MessagesHeld
<1>6. SleepersWait'
  BY <1>1, <1>3 DEF SleepersWait
<1>7. NoLostWritable'
  BY <1>1 DEF NoLostWakeup, NoLostWritable, Full
<1> QED
  BY <1>2, <1>4, <1>5, <1>6, <1>7 DEF NoLostWakeup

-----------------------------------------------------------------------------
(* Receives *)

\* A message is moved out and every sleeping send is woken.
LEMMA PopDelivers ==
    ASSUME IInv, DeliveryInv, NEW t \in Threads, NEW wr, count # 0, Pop(wr),
           UNCHANGED <<readable, messages>>,
           \/ pc[t] = "idle" /\ UNCHANGED callVars
           \/ pc[t] = "receiving" /\ t \notin readable /\ Return(t)
    PROVE  DeliveryInv'
<1> USE DEF DeliveryInv
<1>1. /\ Conservation' /\ Head(queue) \in Messages /\ fate[Head(queue)] = "queued"
      /\ count \in Nat \ {0} /\ count' = count - 1
  BY PopConserves
<1>2. /\ writable' = {} /\ readable' = readable /\ messages' = messages
      /\ UNCHANGED <<capacity, unbounded, sender_closed, receiver_closed>>
      /\ fate' = [fate EXCEPT ![Head(queue)] = "received"] /\ fate \in [Messages -> Fates]
  BY DEF Pop, IInv, TypeOK
<1>3. /\ \A u \in Threads \ {t} : pc'[u] = pc[u] /\ arg'[u] = arg[u]
      /\ pc'[t] = "idle"
  BY DEF Return, Enter, callVars, IInv, TypeOK
<1>4. Backpressure'
  BY <1>1, <1>2 DEF Backpressure, IInv, TypeOK
<1>5. SleepersWait'
  BY <1>2, <1>3 DEF SleepersWait, Receiving
<1>6. NoLostReadable'
  <2> SUFFICES ASSUME readable # {} PROVE NoLostReadable'
    BY <1>2 DEF NoLostReadable
  <2>1. /\ count <= Cardinality(Receiving \ readable) /\ ~sender_closed /\ ~receiver_closed
    BY DEF NoLostWakeup, NoLostReadable
  <2>2. IsFiniteSet(Receiving \ readable)
    BY FiniteCounted, FS_Subset DEF IInv
  <2>3. CASE pc[t] = "idle"
    <3>1. Receiving' = Receiving
      BY <1>3, <2>3 DEF Receiving
    <3>2. Cardinality(Receiving \ readable) \in Nat
      BY <2>2, FS_CardinalityType
    <3> QED
      BY <1>1, <1>2, <2>1, <3>1, <3>2 DEF NoLostReadable
  <2>4. CASE pc[t] = "receiving" /\ t \notin readable
    <3>1. t \in Receiving \ readable /\ Receiving' \ readable' = (Receiving \ readable) \ {t}
      BY <1>2, <1>3, <2>4 DEF Receiving
    <3>2. /\ Cardinality(Receiving \ readable) \in Nat \ {0}
          /\ Cardinality(Receiving' \ readable') = Cardinality(Receiving \ readable) - 1
      BY <2>2, <3>1, CardinalityStep
    <3> QED
      BY <1>1, <1>2, <2>1, <3>2 DEF NoLostReadable
  <2> QED
    BY <2>3, <2>4
<1>7. NoLostWritable'
  BY <1>2 DEF NoLostWritable
<1>8. MessagesHeld'
  <2>1. \A u \in Threads : pc'[u] \in {"sending", "handoff"} => arg'[u] \in Messages
    BY <1>3 DEF IInv, CallsBorrow
  <2>2. \A u \in Threads : pc'[u] = "sending" => fate'[arg'[u]] = "argument"
    BY <1>1, <1>2, <1>3, <2>1 DEF MessagesHeld
  <2>3. \A u \in Threads : pc'[u] = "handoff" => fate'[arg'[u]] \in {"queued", "received"}
    BY <1>1, <1>2, <1>3, <2>1 DEF MessagesHeld
  <2>4. \A u \in Threads : messages'[u] # {} => pc'[u] = "dropping"
    BY <1>2, <1>3 DEF MessagesHeld
  <2> QED
    BY <1>3, <2>2, <2>3, <2>4 DEF MessagesHeld
<1> QED
  BY <1>1, <1>4, <1>5, <1>6, <1>7, <1>8 DEF NoLostWakeup

\* A receive finds nothing and goes to sleep, for the first time or again.
LEMMA ReceiveSleepDelivers ==
    ASSUME IInv, DeliveryInv, NEW t \in Threads, NEW e, NothingToReceive,
           readable' = readable \cup {t},
           UNCHANGED <<capacity, unbounded, count, queue, sender_closed, receiver_closed,
                       messages, fate>>,
           \/ pc[t] = "idle" /\ Enter(t, "receiving", e, None) /\ writable' = {}
           \/ pc[t] = "receiving" /\ UNCHANGED <<callVars, waiting_receivers, writable>>
    PROVE  DeliveryInv'
<1> USE DEF DeliveryInv
<1>1. Conservation'
  BY ConservationFrame
<1>2. /\ \A u \in Threads \ {t} : pc'[u] = pc[u] /\ arg'[u] = arg[u]
      /\ pc'[t] = "receiving"
  BY DEF Enter, callVars, IInv, TypeOK
<1>3. /\ Receiving' = Receiving \cup {t}
  BY <1>2 DEF Receiving
<1>4. Backpressure'
  BY DEF Backpressure, NothingToReceive, IInv, TypeOK
<1>5. NoLostReadable'
  <2>1. IsFiniteSet(Receiving) /\ IsFiniteSet(Receiving \cup {t})
    BY FiniteCounted, FS_AddElement DEF IInv
  <2>2. IsFiniteSet(Receiving' \ readable')
    BY <1>3, <2>1, FS_Subset
  <2>3. Cardinality(Receiving' \ readable') \in Nat
    BY <2>2, FS_CardinalityType
  <2> QED
    BY <2>3 DEF NoLostReadable, NothingToReceive
<1>6. NoLostWritable'
  BY DEF NoLostWakeup, NoLostWritable, Full, callVars
<1>7. SleepersWait'
  BY <1>2, <1>3 DEF SleepersWait, callVars, IInv, TypeOK
<1>8. MessagesHeld'
  BY <1>2 DEF MessagesHeld
<1> QED
  BY <1>1, <1>4, <1>5, <1>6, <1>7, <1>8 DEF NoLostWakeup

\* A receive that has waited finds the channel closed and empty.
LEMMA ReceiveReturnDelivers ==
    ASSUME IInv, DeliveryInv, NEW t \in Threads, pc[t] = "receiving", t \notin readable,
           ~NothingToReceive, count = 0, waiting_receivers' = waiting_receivers - 1, Return(t),
           UNCHANGED <<capacity, unbounded, count, queue, sender_closed, receiver_closed,
                       condVars, messages, fate>>
    PROVE  DeliveryInv'
<1> USE DEF DeliveryInv, condVars
<1>1. Conservation'
  BY ConservationFrame
<1>2. /\ \A u \in Threads \ {t} : pc'[u] = pc[u] /\ arg'[u] = arg[u]
      /\ pc'[t] = "idle"
  BY DEF Return, Enter, IInv, TypeOK
<1>3. readable = {} /\ \A u \in writable : u # t /\ u \in Threads
  BY DEF NoLostWakeup, NoLostReadable, NothingToReceive, SleepersWait, IInv, TypeOK
<1>4. Backpressure' /\ NoLostReadable'
  BY <1>3 DEF Backpressure, NoLostReadable, IInv, TypeOK
<1>5. waiting_receivers # 0
  BY CountersExact DEF Receiving
<1>6. NoLostWritable'
  BY <1>2, <1>3, <1>5 DEF NoLostWakeup, NoLostWritable, Full
<1>7. SleepersWait'
  BY <1>2, <1>3 DEF SleepersWait
<1>8. MessagesHeld'
  BY <1>2 DEF MessagesHeld
<1> QED
  BY <1>1, <1>4, <1>6, <1>7, <1>8 DEF NoLostWakeup

-----------------------------------------------------------------------------
(* Drops *)

\* The critical section of a drop: the queue goes to the drop when no receiver
\* is left, and every sleeping thread is woken.
LEMMA DetachDelivers ==
    ASSUME IInv, IInv', DeliveryInv, NEW t \in Threads, pc[t] = "idle", DetachAndBroadcast(t)
    PROVE  DeliveryInv'
<1> USE DEF DeliveryInv
<1>1. /\ readable' = {} /\ writable' = {} /\ UNCHANGED <<capacity, unbounded>>
  BY DEF DetachAndBroadcast, BroadcastBoth
<1>2. /\ \A u \in Threads \ {t} : pc'[u] = pc[u] /\ arg'[u] = arg[u]
      /\ pc'[t] = "dropping" /\ pc[t] = "idle"
  BY DEF DetachAndBroadcast, Enter, IInv, TypeOK
<1>3. Receiving' = Receiving
  BY <1>2 DEF Receiving
<1>4. NoLostReadable' /\ NoLostWritable'
  BY <1>1 DEF NoLostReadable, NoLostWritable
<1>5. SleepersWait'
  BY <1>1, <1>2 DEF SleepersWait
<1>6. messages[t] = {}
  BY DEF MessagesHeld
<1>7. CASE receivers' # 0
  <2>1. UNCHANGED <<messages, fate, queue, count>>
    BY <1>7 DEF DetachAndBroadcast
  <2>2. Conservation'
    BY <2>1, ConservationFrame
  <2>3. Backpressure'
    BY <1>1, <1>3, <2>1 DEF Backpressure
  <2>4. MessagesHeld'
    BY <1>2, <2>1 DEF MessagesHeld
  <2> QED
    BY <1>4, <1>5, <2>2, <2>3, <2>4 DEF NoLostWakeup
<1>8. CASE receivers' = 0
  <2>1. /\ messages' = [messages EXCEPT ![t] = Range(queue)] /\ queue' = <<>> /\ count' = 0
        /\ fate' = [x \in Messages |-> IF x \in Range(queue) THEN "detached" ELSE fate[x]]
        /\ messages \in [Threads -> SUBSET Messages]
    BY <1>8 DEF DetachAndBroadcast, IInv, TypeOK
  <2>2. Range(queue) \subseteq Messages
    BY RangeOfSeq DEF IInv, TypeOK
  <2>3. \A x \in Messages : fate[x] = "queued" <=> x \in Range(queue)
    BY DEF Conservation
  <2>4. /\ Len(queue') = 0 /\ Range(queue') = {}
    BY <2>1, EmptySeq DEF Range
  <2>5. \A x \in Messages : fate'[x] = "detached" <=> \E u \in Threads : x \in messages'[u]
    <3>1. \A x \in Messages : fate[x] = "detached" <=> \E u \in Threads \ {t} : x \in messages[u]
      BY <1>6 DEF Conservation
    <3>2. /\ \A u \in Threads \ {t} : messages'[u] = messages[u]
          /\ messages'[t] = Range(queue)
      BY <2>1
    <3> QED
      BY <2>1, <3>1, <3>2
  <2>6. \A u, v \in Threads : u # v => messages'[u] \cap messages'[v] = {}
    <3>1. \A u \in Threads : messages[u] \cap Range(queue) = {}
      BY <2>2, <2>3 DEF Conservation
    <3> QED
      BY <2>1, <3>1 DEF Conservation
  <2>7. Conservation'
    <3>1. \A x \in Messages : fate'[x] = "queued" <=> x \in Range(queue')
      BY <2>1, <2>3, <2>4
    <3>2. 1..Len(queue') = {}
      BY <2>4
    <3> QED
      BY <2>1, <2>4, <2>5, <2>6, <3>1, <3>2 DEF Conservation
  <2>8. Backpressure'
    BY <1>1, <2>1 DEF Backpressure, IInv, TypeOK
  <2>9. Receiving = {}
    <3>1. IsFiniteSet(live' \cap ReceiverIds) /\ Cardinality(live' \cap ReceiverIds) = 0
      BY <1>8, ChannelAssumption, FS_Subset DEF IInv, EndpointsCounted
    <3>2. live' \cap ReceiverIds = {}
      BY <3>1, FS_EmptySet
    <3> QED
      BY <1>3, <3>2 DEF IInv, CallsBorrow, Receiving
  <2>10. \A u \in Threads : pc[u] = "handoff" => Range(queue) = {}
    <3>1. ASSUME NEW u \in Threads, pc[u] = "handoff" PROVE count = 0
      BY <2>9, <3>1 DEF SleepersWait, Backpressure
    <3>2. count = Len(queue) /\ (Len(queue) = 0 => queue = <<>>)
      BY EmptySeq DEF IInv, TypeOK, Conservation
    <3> QED
      BY <3>1, <3>2, EmptySeq DEF Range
  <2>11. MessagesHeld'
    <3>1. \A u \in Threads : pc'[u] \in {"sending", "handoff"} =>
              u # t /\ pc'[u] = pc[u] /\ arg'[u] = arg[u] /\ arg[u] \in Messages
      BY <1>2 DEF IInv, CallsBorrow
    <3>2. \A u \in Threads : pc'[u] = "sending" => fate'[arg'[u]] = "argument"
      BY <2>1, <2>3, <3>1 DEF MessagesHeld
    <3>3. \A u \in Threads : pc'[u] = "handoff" => fate'[arg'[u]] \in {"queued", "received"}
      BY <2>1, <2>10, <3>1 DEF MessagesHeld
    <3>4. \A u \in Threads : messages'[u] # {} => pc'[u] = "dropping"
      BY <1>2, <2>1 DEF MessagesHeld
    <3> QED
      BY <3>1, <3>2, <3>3, <3>4 DEF MessagesHeld
  <2> QED
    BY <1>4, <1>5, <2>7, <2>8, <2>11 DEF NoLostWakeup
<1> QED
  BY <1>7, <1>8

\* The tail of a drop: its messages are dropped, each once.
LEMMA ReleaseDelivers ==
    ASSUME IInv, DeliveryInv, NEW t \in Threads, DropRelease(t)
    PROVE  DeliveryInv'
<1> USE DEF DeliveryInv
<1>1. /\ pc[t] = "dropping" /\ UNCHANGED <<chanVars, condVars>>
      /\ fate' = [x \in Messages |-> IF x \in messages[t] THEN "dropped" ELSE fate[x]]
      /\ messages' = [messages EXCEPT ![t] = {}] /\ messages \in [Threads -> SUBSET Messages]
  BY DEF DropRelease, IInv, TypeOK
<1>2. /\ \A u \in Threads \ {t} : pc'[u] = pc[u] /\ arg'[u] = arg[u]
      /\ pc'[t] = "idle"
  BY DEF DropRelease, Return, Enter, IInv, TypeOK
<1>3. Receiving' = Receiving
  BY <1>1, <1>2 DEF Receiving
<1>4. Conservation'
  <2>1. \A x \in messages[t] : x \in Messages /\ fate[x] = "detached"
    BY <1>1 DEF Conservation
  <2>2. \A x \in Messages : fate'[x] = "queued" <=> fate[x] = "queued"
    BY <1>1, <2>1
  <2>3. /\ \A u \in Threads \ {t} : messages'[u] = messages[u]
        /\ messages'[t] = {}
    BY <1>1
  <2>4. \A x \in Messages : fate'[x] = "detached" <=> \E u \in Threads : x \in messages'[u]
    BY <1>1, <2>3 DEF Conservation
  <2>5. \A u, v \in Threads : u # v => messages'[u] \cap messages'[v] = {}
    BY <2>3 DEF Conservation
  <2> QED
    BY <1>1, <2>2, <2>4, <2>5 DEF Conservation, chanVars
<1>5. Backpressure' /\ NoLostReadable'
  BY <1>1, <1>3 DEF Backpressure, NoLostWakeup, NoLostReadable, chanVars, condVars
<1>6. \A u \in writable : u \in Threads /\ u # t
  BY <1>1 DEF SleepersWait, IInv, TypeOK
<1>7. NoLostWritable' /\ SleepersWait'
  BY <1>1, <1>2, <1>3, <1>6
     DEF NoLostWakeup, NoLostWritable, Full, SleepersWait, chanVars, condVars
<1>8. MessagesHeld'
  <2>1. \A u \in Threads : pc'[u] \in {"sending", "handoff"} =>
            u # t /\ pc'[u] = pc[u] /\ arg'[u] = arg[u] /\ arg[u] \in Messages
    BY <1>2 DEF IInv, CallsBorrow
  <2>2. \A u \in Threads : pc'[u] \in {"sending", "handoff"} => fate'[arg'[u]] = fate[arg[u]]
    BY <1>1, <2>1 DEF MessagesHeld, Conservation
  <2>3. \A u \in Threads : messages'[u] # {} => pc'[u] = "dropping"
    BY <1>1, <1>2 DEF MessagesHeld
  <2> QED
    BY <2>1, <2>2, <2>3 DEF MessagesHeld
<1> QED
  BY <1>4, <1>5, <1>7, <1>8 DEF NoLostWakeup

-----------------------------------------------------------------------------
(* Every step *)

LEMMA InitDelivery == Init => DeliveryInv
<1> SUFFICES ASSUME Init PROVE DeliveryInv
  OBVIOUS
<1>1. Len(queue) = 0 /\ 1..Len(queue) = {} /\ Range(queue) = {}
  BY EmptySeq DEF Init, Range
<1>2. Conservation
  BY <1>1 DEF Init, Conservation
<1>3. Backpressure /\ SleepersWait
  <2>1. capacity \in Nat /\ (unbounded => capacity # 0)
    BY ChannelAssumption DEF Init
  <2> QED
    BY <2>1 DEF Init, Backpressure, SleepersWait
<1>4. NoLostWakeup /\ MessagesHeld
  BY DEF Init, NoLostWakeup, NoLostReadable, NoLostWritable, MessagesHeld
<1> QED
  BY <1>2, <1>3, <1>4 DEF DeliveryInv

LEMMA NextDelivery == IInv /\ IInv' /\ DeliveryInv /\ [Next]_vars => DeliveryInv'
<1> SUFFICES ASSUME IInv, IInv', DeliveryInv, [Next]_vars PROVE DeliveryInv'
  OBVIOUS
<1>1. ASSUME NEW t \in Threads, NEW e \in Endpoints, NEW m \in Messages,
             SendCall(t, e, m) \/ TrySend(t, e, m)
      PROVE  DeliveryInv'
  <2>1. pc[t] = "idle" /\ fate[m] = "owned" /\ UNCHANGED messages
    BY <1>1 DEF SendCall, TrySend, MayCall, dropVars
  <2>2. CASE Refuse(t, m, "closed") \/ Refuse(t, m, "full")
    BY <2>1, <2>2, RefuseDelivers
  <2>3. CASE /\ ~Closed /\ Full /\ Enter(t, "sending", e, m)
             /\ fate' = [fate EXCEPT ![m] = "argument"]
             /\ writable' = writable \cup {t} /\ UNCHANGED <<chanVars, readable>>
    BY <2>1, <2>3, SendSleepDelivers
  <2>4. CASE ~Closed /\ ~Full /\ SendPush(t, e, m)
    BY <2>1, <2>4, PushDelivers DEF SendPush
  <2>5. CASE ~Closed /\ ~Full /\ Push(m) /\ UNCHANGED <<callVars, writable>>
    BY <2>1, <2>5, PushDelivers
  <2> QED
    BY <1>1, <2>2, <2>3, <2>4, <2>5 DEF SendCall, TrySend
<1>2. ASSUME NEW t \in Threads, NEW e \in Endpoints, ReceiveCall(t, e) \/ TryReceive(t, e)
      PROVE  DeliveryInv'
  <2>1. pc[t] = "idle" /\ UNCHANGED messages
    BY <1>2 DEF ReceiveCall, TryReceive, MayCall, dropVars
  <2>2. CASE writable' \in {writable, {}} /\ UNCHANGED <<chanVars, readable, callVars, fate>>
    BY <2>1, <2>2, WakingDelivers DEF chanVars
  <2>3. CASE /\ NothingToReceive /\ writable' = {} /\ readable' = readable \cup {t}
             /\ Enter(t, "receiving", e, None)
             /\ UNCHANGED <<capacity, unbounded, count, queue, sender_closed,
                            receiver_closed, fate>>
    BY <2>1, <2>3, ReceiveSleepDelivers
  <2>4. CASE count # 0 /\ Pop(waiting_receivers) /\ UNCHANGED <<readable, callVars>>
    BY <2>1, <2>4, PopDelivers
  <2> QED
    BY <1>2, <2>2, <2>3, <2>4 DEF ReceiveCall, TryReceive, condVars
<1>3. ASSUME NEW t \in Threads, NEW e \in Endpoints, NEW f \in Endpoints,
             CloneSender(t, e, f) \/ CloneReceiver(t, e, f)
      PROVE  DeliveryInv'
  BY <1>3, WakingDelivers DEF CloneSender, CloneReceiver, condVars, callVars, dropVars
<1>4. ASSUME NEW t \in Threads, NEW e \in Endpoints, DropSender(t, e) \/ DropReceiver(t, e)
      PROVE  DeliveryInv'
  BY <1>4, DetachDelivers DEF DropSender, DropReceiver, MayDrop, MayCall
<1>5. ASSUME NEW t \in Threads, SendResume(t) PROVE DeliveryInv'
  <2>1. pc[t] = "sending" /\ t \notin writable /\ UNCHANGED messages /\ arg[t] \in Messages
    BY <1>5 DEF SendResume, dropVars, IInv, CallsBorrow
  <2>2. CASE Refuse(t, arg[t], "closed")
    BY <2>1, <2>2, RefuseDelivers
  <2>3. CASE /\ ~Closed /\ Full /\ writable' = writable \cup {t}
             /\ UNCHANGED <<chanVars, readable, callVars, fate>>
    BY <2>1, <2>3, SendAgainDelivers
  <2>4. CASE ~Closed /\ ~Full /\ SendPush(t, via[t], arg[t])
    BY <2>1, <2>4, PushDelivers DEF SendPush
  <2> QED
    BY <1>5, <2>2, <2>3, <2>4 DEF SendResume
<1>6. ASSUME NEW t \in Threads, SendHandoff(t) PROVE DeliveryInv'
  <2>1. /\ pc[t] = "handoff" /\ t \notin writable
        /\ UNCHANGED <<chanVars, readable, messages, fate>>
    BY <1>6 DEF SendHandoff, dropVars
  <2>2. CASE count # 0 /\ ~receiver_closed
    BY <1>6, <2>1, <2>2, SendAgainDelivers DEF SendHandoff
  <2>3. CASE ~(count # 0 /\ ~receiver_closed)
    BY <1>6, <2>1, <2>3, HandoffReturnDelivers DEF SendHandoff, condVars
  <2> QED
    BY <2>2, <2>3
<1>7. ASSUME NEW t \in Threads, ReceiveResume(t) PROVE DeliveryInv'
  <2>1. pc[t] = "receiving" /\ t \notin readable /\ UNCHANGED messages
    BY <1>7 DEF ReceiveResume, dropVars
  <2>2. CASE /\ NothingToReceive /\ readable' = readable \cup {t}
             /\ UNCHANGED <<chanVars, writable, callVars, fate>>
    BY <2>1, <2>2, ReceiveSleepDelivers DEF chanVars
  <2>3. CASE /\ ~NothingToReceive /\ count = 0
             /\ waiting_receivers' = waiting_receivers - 1 /\ Return(t)
             /\ UNCHANGED <<capacity, unbounded, count, queue, sender_closed,
                            receiver_closed, condVars, fate>>
    BY <2>1, <2>3, ReceiveReturnDelivers
  <2>4. CASE count # 0 /\ Pop(waiting_receivers - 1) /\ Return(t) /\ UNCHANGED readable
    BY <2>1, <2>4, PopDelivers
  <2> QED
    BY <1>7, <2>2, <2>3, <2>4 DEF ReceiveResume
<1>8. ASSUME NEW t \in Threads, SpuriousWake(t) PROVE DeliveryInv'
  BY <1>8, WakingDelivers DEF SpuriousWake, chanVars, dropVars
<1>9. CASE UNCHANGED vars
  BY <1>9, WakingDelivers DEF vars, chanVars, condVars, dropVars
<1> QED
  BY <1>1, <1>2, <1>3, <1>4, <1>5, <1>6, <1>7, <1>8, <1>9, ReleaseDelivers DEF Next, Call, Resume

LEMMA SpecDelivery == Spec => [](IInv /\ DeliveryInv)
<1>1. Init => IInv /\ DeliveryInv
  BY InitIInv, InitDelivery
<1>2. IInv /\ DeliveryInv /\ [Next]_vars => IInv' /\ DeliveryInv'
  BY NextIInv, NextDelivery
<1> QED
  BY <1>1, <1>2, PTL DEF Spec

-----------------------------------------------------------------------------
(* First in, first out *)

\* A pushed message comes after every one that was pushed before it.
LEMMA PushOrders ==
    ASSUME IInv, MessagesHeld, OrderInv, History, NEW t \in Threads, NEW m \in Messages,
           \/ pc[t] = "idle" /\ fate[m] = "owned"
           \/ pc[t] = "sending" /\ m = arg[t],
           ~Closed, Push(m)
    PROVE  OrderInv'
<1>1. /\ queue \in Seq(Messages) /\ sent \in Seq(Messages) /\ taken \in Seq(Messages)
      /\ fate \in [Messages -> Fates] /\ fate' = [fate EXCEPT ![m] = "queued"]
      /\ queue' = Append(queue, m) /\ receivers' = receivers /\ receivers # 0
  BY DEF IInv, TypeOK, OrderInv, Push, Closed, EndpointsCounted
<1>2. sent' = Append(sent, m) /\ taken' = taken
  <2>1. fate[m] \in {"owned", "argument"}
    BY DEF MessagesHeld
  <2> QED
    BY <1>1, <2>1 DEF History, Logged
<1>3. /\ Len(queue) \in Nat /\ Len(sent) \in Nat /\ Len(taken) \in Nat
      /\ queue' \in Seq(Messages) /\ Len(queue') = Len(queue) + 1
      /\ queue'[Len(queue) + 1] = m /\ \A i \in 1..Len(queue) : queue'[i] = queue[i]
      /\ sent' \in Seq(Messages) /\ Len(sent') = Len(sent) + 1
      /\ sent'[Len(sent) + 1] = m /\ \A i \in 1..Len(sent) : sent'[i] = sent[i]
  BY <1>1, <1>2, AppendProperties, LenProperties
<1>4. Len(taken) + Len(queue) = Len(sent)
  BY <1>1 DEF OrderInv, Ordered
<1>5. ASSUME NEW i \in 1..Len(queue') PROVE queue'[i] = sent'[Len(taken) + i]
  <2>1. CASE i = Len(queue) + 1
    BY <1>3, <1>4, <2>1
  <2>2. CASE i \in 1..Len(queue)
    <3>1. Len(taken) + i \in 1..Len(sent) /\ queue[i] = sent[Len(taken) + i]
      BY <1>3, <1>4, <2>2 DEF OrderInv, Ordered
    <3> QED
      BY <1>3, <2>2, <3>1
  <2> QED
    BY <1>3, <2>1, <2>2
<1>6. ASSUME NEW i \in 1..Len(taken) PROVE taken[i] = sent'[i]
  <2>1. i \in 1..Len(sent) /\ taken[i] = sent[i]
    BY <1>3, <1>4 DEF OrderInv, Ordered
  <2> QED
    BY <1>3, <2>1
<1>7. /\ Len(taken') + Len(queue') = Len(sent')
      /\ \A i \in 1..Len(taken') : taken'[i] = sent'[i]
      /\ \A i \in 1..Len(queue') : queue'[i] = sent'[Len(taken') + i]
  BY <1>2, <1>3, <1>4, <1>5, <1>6
<1>8. Ordered'
  BY <1>2, <1>3, <1>7 DEF Ordered
<1> QED
  BY <1>1, <1>2, <1>3, <1>8 DEF OrderInv

\* The message moved out is the one that was pushed next after those that were
\* moved out before.
LEMMA PopOrders ==
    ASSUME IInv, Conservation, OrderInv, History, count # 0, NEW wr, Pop(wr)
    PROVE  OrderInv'
<1>1. /\ queue \in Seq(Messages) /\ sent \in Seq(Messages) /\ taken \in Seq(Messages)
      /\ fate \in [Messages -> Fates] /\ fate' = [fate EXCEPT ![Head(queue)] = "received"]
      /\ queue' = Tail(queue) /\ receivers' = receivers
  BY DEF IInv, TypeOK, OrderInv, Pop
<1>2. queue # <<>>
  BY <1>1, EmptySeq DEF Conservation
<1>3. /\ Len(queue) \in Nat \ {0} /\ Len(sent) \in Nat /\ Len(taken) \in Nat
      /\ queue' \in Seq(Messages) /\ Len(queue') = Len(queue) - 1
      /\ Head(queue) \in Messages /\ Head(queue) = queue[1]
      /\ \A i \in 1..Len(queue') : queue'[i] = queue[i + 1]
  BY <1>1, <1>2, HeadTailProperties, LenProperties, EmptySeq
<1>4. sent' = sent /\ taken' = Append(taken, Head(queue))
  <2>1. fate[Head(queue)] = "queued"
    <3>1. Head(queue) \in Range(queue)
      BY <1>1, <1>2, <1>3, TailDistinct DEF Conservation, Distinct
    <3> QED
      BY <1>3, <3>1 DEF Conservation
  <2> QED
    BY <1>1, <1>3, <2>1 DEF History, Logged
<1>5. /\ taken' \in Seq(Messages) /\ Len(taken') = Len(taken) + 1
      /\ taken'[Len(taken) + 1] = queue[1] /\ \A i \in 1..Len(taken) : taken'[i] = taken[i]
  BY <1>1, <1>3, <1>4, AppendProperties, LenProperties
<1>6. /\ Len(taken) + Len(queue) <= Len(sent)
      /\ receivers # 0 => Len(taken) + Len(queue) = Len(sent)
      /\ \A i \in 1..Len(taken) : taken[i] = sent[i]
      /\ \A i \in 1..Len(queue) : queue[i] = sent[Len(taken) + i]
  BY DEF OrderInv, Ordered
<1>7. ASSUME NEW i \in 1..Len(taken') PROVE taken'[i] = sent[i]
  <2>1. CASE i = Len(taken) + 1
    BY <1>3, <1>5, <1>6, <2>1
  <2>2. CASE i \in 1..Len(taken)
    BY <1>5, <1>6, <2>2
  <2> QED
    BY <1>3, <1>5, <2>1, <2>2
<1>8. ASSUME NEW i \in 1..Len(queue') PROVE queue'[i] = sent[Len(taken') + i]
  <2>1. i + 1 \in 1..Len(queue) /\ Len(taken) + (i + 1) = Len(taken') + i
    BY <1>3, <1>5
  <2> QED
    BY <1>3, <1>6, <2>1
<1>9. Ordered'
  BY <1>1, <1>3, <1>4, <1>5, <1>6, <1>7, <1>8 DEF Ordered
<1> QED
  BY <1>1, <1>4, <1>5, <1>9 DEF OrderInv

\* A step that neither pushes nor moves out, and loses the queue only with the
\* last receiver.
LEMMA StillOrders ==
    ASSUME IInv, OrderInv, History,
           \A x \in Messages : fate'[x] \in {"queued", "received"} => fate'[x] = fate[x],
           receivers' # 0 => receivers # 0,
           queue' = queue \/ (queue' = <<>> /\ receivers' = 0)
    PROVE  OrderInv'
<1>1. sent' = sent /\ taken' = taken
  BY DEF History, Logged
<1>2. Len(queue) \in Nat /\ Len(sent) \in Nat /\ Len(taken) \in Nat
  BY LenProperties DEF IInv, TypeOK, OrderInv
<1>3. CASE queue' = queue
  BY <1>1, <1>3 DEF OrderInv, Ordered
<1>4. CASE queue' = <<>> /\ receivers' = 0
  <2>1. Len(queue') = 0
    BY <1>4, EmptySeq
  <2>2. Ordered'
    BY <1>1, <1>2, <1>4, <2>1 DEF OrderInv, Ordered
  <2> QED
    BY <1>1, <2>2 DEF OrderInv
<1> QED
  BY <1>3, <1>4

\* Every step keeps the order.
LEMMA NextOrder == IInv /\ DeliveryInv /\ OrderInv /\ [Next]_vars => OrderInv'
<1> SUFFICES ASSUME IInv, DeliveryInv, OrderInv, Next PROVE OrderInv'
  BY DEF OrderInv, Ordered, vars, chanVars
<1>1. History /\ Conservation /\ MessagesHeld
  BY DEF Next, DeliveryInv
<1>2. CASE UNCHANGED <<queue, receivers, fate>>
  BY <1>1, <1>2, StillOrders
<1>3. ASSUME NEW t \in Threads, NEW m \in Messages, NEW why \in {"closed", "full"},
             Refuse(t, m, why)
      PROVE  OrderInv'
  <2>1. \A x \in Messages : fate'[x] \in {"queued", "received"} => fate'[x] = fate[x]
    BY <1>3 DEF Refuse, IInv, TypeOK
  <2> QED
    BY <1>1, <1>3, <2>1, StillOrders DEF Refuse, chanVars
<1>4. ASSUME NEW t \in Threads, NEW e \in Endpoints, NEW m \in Messages,
             SendCall(t, e, m) \/ TrySend(t, e, m)
      PROVE  OrderInv'
  <2>1. pc[t] = "idle" /\ fate[m] = "owned"
    BY <1>4 DEF SendCall, TrySend, MayCall
  <2>2. CASE ~Closed /\ Push(m)
    BY <1>1, <2>1, <2>2, PushOrders
  <2>3. CASE fate' = [fate EXCEPT ![m] = "argument"] /\ UNCHANGED chanVars
    <3>1. \A x \in Messages : fate'[x] \in {"queued", "received"} => fate'[x] = fate[x]
      BY <2>3 DEF IInv, TypeOK
    <3> QED
      BY <1>1, <2>3, <3>1, StillOrders DEF chanVars
  <2> QED
    BY <1>3, <1>4, <2>2, <2>3 DEF SendCall, TrySend, SendPush
<1>5. ASSUME NEW t \in Threads, SendResume(t) PROVE OrderInv'
  <2>1. pc[t] = "sending" /\ arg[t] \in Messages
    BY <1>5 DEF SendResume, IInv, CallsBorrow
  <2>2. CASE ~Closed /\ Push(arg[t])
    BY <1>1, <2>1, <2>2, PushOrders
  <2> QED
    BY <1>2, <1>3, <1>5, <2>1, <2>2 DEF SendResume, SendPush, chanVars
<1>6. ASSUME NEW t \in Threads, NEW e \in Endpoints,
             ReceiveCall(t, e) \/ TryReceive(t, e)
      PROVE  OrderInv'
  <2>1. CASE count # 0 /\ Pop(waiting_receivers)
    BY <1>1, <2>1, PopOrders
  <2> QED
    BY <1>2, <1>6, <2>1 DEF ReceiveCall, TryReceive, chanVars
<1>7. ASSUME NEW t \in Threads, NEW e \in Endpoints, NEW f \in Endpoints,
             CloneSender(t, e, f) \/ CloneReceiver(t, e, f)
      PROVE  OrderInv'
  <2>1. UNCHANGED <<queue, fate>> /\ (receivers' = receivers \/ e \in live \cap ReceiverIds)
    BY <1>7 DEF CloneSender, CloneReceiver, MayCall
  <2>2. receivers' # 0 => receivers # 0
    BY <2>1, CountersExact
  <2> QED
    BY <1>1, <2>1, <2>2, StillOrders
<1>8. ASSUME NEW t \in Threads, NEW e \in Endpoints, DropSender(t, e) \/ DropReceiver(t, e)
      PROVE  OrderInv'
  <2>1. receivers' # 0 => receivers # 0
    BY <1>8 DEF DropSender, DropReceiver
  <2>2. /\ \A x \in Messages : fate'[x] \in {"queued", "received"} => fate'[x] = fate[x]
        /\ queue' = queue \/ (queue' = <<>> /\ receivers' = 0)
    BY <1>8 DEF DropSender, DropReceiver, DetachAndBroadcast
  <2> QED
    BY <1>1, <2>1, <2>2, StillOrders
<1>9. ASSUME NEW t \in Threads, DropRelease(t) PROVE OrderInv'
  <2>1. \A x \in Messages : fate'[x] \in {"queued", "received"} => fate'[x] = fate[x]
    BY <1>9 DEF DropRelease
  <2> QED
    BY <1>1, <1>9, <2>1, StillOrders DEF DropRelease, chanVars
<1>10. ASSUME NEW t \in Threads, SendHandoff(t) \/ SpuriousWake(t) PROVE OrderInv'
  BY <1>2, <1>10 DEF SendHandoff, SpuriousWake, chanVars
<1>11. ASSUME NEW t \in Threads, ReceiveResume(t) PROVE OrderInv'
  <2>1. CASE count # 0 /\ Pop(waiting_receivers - 1)
    BY <1>1, <2>1, PopOrders
  <2> QED
    BY <1>2, <1>11, <2>1 DEF ReceiveResume, chanVars
<1>12. ASSUME NEW t \in Threads, Call(t) PROVE OrderInv'
  BY <1>4, <1>6, <1>7, <1>8, <1>12 DEF Call
<1> QED
  BY <1>5, <1>9, <1>10, <1>11, <1>12 DEF Next, Resume

LEMMA SpecOrder == Spec => [](IInv /\ DeliveryInv /\ OrderInv)
<1>1. Init => IInv /\ DeliveryInv /\ OrderInv
  <2>1. <<>> \in Seq(Messages) /\ Len(<<>>) = 0
    BY EmptySeq
  <2>2. Init => OrderInv
    BY <2>1 DEF Init, OrderInv, Ordered
  <2> QED
    BY <2>2, InitIInv, InitDelivery
<1>2. IInv /\ DeliveryInv /\ OrderInv /\ [Next]_vars => IInv' /\ DeliveryInv' /\ OrderInv'
  BY NextIInv, NextDelivery, NextOrder
<1> QED
  BY <1>1, <1>2, PTL DEF Spec

-----------------------------------------------------------------------------
(* Theorems *)

\* No message is lost, duplicated, reordered or given to two threads: those
\* moved out are the first that were pushed, in that order, and the queue holds
\* the next ones, never more than the channel's kind allows.
THEOREM ChannelQueueSound == Spec => []QueueSound
<1>1. DeliveryInv /\ OrderInv => QueueSound
  BY DEF DeliveryInv, OrderInv, QueueSound
<1> QED
  BY <1>1, SpecOrder, PTL

\* Although send only signals readable, no receiver sleeps beside a message it
\* could take, and no sender sleeps beside room or beside a closed channel.
THEOREM ChannelNoLostWakeup == Spec => []NoLostWakeup
<1>1. DeliveryInv => NoLostWakeup
  BY DEF DeliveryInv
<1> QED
  BY <1>1, SpecDelivery, PTL

\* A rendezvous send returns only after a receiver has taken its own message:
\* an empty queue is one without this message, and a channel without receivers
\* has an empty queue.
THEOREM ChannelHandoffDelivers == Spec => HandoffDelivers
<1> DEFINE Delivers == \A t \in Threads :
                          pc[t] = "handoff" /\ pc'[t] = "idle" => fate[arg[t]] = "received"
<1>1. ASSUME IInv, DeliveryInv, [Next]_vars PROVE [Delivers]_vars
  <2> SUFFICES ASSUME NEW t \in Threads, Next, pc[t] = "handoff", pc'[t] = "idle"
               PROVE  fate[arg[t]] = "received"
    BY <1>1
  <2>1. PICK u \in Threads : Call(u) \/ Resume(u) \/ SpuriousWake(u)
    BY DEF Next
  <2>2. pc \in [Threads -> {"idle", "sending", "handoff", "receiving", "dropping"}]
    BY <1>1 DEF IInv, TypeOK
  <2>3. SendHandoff(t)
    BY <2>1, <2>2
       DEF Call, Resume, SpuriousWake, SendCall, TrySend, ReceiveCall, TryReceive, CloneSender,
           CloneReceiver, DropSender, DropReceiver, MayDrop, MayCall, DetachAndBroadcast,
           SendResume, SendHandoff, ReceiveResume, DropRelease, Refuse, SendPush, Return, Enter,
           callVars
  <2>4. count = 0 \/ receiver_closed
    BY <2>3 DEF SendHandoff, callVars
  <2>5. queue = <<>>
    <3>1. Len(queue) = 0 => queue = <<>>
      BY <1>1, EmptySeq DEF IInv, TypeOK
    <3> QED
      BY <1>1, <2>4, <3>1 DEF IInv, QueueCounted, EndpointsCounted
  <2>6. arg[t] \in Messages /\ Range(queue) = {}
    BY <1>1, <2>5, EmptySeq DEF IInv, CallsBorrow, Range
  <2>7. fate[arg[t]] # "queued"
    BY <1>1, <2>6 DEF DeliveryInv, Conservation
  <2> QED
    BY <1>1, <2>7 DEF DeliveryInv, MessagesHeld
<1> QED
  BY <1>1, SpecDelivery, PTL DEF Spec, HandoffDelivers
=============================================================================
