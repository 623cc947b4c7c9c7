------------------------------ MODULE Channel ------------------------------
(***************************************************************************)
(* One channel of the emitted C runtime, as generated for the owned value  *)
(* model by emit_channel_type_helpers, and the clone and drop helpers of   *)
(* its endpoints (src/backend/runtime.rs).                                 *)
(*                                                                         *)
(* Endpoints are Sync when their element is Send, so any thread may run an *)
(* operation through any live endpoint; the borrow it holds (via) keeps    *)
(* that endpoint from being dropped until the operation returns.  Every    *)
(* access to the channel happens under its mutex, so one action is one     *)
(* critical section: from pthread_mutex_lock, or from the return of        *)
(* pthread_cond_wait, to the next pthread_cond_wait or unlock.  What a     *)
(* helper does after the unlock (the tail of a drop) is an action of its   *)
(* own.                                                                    *)
(***************************************************************************)
EXTENDS Naturals, Sequences, FiniteSets, Functions

CONSTANTS Threads,          \* native threads
          SenderIds,        \* identities a Sender endpoint may have
          ReceiverIds,      \* identities a Receiver endpoint may have
          Messages,         \* values of the element type, each sent at most once
          Capacities,       \* capacities the bounded constructor is called with
          CountMax,         \* UINTPTR_MAX
          None              \* no endpoint, no message

Endpoints == SenderIds \cup ReceiverIds

ASSUME ChannelAssumption ==
    /\ IsFiniteSet(SenderIds) /\ IsFiniteSet(ReceiverIds) /\ IsFiniteSet(Threads)
    /\ SenderIds \cap ReceiverIds = {}
    /\ None \notin Endpoints \cup Messages
    /\ Capacities \subseteq Nat
    /\ CountMax \in Nat \ {0}

VARIABLES
    \* struct el_channel_tN_data
    capacity, unbounded, count, queue, waiting_receivers,
    sender_closed, receiver_closed, senders, receivers,
    \* the threads blocked in pthread_cond_wait on each condition variable
    readable, writable,
    \* whether the channel's block has been handed to free()
    freed,
    \* the endpoint values the program holds
    live,
    \* per thread: where it is, the endpoint it borrows, the value it sends
    pc, via, arg,
    \* per thread: the messages and the duty to destroy a drop left it with
    messages, destroy,
    \* what became of each message
    fate,
    \* the messages in the order they were pushed, and in the order they were
    \* moved out
    sent, taken

chanVars == <<capacity, unbounded, count, queue, waiting_receivers,
              sender_closed, receiver_closed, senders, receivers>>
condVars == <<readable, writable>>
callVars == <<pc, via, arg>>
dropVars == <<messages, destroy, freed>>
programVars == <<chanVars, condVars, callVars, dropVars, live, fate>>
vars == <<chanVars, condVars, callVars, dropVars, live, fate, sent, taken>>

(***************************************************************************)
(* A message's fate: the program's, the argument of a blocked send, in the *)
(* queue, moved out to a receiver, detached for a drop, dropped, or the    *)
(* argument of a send that failed because the channel was closed or full.  *)
(***************************************************************************)
Fates == {"owned", "argument", "queued", "received", "detached", "dropped",
          "closed", "full"}

TypeOK ==
    /\ capacity \in Nat /\ unbounded \in BOOLEAN
    /\ count \in Nat /\ queue \in Seq(Messages)
    /\ waiting_receivers \in Nat
    /\ sender_closed \in BOOLEAN /\ receiver_closed \in BOOLEAN
    /\ senders \in Nat /\ receivers \in Nat
    /\ readable \subseteq Threads /\ writable \subseteq Threads
    /\ freed \in BOOLEAN
    /\ live \subseteq Endpoints
    /\ pc \in [Threads -> {"idle", "sending", "handoff", "receiving", "dropping"}]
    /\ via \in [Threads -> Endpoints \cup {None}]
    /\ arg \in [Threads -> Messages \cup {None}]
    /\ messages \in [Threads -> SUBSET Messages]
    /\ destroy \in [Threads -> BOOLEAN]
    /\ fate \in [Messages -> Fates]

(***************************************************************************)
(* ChannelCreate: the block is initialised and both endpoints returned.    *)
(***************************************************************************)
Init ==
    /\ \/ unbounded = FALSE /\ capacity \in Capacities
       \/ unbounded = TRUE /\ capacity = CountMax
    /\ count = 0 /\ queue = <<>> /\ waiting_receivers = 0
    /\ sender_closed = FALSE /\ receiver_closed = FALSE
    /\ senders = 1 /\ receivers = 1
    /\ readable = {} /\ writable = {} /\ freed = FALSE
    /\ \E s \in SenderIds, r \in ReceiverIds : live = {s, r}
    /\ pc = [t \in Threads |-> "idle"]
    /\ via = [t \in Threads |-> None]
    /\ arg = [t \in Threads |-> None]
    /\ messages = [t \in Threads |-> {}]
    /\ destroy = [t \in Threads |-> FALSE]
    /\ fate = [m \in Messages |-> "owned"]
    /\ sent = <<>> /\ taken = <<>>

-----------------------------------------------------------------------------
(* Helpers *)

\* Faulty variants of Full: an off-by-one at the limit, and a capacity of zero
\* treated as room for one message.
Full_OffByOne ==
    /\ ~unbounded
    /\ \/ capacity = 0 /\ (waiting_receivers = 0 \/ count # 0)
       \/ capacity # 0 /\ count > capacity
Full_NoRendezvous ==
    ~unbounded /\ (IF capacity = 0 THEN count # 0 ELSE count >= capacity)

\* The condition under which try_send answers Full and send waits.
Full ==
    /\ ~unbounded
    /\ \/ capacity = 0 /\ (waiting_receivers = 0 \/ count # 0)
       \/ capacity # 0 /\ count >= capacity

Closed == sender_closed \/ receiver_closed

\* pthread_cond_signal wakes one of the blocked threads, if there is one.
Signal(waiters, remaining) ==
    \/ waiters = {} /\ remaining = {}
    \/ \E w \in waiters : remaining = waiters \ {w}

\* t starts or continues an operation through e.
Enter(t, where, e, m) ==
    /\ pc' = [pc EXCEPT ![t] = where]
    /\ via' = [via EXCEPT ![t] = e]
    /\ arg' = [arg EXCEPT ![t] = m]

\* t's operation returns.
Return(t) == Enter(t, "idle", None, None)

\* The operation t may start now: it is between calls, and e is an endpoint
\* value the program still holds.
MayCall(t, e) == pc[t] = "idle" /\ e \in live

\* Faulty variant of Push: signal only when the queue was empty.
Push_SignalsIfEmpty(m) ==
    /\ queue' = Append(queue, m)
    /\ count' = count + 1
    /\ fate' = [fate EXCEPT ![m] = "queued"]
    /\ IF count = 0 THEN Signal(readable, readable') ELSE UNCHANGED readable
    /\ UNCHANGED <<capacity, unbounded, waiting_receivers, sender_closed,
                   receiver_closed, senders, receivers>>

\* Faulty variant of Push: the node is linked at the head of the list.
Push_AtHead(m) ==
    /\ queue' = <<m>> \o queue
    /\ count' = count + 1
    /\ fate' = [fate EXCEPT ![m] = "queued"]
    /\ Signal(readable, readable')
    /\ UNCHANGED <<capacity, unbounded, waiting_receivers, sender_closed,
                   receiver_closed, senders, receivers>>

\* Append a node, ++count, signal(readable).
Push(m) ==
    /\ queue' = Append(queue, m)
    /\ count' = count + 1
    /\ fate' = [fate EXCEPT ![m] = "queued"]
    /\ Signal(readable, readable')
    /\ UNCHANGED <<capacity, unbounded, waiting_receivers, sender_closed,
                   receiver_closed, senders, receivers>>

\* Faulty variants of Pop: a second decrement of waiting_receivers, no
\* decrement of count, and no broadcast.
PopWith(wr, c, w) ==
    /\ queue' = Tail(queue)
    /\ count' = c
    /\ fate' = [fate EXCEPT ![Head(queue)] = "received"]
    /\ writable' = w
    /\ waiting_receivers' = wr
    /\ UNCHANGED <<capacity, unbounded, sender_closed, receiver_closed,
                   senders, receivers>>
Pop_DecrementsWaiting(wr) == PopWith(wr - 1, count - 1, {})
Pop_KeepsCount(wr) == PopWith(wr, count, {})
Pop_NoBroadcast(wr) == PopWith(wr, count - 1, writable)

\* Unlink the head, --count, broadcast(writable); wr is the new
\* waiting_receivers.
Pop(wr) ==
    /\ queue' = Tail(queue)
    /\ count' = count - 1
    /\ fate' = [fate EXCEPT ![Head(queue)] = "received"]
    /\ writable' = {}
    /\ waiting_receivers' = wr
    /\ UNCHANGED <<capacity, unbounded, sender_closed, receiver_closed,
                   senders, receivers>>

-----------------------------------------------------------------------------
(* ChannelSend, nonblocking or not *)

\* Err(Closed) or Err(Full): the error has no payload and the argument is
\* neither stored nor dropped.
Refuse(t, m, why) ==
    /\ fate' = [fate EXCEPT ![m] = why]
    /\ Return(t)
    /\ UNCHANGED <<chanVars, condVars>>

\* Blocking send past its closed and full tests: push, and on a channel of
\* capacity zero wait until the queue is empty.
SendPush(t, e, m) ==
    /\ Push(m)
    /\ IF capacity = 0 /\ count' # 0 /\ ~receiver_closed
       THEN Enter(t, "handoff", e, m) /\ writable' = writable \cup {t}
       ELSE Return(t) /\ writable' = writable

\* send: the part up to the first wait or return.
SendCall(t, e, m) ==
    /\ MayCall(t, e) /\ e \in SenderIds /\ fate[m] = "owned"
    /\ \/ Closed /\ Refuse(t, m, "closed")
       \/ /\ ~Closed /\ Full
          /\ Enter(t, "sending", e, m)
          /\ fate' = [fate EXCEPT ![m] = "argument"]
          /\ writable' = writable \cup {t}
          /\ UNCHANGED <<chanVars, readable>>
       \/ ~Closed /\ ~Full /\ SendPush(t, e, m)
    /\ UNCHANGED <<dropVars, live>>

\* send: woken from the wait for room.
SendResume(t) ==
    /\ pc[t] = "sending" /\ t \notin writable
    /\ \/ Closed /\ Refuse(t, arg[t], "closed")
       \/ /\ ~Closed /\ Full
          /\ writable' = writable \cup {t}
          /\ UNCHANGED <<chanVars, readable, callVars, fate>>
       \/ ~Closed /\ ~Full /\ SendPush(t, via[t], arg[t])
    /\ UNCHANGED <<dropVars, live>>

\* send on capacity zero: woken from the wait for the queue to empty.
SendHandoff(t) ==
    /\ pc[t] = "handoff" /\ t \notin writable
    /\ IF count # 0 /\ ~receiver_closed
       THEN writable' = writable \cup {t} /\ UNCHANGED callVars
       ELSE Return(t) /\ writable' = writable
    /\ UNCHANGED <<chanVars, readable, dropVars, live, fate>>

\* try_send: Closed, Full or Ok, never a wait.
TrySend(t, e, m) ==
    /\ MayCall(t, e) /\ e \in SenderIds /\ fate[m] = "owned"
    /\ \/ Closed /\ Refuse(t, m, "closed")
       \/ ~Closed /\ Full /\ Refuse(t, m, "full")
       \/ ~Closed /\ ~Full /\ Push(m) /\ UNCHANGED <<callVars, writable>>
    /\ UNCHANGED <<dropVars, live>>

-----------------------------------------------------------------------------
(* ChannelReceive, nonblocking or not *)

\* The wait condition of receive.
NothingToReceive == count = 0 /\ ~sender_closed /\ ~receiver_closed

\* receive: the part up to the first wait or return.  The broadcast it makes
\* on entry wakes every thread that waits on writable.
ReceiveCall(t, e) ==
    /\ MayCall(t, e) /\ e \in ReceiverIds
    /\ \/ receiver_closed /\ UNCHANGED <<chanVars, condVars, callVars, fate>>
       \/ /\ ~receiver_closed /\ NothingToReceive
          /\ waiting_receivers' = waiting_receivers + 1
          /\ writable' = {}
          /\ readable' = readable \cup {t}
          /\ Enter(t, "receiving", e, None)
          /\ UNCHANGED <<capacity, unbounded, count, queue, sender_closed,
                         receiver_closed, senders, receivers, fate>>
       \/ /\ ~receiver_closed /\ ~NothingToReceive /\ count = 0
          /\ writable' = {}
          /\ UNCHANGED <<chanVars, readable, callVars, fate>>
       \/ /\ ~receiver_closed /\ count # 0
          /\ Pop(waiting_receivers)
          /\ UNCHANGED <<readable, callVars>>
    /\ UNCHANGED <<dropVars, live>>

\* receive: woken from the wait for a message.
ReceiveResume(t) ==
    /\ pc[t] = "receiving" /\ t \notin readable
    /\ \/ /\ NothingToReceive
          /\ readable' = readable \cup {t}
          /\ UNCHANGED <<chanVars, writable, callVars, fate>>
       \/ /\ ~NothingToReceive /\ count = 0
          /\ waiting_receivers' = waiting_receivers - 1
          /\ Return(t)
          /\ UNCHANGED <<capacity, unbounded, count, queue, sender_closed,
                         receiver_closed, senders, receivers, condVars, fate>>
       \/ /\ count # 0
          /\ Pop(waiting_receivers - 1)
          /\ Return(t)
          /\ UNCHANGED readable
    /\ UNCHANGED <<dropVars, live>>

\* try_receive: Closed and Empty change nothing; otherwise it takes the head.
TryReceive(t, e) ==
    /\ MayCall(t, e) /\ e \in ReceiverIds
    /\ ~receiver_closed /\ count # 0
    /\ Pop(waiting_receivers)
    /\ UNCHANGED <<readable, callVars, dropVars, live>>

-----------------------------------------------------------------------------
(* Endpoints: clone, and drop (which is also what close does) *)

CloneSender(t, e, fresh) ==
    /\ MayCall(t, e) /\ e \in SenderIds
    /\ fresh \in SenderIds \ live
    /\ senders # CountMax                       \* el_out_of_memory otherwise
    /\ senders' = senders + 1
    /\ live' = live \cup {fresh}
    /\ UNCHANGED <<capacity, unbounded, count, queue, waiting_receivers,
                   sender_closed, receiver_closed, receivers>>
    /\ UNCHANGED <<condVars, callVars, dropVars, fate>>

CloneReceiver(t, e, fresh) ==
    /\ MayCall(t, e) /\ e \in ReceiverIds
    /\ fresh \in ReceiverIds \ live
    /\ receivers # CountMax                     \* el_out_of_memory otherwise
    /\ receivers' = receivers + 1
    /\ live' = live \cup {fresh}
    /\ UNCHANGED <<capacity, unbounded, count, queue, waiting_receivers,
                   sender_closed, receiver_closed, senders>>
    /\ UNCHANGED <<condVars, callVars, dropVars, fate>>

\* Faulty variants: destroy when either side is gone; test the counts as they
\* were before the decrement; broadcast on writable only.
MustDestroy_Either == senders' = 0 \/ receivers' = 0
MustDestroy_Stale == senders = 0 /\ receivers = 0
BroadcastBoth_OnlyWritable == writable' = {} /\ UNCHANGED readable

\* The drop of the last endpoint of either kind has the duty to destroy.
MustDestroy == senders' = 0 /\ receivers' = 0

BroadcastBoth == readable' = {} /\ writable' = {}

\* The rest of a drop's critical section, after the endpoint's own count:
\* without receivers the queue is detached, the duty to destroy is decided and
\* both condition variables are broadcast.
DetachAndBroadcast(t) ==
    /\ IF receivers' = 0
       THEN /\ messages' = [messages EXCEPT ![t] = Range(queue)]
            /\ fate' = [m \in Messages |-> IF m \in Range(queue) THEN "detached"
                                                                 ELSE fate[m]]
            /\ queue' = <<>> /\ count' = 0
       ELSE UNCHANGED <<messages, fate, queue, count>>
    /\ destroy' = [destroy EXCEPT ![t] = MustDestroy]
    /\ BroadcastBoth
    /\ Enter(t, "dropping", None, None)
    /\ UNCHANGED <<capacity, unbounded, waiting_receivers, freed>>

\* Dropping an endpoint consumes it, so no thread may still be borrowing it.
MayDrop(t, e) == MayCall(t, e) /\ \A u \in Threads : via[u] # e

DropSender(t, e) ==
    /\ MayDrop(t, e) /\ e \in SenderIds
    /\ live' = live \ {e}
    /\ senders' = IF senders # 0 THEN senders - 1 ELSE 0
    /\ sender_closed' = (sender_closed \/ senders = 1)
    /\ UNCHANGED <<receivers, receiver_closed>>
    /\ DetachAndBroadcast(t)

DropReceiver(t, e) ==
    /\ MayDrop(t, e) /\ e \in ReceiverIds
    /\ live' = live \ {e}
    /\ receivers' = IF receivers # 0 THEN receivers - 1 ELSE 0
    /\ receiver_closed' = (receiver_closed \/ receivers = 1)
    /\ UNCHANGED <<senders, sender_closed>>
    /\ DetachAndBroadcast(t)

\* After the unlock: drop the detached messages, and free the block if this
\* drop has the duty to.
DropRelease(t) ==
    /\ pc[t] = "dropping"
    /\ fate' = [m \in Messages |-> IF m \in messages[t] THEN "dropped" ELSE fate[m]]
    /\ messages' = [messages EXCEPT ![t] = {}]
    /\ destroy' = [destroy EXCEPT ![t] = FALSE]
    /\ freed' = (freed \/ destroy[t])
    /\ Return(t)
    /\ UNCHANGED <<chanVars, condVars, live>>

-----------------------------------------------------------------------------
\* POSIX lets a wait return without a wakeup.
SpuriousWake(t) ==
    /\ t \in readable \cup writable
    /\ readable' = readable \ {t}
    /\ writable' = writable \ {t}
    /\ UNCHANGED <<chanVars, callVars, dropVars, live, fate>>

\* A step of a call that is under way.
Resume(t) == SendResume(t) \/ SendHandoff(t) \/ ReceiveResume(t) \/ DropRelease(t)

Call(t) ==
    \E e \in Endpoints :
        \/ \E m \in Messages : SendCall(t, e, m) \/ TrySend(t, e, m)
        \/ ReceiveCall(t, e) \/ TryReceive(t, e)
        \/ \E f \in Endpoints : CloneSender(t, e, f) \/ CloneReceiver(t, e, f)
        \/ DropSender(t, e) \/ DropReceiver(t, e)

\* What is pushed is added to sent, and what is moved out to taken, whatever
\* the step does to the list.
Logged(log, next, what) ==
    \/ \E m \in Messages : fate[m] # what /\ fate'[m] = what /\ next = Append(log, m)
    \/ (\A m \in Messages : fate'[m] = what => fate[m] = what) /\ next = log
History == Logged(sent, sent', "queued") /\ Logged(taken, taken', "received")

Next == /\ \E t \in Threads : Call(t) \/ Resume(t) \/ SpuriousWake(t)
        /\ History

Spec == Init /\ [][Next]_vars

\* A runnable thread eventually gets the mutex and runs to its next wait or
\* return.  Nothing obliges the program to make a call.
Fairness == \A t \in Threads : WF_programVars(Resume(t))

FairSpec == Spec /\ Fairness

-----------------------------------------------------------------------------
(* Properties *)

InCall(t) == pc[t] # "idle"
Receiving == {t \in Threads : pc[t] = "receiving"}

\* Nothing touches the channel's block after free(), and it is freed at most
\* once: while an endpoint is live, a thread is inside an operation or a drop
\* has yet to finish with the block, the block is allocated; and the drop
\* with the duty to destroy is alone with it.  A drop without that duty has
\* finished with the block when it unlocks.
MemorySafe ==
    /\ (live # {} \/ \E t \in Threads : pc[t] \in {"sending", "handoff", "receiving"}
                                        \/ destroy[t])
          => ~freed
    /\ \A t \in Threads : destroy[t] =>
          /\ live = {}
          /\ \A u \in Threads \ {t} :
                pc[u] \in {"idle", "dropping"} /\ ~destroy[u]

\* The block is not leaked: once the program holds no endpoint and no call is
\* under way, it has been freed, and every message has left the queue.
Reclaimed ==
    (live = {} /\ \A t \in Threads : ~InCall(t)) => freed /\ queue = <<>>

\* A pushed message is in exactly one place: each queued one is in the queue
\* once and each detached one with exactly one drop, so none is received or
\* dropped twice; the counter agrees with the list.
Conservation ==
    /\ count = Len(queue)
    /\ \A i, j \in 1..Len(queue) : queue[i] = queue[j] => i = j
    /\ \A m \in Messages : fate[m] = "queued" <=> m \in Range(queue)
    /\ \A m \in Messages : fate[m] = "detached" <=>
          \E t \in Threads : m \in messages[t]
    /\ \A t, u \in Threads : t # u => messages[t] \cap messages[u] = {}

\* Back pressure, and the rendezvous discipline that replaces it when the
\* capacity is zero: a message is in the queue only while a receiver that has
\* entered receive is waiting for it.
Backpressure ==
    ~unbounded =>
        IF capacity = 0 THEN count <= 1 /\ (count # 0 => Receiving # {})
                        ELSE count <= capacity

\* First in, first out, whoever sends and receives: the messages moved out are
\* the first that were pushed, in that order, and the queue holds those pushed
\* next; as long as there is a receiver no other was pushed.
Ordered ==
    /\ Len(taken) + Len(queue) <= Len(sent)
    /\ receivers # 0 => Len(taken) + Len(queue) = Len(sent)
    /\ \A i \in 1..Len(taken) : taken[i] = sent[i]
    /\ \A i \in 1..Len(queue) : queue[i] = sent[Len(taken) + i]

\* The queue holds each message once, gives them out in the order they came,
\* and never holds more of them than the kind of channel allows (push, pop and
\* detach under the lock).
QueueSound == Conservation /\ Backpressure /\ Ordered

\* No lost wakeup on readable, which send only signals: while some receiver
\* sleeps, there are at least as many woken receivers as queued messages; and
\* a sleeping receiver never misses the closing of the channel.
NoLostReadable ==
    readable # {} =>
        count <= Cardinality(Receiving \ readable) /\ ~sender_closed /\ ~receiver_closed

\* No lost wakeup on writable: a sleeping sender's wait condition holds.
NoLostWritable ==
    \A t \in writable :
        /\ ~receiver_closed
        /\ IF pc[t] = "sending" THEN Full /\ ~sender_closed ELSE count # 0

\* Wakeups are never lost: no thread sleeps on a condition that has come true
\* without a thread awake to see it.
NoLostWakeup == NoLostReadable /\ NoLostWritable

\* A blocking send on a rendezvous channel returns Ok only after its own
\* message has been moved out by a receiver; it does not mistake an empty
\* queue, or another sender's message, for the hand-over of its own.
HandoffDelivers ==
    [][\A t \in Threads :
          pc[t] = "handoff" /\ pc'[t] = "idle" => fate[arg[t]] = "received"]_vars

\* Dropping the last endpoint of one kind releases every thread blocked on
\* the other kind, whatever else the program does.
DisconnectReleases ==
    \A t \in Threads :
        /\ (receiver_closed /\ pc[t] \in {"sending", "handoff"}) ~> pc[t] = "idle"
        /\ (sender_closed /\ pc[t] = "receiving") ~> pc[t] = "idle"

\* The head of the queue does not stay there while a receiver is in receive:
\* the signalled receiver, or one that overtakes it, moves it out.
HeadDelivered ==
    \A m \in Messages :
        (queue # <<>> /\ Head(queue) = m /\ Receiving # {}) ~> fate[m] # "queued"

\* A message that is sent is delivered: nobody sleeps beside it.
MessagesDelivered == HandoffDelivers /\ HeadDelivered

-----------------------------------------------------------------------------
(* The inductive invariant behind TypeOK, MemorySafe and Reclaimed *)

\* The counters are the endpoints the program holds, and a kind is closed
\* exactly when its counter is zero.
EndpointsCounted ==
    /\ senders = Cardinality(live \cap SenderIds)
    /\ receivers = Cardinality(live \cap ReceiverIds)
    /\ sender_closed <=> senders = 0
    /\ receiver_closed <=> receivers = 0

\* An operation that waits still borrows a live endpoint of its kind.
CallsBorrow ==
    \A t \in Threads :
        /\ pc[t] \in {"sending", "handoff"} => via[t] \in live \cap SenderIds /\ arg[t] \in Messages
        /\ pc[t] = "receiving" => via[t] \in live \cap ReceiverIds

\* The counters of the queue and of the receivers are exact, and a channel
\* without receivers has no queue.
QueueCounted ==
    /\ count = Len(queue)
    /\ waiting_receivers = Cardinality(Receiving)
    /\ receivers = 0 => queue = <<>>

\* One drop at most has the duty to destroy, it has it once nothing is live,
\* and it keeps it until the block is freed.
DestroyedOnce ==
    /\ \A t \in Threads : destroy[t] =>
          /\ pc[t] = "dropping" /\ live = {} /\ ~freed
          /\ \A u \in Threads \ {t} : ~destroy[u]
    /\ freed => live = {}
    /\ live = {} => freed \/ \E t \in Threads : destroy[t]

IInv == TypeOK /\ EndpointsCounted /\ CallsBorrow /\ QueueCounted /\ DestroyedOnce

-----------------------------------------------------------------------------
(* What has to be added to it behind QueueSound, NoLostWakeup and          *)
(* HandoffDelivers                                                         *)

\* A message whose send waits for room is that send's alone; one whose send
\* waits to hand it over is in the queue or with a receiver; and detached
\* messages belong to a drop that is not finished.
MessagesHeld ==
    /\ \A t \in Threads : pc[t] = "sending" => fate[arg[t]] = "argument"
    /\ \A t, u \in Threads : pc[t] = "sending" /\ pc[u] = "sending" /\ arg[t] = arg[u] => t = u
    /\ \A t \in Threads : pc[t] = "handoff" => fate[arg[t]] \in {"queued", "received"}
    /\ \A t \in Threads : messages[t] # {} => pc[t] = "dropping"

\* Only receivers sleep on readable and only senders on writable, and only a
\* channel of capacity zero makes a send wait for its hand-over.
SleepersWait ==
    /\ readable \subseteq Receiving
    /\ \A t \in writable : pc[t] \in {"sending", "handoff"}
    /\ \A t \in Threads : pc[t] = "handoff" => capacity = 0
    /\ unbounded => capacity # 0

DeliveryInv == Conservation /\ Backpressure /\ NoLostWakeup /\ MessagesHeld /\ SleepersWait

OrderInv == sent \in Seq(Messages) /\ taken \in Seq(Messages) /\ Ordered

-----------------------------------------------------------------------------
\* The language manual's contract for send: it consumes its argument,
\* "returning it inside the failure value if the channel is closed", so no
\* message ends up with neither the program nor the channel.
ClosedSendReturnsValue == \A m \in Messages : fate[m] # "closed"
=============================================================================
