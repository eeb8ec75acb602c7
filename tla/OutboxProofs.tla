---------------------------- MODULE OutboxProofs ----------------------------
(***************************************************************************)
(* Theorems about Outbox and about HttpOutbox, which takes its steps.         *)
(*                                                                           *)
(* Outbox: what submit() reported as Queued is in the queue until it is       *)
(* settled, evicted or dropped as corrupt.  The inductive part is that        *)
(* drainOne() pops the record it sent: while the callback runs nothing else   *)
(* changes the front.  From the numbering of the payloads follows their       *)
(* order, and from the order that frontAttempts_ counts the failures of one   *)
(* record only and that the cooldown is the front's.  The rate limit rests on *)
(* where the attempts of a window lie in the last Window clock units.         *)
(*                                                                           *)
(* HttpOutbox: what becomes of a stored request, how often the server takes   *)
(* it, and that the bytes stored for it are read back as that request and no  *)
(* other.                                                                     *)
(***************************************************************************)
EXTENDS HttpOutbox, NaturalLemmas, SequenceTheorems

\* The record handed to the callback is still the front when it answers.
FrontIsSent == pc = "retry" => queue # <<>> /\ sending = Head(queue)

QueueTypes ==
    /\ queue \in Seq(Payload)
    /\ pc \in {"app", "drain", "live", "retry"}
    /\ pc = "live" => sending \in Payload

DeliveryInv == QueueTypes /\ FrontIsSent /\ OwedIsQueued

\* Removing the k oldest records keeps the others.
LEMMA RestKeeps ==
  ASSUME NEW S, NEW q \in Seq(S), NEW k \in 0..Len(q), NEW p \in Range(q),
         p \notin {q[i] : i \in 1..k}
  PROVE  /\ SubSeq(q, k + 1, Len(q)) \in Seq(S)
         /\ p \in Range(SubSeq(q, k + 1, Len(q)))
  <1> DEFINE r == SubSeq(q, k + 1, Len(q))
  <1>1. r \in Seq(S) /\ Len(r) = Len(q) - k /\ \A i \in 1..Len(r) : r[i] = q[k + i]
    OBVIOUS
  <1>2. PICK i \in 1..Len(q) : q[i] = p
    BY DEF Range
  <1>3. i > k
    BY <1>2
  <1>4. i - k \in 1..Len(r) /\ r[i - k] = p
    BY <1>1, <1>2, <1>3
  <1>5. DOMAIN r = 1..Len(r)
    BY <1>1
  <1> QED
    BY <1>1, <1>4, <1>5 DEF Range

LEMMA RestType ==
  ASSUME NEW S, NEW q \in Seq(S), NEW k \in 0..Len(q)
  PROVE  SubSeq(q, k + 1, Len(q)) \in Seq(S)
  OBVIOUS

LEMMA AppendRange ==
  ASSUME NEW S, NEW q \in Seq(S), NEW p \in S
  PROVE  /\ Append(q, p) \in Seq(S)
         /\ p \in Range(Append(q, p))
         /\ Range(q) \subseteq Range(Append(q, p))
  <1> DEFINE a == Append(q, p)
  <1>1. a \in Seq(S) /\ Len(a) = Len(q) + 1 /\ a[Len(q) + 1] = p
        /\ \A i \in 1..Len(q) : a[i] = q[i]
    OBVIOUS
  <1>2. DOMAIN a = 1..(Len(q) + 1) /\ DOMAIN q = 1..Len(q)
    BY <1>1
  <1> QED
    BY <1>1, <1>2 DEF Range

\* What an eviction of k records leaves of the queue and of what is owed.
LEMMA EvictionKeeps ==
  ASSUME DeliveryInv, NEW k \in 0..Len(queue)
  PROVE  Rest(k) \in Seq(Payload) /\ owed \ First(k) \subseteq Range(Rest(k))
  <1>1. queue \in Seq(Payload) /\ owed \subseteq Range(queue)
    BY DEF DeliveryInv, QueueTypes, OwedIsQueued
  <1>2. Rest(k) \in Seq(Payload)
    BY <1>1, RestType DEF Rest
  <1>3. ASSUME NEW p \in owed \ First(k) PROVE p \in Range(Rest(k))
    BY <1>1, <1>3, RestKeeps DEF Rest, First
  <1> QED
    BY <1>2, <1>3

LEMMA EvictionsBounded == DeliveryInv => Evictions \subseteq 0..Len(queue)
  BY DEF DeliveryInv, QueueTypes, Evictions

LEMMA EnqueueKeeps ==
  ASSUME DeliveryInv, NEW p \in Payload, EnqueueOk(p)
  PROVE  queue' \in Seq(Payload) /\ OwedIsQueued'
  <1>1. PICK k \in Evictions : /\ queue' = Append(Rest(k), p)
                               /\ owed' = (owed \ First(k)) \cup {p}
    BY DEF EnqueueOk
  <1>2. Rest(k) \in Seq(Payload) /\ owed \ First(k) \subseteq Range(Rest(k))
    BY <1>1, EvictionsBounded, EvictionKeeps
  <1> QED
    BY <1>1, <1>2, AppendRange DEF OwedIsQueued

LEMMA FailureKeeps ==
  ASSUME DeliveryInv, EnqueueFails
  PROVE  queue' \in Seq(Payload) /\ OwedIsQueued'
  <1>1. CASE UNCHANGED <<queue, owed>>
    BY <1>1 DEF DeliveryInv, QueueTypes, OwedIsQueued
  <1>2. CASE \E k \in Evictions \cup {0} : queue' = Rest(k) /\ owed' = owed \ First(k)
    <2>1. PICK k \in Evictions \cup {0} : queue' = Rest(k) /\ owed' = owed \ First(k)
      BY <1>2
    <2>2. k \in 0..Len(queue)
      BY EvictionsBounded DEF DeliveryInv, QueueTypes
    <2> QED
      BY <2>1, <2>2, EvictionKeeps DEF OwedIsQueued
  <1> QED
    BY <1>1, <1>2 DEF EnqueueFails

\* The front and what is owed, when the front record leaves.
LEMMA PopKeeps ==
  ASSUME DeliveryInv, queue # <<>>, queue' = Rest(1), owed' = owed \ {Head(queue)}
  PROVE  queue' \in Seq(Payload) /\ OwedIsQueued'
  <1>1. queue \in Seq(Payload) /\ 1 \in 0..Len(queue) /\ First(1) = {Head(queue)}
    BY DEF DeliveryInv, QueueTypes, First
  <1> QED
    BY <1>1, EvictionKeeps DEF OwedIsQueued

LEMMA DeliveryInit == Init => DeliveryInv
  BY DEF Init, InitWith, DeliveryInv, QueueTypes, FrontIsSent, OwedIsQueued

LEMMA DeliveryStep == DeliveryInv /\ [Next]_vars => DeliveryInv'
  <1> SUFFICES ASSUME DeliveryInv, [Next]_vars PROVE DeliveryInv'
    OBVIOUS
  <1> USE DEF DeliveryInv, QueueTypes, FrontIsSent
  <1>1. CASE Submit
    <2>1. next \in Payload /\ pc = "app"
      BY <1>1 DEF Submit
    <2>2. CASE Enqueue(next) /\ UNCHANGED <<pc, sending>>
      BY <2>1, <2>2, EnqueueKeeps, FailureKeeps DEF Enqueue
    <2>3. CASE pc' = "live" /\ sending' = next /\ UNCHANGED <<queue, owed>>
      BY <2>1, <2>3 DEF OwedIsQueued
    <2> QED
      BY <1>1, <2>2, <2>3 DEF Submit
  <1>2. CASE LiveSettled
    BY <1>2 DEF LiveSettled, ToApp, seen, OwedIsQueued
  <1>3. ASSUME NEW hint \in Hints, LiveRetryLater(hint) PROVE DeliveryInv'
    <2>1. sending \in Payload /\ pc' = "app"
      BY <1>3 DEF LiveRetryLater, ToApp
    <2>2. EnqueueOk(sending) \/ EnqueueFails
      BY <1>3 DEF LiveRetryLater
    <2> QED
      BY <2>1, <2>2, EnqueueKeeps, FailureKeeps
  <1>4. CASE DrainSettled
    <2>1. queue # <<>> /\ owed' = owed \ {Head(queue)} /\ pc' \in {"app", "drain"}
      BY <1>4 DEF DrainSettled, Continue, ToApp
    <2>2. queue' = Rest(1) \/ queue' = queue
      BY <1>4 DEF DrainSettled
    <2>3. queue' \in Seq(Payload) /\ OwedIsQueued'
      BY <2>1, <2>2, PopKeeps DEF OwedIsQueued
    <2> QED
      BY <2>1, <2>3
  <1>5. ASSUME NEW hint \in Hints, DrainRetryLater(hint) PROVE DeliveryInv'
    BY <1>5 DEF DrainRetryLater, ToApp, OwedIsQueued
  <1>6. CASE Drain
    BY <1>6 DEF Drain, DrainUpTo, seen, OwedIsQueued
  <1>7. CASE QueueEmpty \/ PeekFails \/ NotDue
    BY <1>7 DEF QueueEmpty, PeekFails, NotDue, ToApp, seen, OwedIsQueued
  <1>8. CASE DropCorruptFrontRecord
    <2>1. queue # <<>> /\ pc' \in {"app", "drain"}
      BY <1>8 DEF DropCorruptFrontRecord, FrontCorrupt, Continue, ToApp
    <2>2. \/ queue' = Rest(1) /\ owed' = owed \ First(1)
          \/ UNCHANGED <<queue, owed>>
      BY <1>8 DEF DropCorruptFrontRecord
    <2>3. First(1) = {Head(queue)}
      BY <2>1 DEF First
    <2>4. queue' \in Seq(Payload) /\ OwedIsQueued'
      BY <2>1, <2>2, <2>3, PopKeeps DEF OwedIsQueued
    <2> QED
      BY <2>1, <2>4
  <1>9. CASE DrainSendStart
    BY <1>9 DEF DrainSendStart, FrontReads, OwedIsQueued
  <1>10. CASE Tick \/ Damage
    BY <1>10 DEF Tick, Damage, seen, OwedIsQueued
  <1>11. CASE PowerLoss
    <2>1. pc' = "app" /\ owed' = owed
      BY <1>11 DEF PowerLoss, ToApp
    <2>2. queue' = queue \/ (sending \in Payload /\ queue' = Append(queue, sending))
      BY <1>11 DEF PowerLoss
    <2>3. queue' \in Seq(Payload) /\ OwedIsQueued'
      BY <2>1, <2>2, AppendRange DEF OwedIsQueued
    <2> QED
      BY <2>1, <2>3
  <1>12. CASE UNCHANGED vars
    BY <1>12 DEF vars, seen, OwedIsQueued
  <1> QED
    BY <1>1, <1>2, <1>3, <1>4, <1>5, <1>6, <1>7, <1>8, <1>9, <1>10, <1>11, <1>12
    DEF Next, Settled, RetryLater, Return

\* No payload that submit() reported as Queued leaves the queue unsettled: drain
\* pops the record it sent, whatever failed or lost power before.
THEOREM OwedStaysQueued == Spec => []OwedIsQueued
  <1>1. DeliveryInv => OwedIsQueued
    BY DEF DeliveryInv
  <1> QED
    BY <1>1, DeliveryInit, DeliveryStep, PTL DEF Spec
-----------------------------------------------------------------------------
(* Order, and whose failures frontAttempts_ counts.                         *)

Ascending(q) == \A i, j \in 1..Len(q) : i < j => q[i] < q[j]

\* Submitted payloads are older than the next one, and only they have failed.
Numbered ==
    /\ next \in Nat \ {0} /\ failures \in [Payload -> Nat]
    /\ \A i \in 1..Len(queue) : queue[i] < next
    /\ \A p \in Payload : p >= next => failures[p] = 0
    /\ sending \in Nat /\ (pc \in {"app", "drain"} => sending = 0)
    /\ pc = "live" => sending < next

InOrder == ~fellBack => Ascending(queue) /\ (pc = "live" => queue = <<>>)

OrderInv == DeliveryInv /\ Numbered /\ InOrder

LEMMA RestAscends ==
  ASSUME NEW q \in Seq(Payload), NEW k \in 0..Len(q), NEW m \in Nat
  PROVE  LET r == SubSeq(q, k + 1, Len(q))
         IN  /\ r \in Seq(Payload) /\ Len(r) = Len(q) - k
             /\ \A i \in 1..Len(r) : r[i] = q[k + i]
             /\ Ascending(q) => Ascending(r)
             /\ (\A i \in 1..Len(q) : q[i] < m) => \A i \in 1..Len(r) : r[i] < m
  <1> DEFINE r == SubSeq(q, k + 1, Len(q))
  <1>1. r \in Seq(Payload) /\ Len(r) = Len(q) - k /\ \A i \in 1..Len(r) : r[i] = q[k + i]
    OBVIOUS
  <1>2. \A i \in 1..Len(r) : k + i \in 1..Len(q)
    BY <1>1
  <1> HIDE DEF r
  <1>3. Ascending(q) => Ascending(r)
    BY <1>1, <1>2 DEF Ascending
  <1>4. (\A i \in 1..Len(q) : q[i] < m) => \A i \in 1..Len(r) : r[i] < m
    BY <1>1, <1>2
  <1> QED
    BY <1>1, <1>3, <1>4 DEF r

LEMMA InPayload ==
  ASSUME NEW q \in Seq(Payload)
  PROVE  \A i \in 1..Len(q) : q[i] \in Nat
  <1>1. \A i \in 1..Len(q) : q[i] \in Payload
    OBVIOUS
  <1>2. \A p \in Payload : p \in Nat
    BY DEF Payload
  <1> QED
    BY <1>1, <1>2

LEMMA AppendAscends ==
  ASSUME NEW q \in Seq(Payload), NEW p \in Payload, NEW m \in Nat
  PROVE  /\ Len(Append(q, p)) = Len(q) + 1
         /\ \A i \in 1..Len(q) : Append(q, p)[i] = q[i]
         /\ (Ascending(q) /\ \A i \in 1..Len(q) : q[i] < p) => Ascending(Append(q, p))
         /\ (p < m /\ \A i \in 1..Len(q) : q[i] < m) =>
                 \A i \in 1..Len(Append(q, p)) : Append(q, p)[i] < m
  <1> DEFINE a == Append(q, p)
  <1>1. /\ a \in Seq(Payload) /\ Len(a) = Len(q) + 1 /\ a[Len(q) + 1] = p
        /\ \A i \in 1..Len(q) : a[i] = q[i]
    OBVIOUS
  <1> HIDE DEF a
  <1>2. \A i \in 1..Len(q) : q[i] \in Payload
    OBVIOUS
  <1>3. (Ascending(q) /\ \A i \in 1..Len(q) : q[i] < p) => Ascending(a)
    BY <1>1, <1>2 DEF Ascending, Payload
  <1>4. (p < m /\ \A i \in 1..Len(q) : q[i] < m) => \A i \in 1..Len(a) : a[i] < m
    BY <1>1, <1>2 DEF Payload
  <1> QED
    BY <1>1, <1>3, <1>4 DEF a

\* A queue that lost its k oldest records and then, perhaps, got a younger one.
Trimmed(k)      == queue' = Rest(k)
Extended(k, p)  == queue' = Append(Rest(k), p)

LEMMA TrimmedOrder ==
  ASSUME OrderInv, NEW k \in 0..Len(queue), Trimmed(k)
  PROVE  /\ \A i \in 1..Len(queue') : queue'[i] < next
         /\ Ascending(queue) => Ascending(queue')
         /\ queue = <<>> => queue' = <<>>
  <1>1. queue \in Seq(Payload) /\ next \in Nat /\ \A i \in 1..Len(queue) : queue[i] < next
    BY DEF OrderInv, DeliveryInv, QueueTypes, Numbered
  <1>2. queue = <<>> => queue' = <<>>
    BY <1>1, RestAscends DEF Trimmed, Rest
  <1> QED
    BY <1>1, <1>2, RestAscends DEF Trimmed, Rest

LEMMA ExtendedOrder ==
  ASSUME OrderInv, NEW k \in 0..Len(queue), NEW p \in Payload, Extended(k, p),
         NEW m \in Nat, p < m, next <= m
  PROVE  /\ \A i \in 1..Len(queue') : queue'[i] < m
         /\ Ascending(queue) /\ (p = next \/ queue = <<>>) => Ascending(queue')
  <1>1. queue \in Seq(Payload) /\ next \in Nat /\ \A i \in 1..Len(queue) : queue[i] < next
    BY DEF OrderInv, DeliveryInv, QueueTypes, Numbered
  <1> DEFINE r == Rest(k)
  <1>2. /\ r \in Seq(Payload) /\ \A i \in 1..Len(r) : r[i] < next
        /\ Ascending(queue) => Ascending(r)
        /\ queue = <<>> => Len(r) = 0
    BY <1>1, RestAscends DEF Rest
  <1>3. \A i \in 1..Len(r) : r[i] \in Payload
    BY <1>2
  <1>4. queue' = Append(r, p)
    BY DEF Extended
  <1> HIDE DEF r
  <1>5. \A i \in 1..Len(r) : r[i] < m
    BY <1>1, <1>2, <1>3 DEF Payload
  <1>6. (p = next \/ queue = <<>>) => \A i \in 1..Len(r) : r[i] < p
    BY <1>2
  <1> QED
    BY <1>2, <1>4, <1>5, <1>6, AppendAscends

\* What the queue may look like after an enqueue, and after one that failed.
LEMMA EnqueueShape ==
  ASSUME OrderInv, NEW p \in Payload, EnqueueOk(p) \/ EnqueueFails
  PROVE  \E k \in 0..Len(queue) : Extended(k, p) \/ Trimmed(k)
  <1>1. queue \in Seq(Payload) /\ Evictions \subseteq 0..Len(queue) /\ 0 \in 0..Len(queue)
    BY EvictionsBounded DEF OrderInv, DeliveryInv, QueueTypes
  <1>2. CASE EnqueueOk(p)
    BY <1>1, <1>2 DEF EnqueueOk, Extended
  <1>3. CASE EnqueueFails
    <2>1. queue' = queue \/ \E k \in Evictions \cup {0} : queue' = Rest(k)
      BY <1>3 DEF EnqueueFails
    <2>2. Rest(0) = queue
      BY <1>1 DEF Rest
    <2> QED
      BY <1>1, <2>1, <2>2 DEF Trimmed
  <1> QED
    BY <1>2, <1>3

LEMMA OrderStart == Init => OrderInv
  <1> SUFFICES ASSUME Init PROVE OrderInv
    OBVIOUS
  <1>1. queue = <<>> /\ next = 1
    BY DEF Init, InitWith
  <1>2. Numbered
    BY <1>1 DEF Init, InitWith, Numbered, Payload
  <1>3. InOrder
    BY <1>1 DEF Init, InitWith, InOrder, Ascending
  <1> QED
    BY <1>2, <1>3, DeliveryInit DEF OrderInv

\* A step that takes at most some of the oldest records, in a callback's absence.
LEMMA TrimmingStep ==
  ASSUME OrderInv, DeliveryInv', UNCHANGED <<next, fellBack>>,
         NEW k \in 0..Len(queue), Trimmed(k),
         failures' \in [Payload -> Nat], \A p \in Payload : p >= next => failures'[p] = 0,
         sending' \in Nat, pc' \in {"app", "drain"} => sending' = 0,
         pc' = "live" => pc = "live" /\ sending' = sending
  PROVE  OrderInv'
  <1>1. /\ \A i \in 1..Len(queue') : queue'[i] < next
        /\ Ascending(queue) => Ascending(queue')
        /\ queue = <<>> => queue' = <<>>
    BY TrimmedOrder
  <1>2. Numbered'
    BY <1>1 DEF OrderInv, Numbered
  <1>3. InOrder'
    BY <1>1 DEF OrderInv, InOrder
  <1> QED
    BY <1>2, <1>3 DEF OrderInv
\* A step that adds a payload: the next one, or one whose live send failed.
LEMMA ExtendingStep ==
  ASSUME OrderInv, DeliveryInv', UNCHANGED fellBack, next' \in {next, next + 1},
         NEW k \in 0..Len(queue), NEW p \in Payload, Extended(k, p), p < next',
         p = next \/ (~fellBack => queue = <<>>),
         failures' \in [Payload -> Nat], \A q \in Payload : q >= next' => failures'[q] = 0,
         pc' = "app", sending' = 0
  PROVE  OrderInv'
  <1>1. next \in Nat \ {0} /\ next' \in Nat \ {0} /\ next <= next'
    BY DEF OrderInv, Numbered
  <1>2. /\ \A i \in 1..Len(queue') : queue'[i] < next'
        /\ Ascending(queue) /\ (p = next \/ queue = <<>>) => Ascending(queue')
    BY <1>1, ExtendedOrder
  <1>3. Numbered'
    BY <1>1, <1>2 DEF Numbered
  <1>4. InOrder'
    BY <1>2 DEF OrderInv, InOrder
  <1> QED
    BY <1>3, <1>4 DEF OrderInv

LEMMA SubmitOrder == ASSUME OrderInv, DeliveryInv', Submit PROVE OrderInv'
  <1>1. /\ next \in Payload /\ next' = next + 1 /\ pc = "app" /\ sending = 0
        /\ UNCHANGED failures /\ next \in Nat
    BY DEF Submit, OrderInv, Numbered
  <1>2. /\ failures' \in [Payload -> Nat]
        /\ \A q \in Payload : q >= next' => failures'[q] = 0
    BY <1>1 DEF OrderInv, Numbered, Payload
  <1>3. CASE Enqueue(next) /\ UNCHANGED <<pc, sending, fellBack>>
    <2>1. PICK k \in 0..Len(queue) : Extended(k, next) \/ Trimmed(k)
      BY <1>1, <1>3, EnqueueShape DEF Enqueue
    <2>2. CASE Extended(k, next)
      BY <1>1, <1>2, <1>3, <2>2, ExtendingStep
    <2>3. CASE Trimmed(k)
      <3>1. /\ \A i \in 1..Len(queue') : queue'[i] < next
            /\ Ascending(queue) => Ascending(queue')
        BY <2>3, TrimmedOrder
      <3>2. \A i \in 1..Len(queue') : queue'[i] \in Nat
        <4>1. queue' \in Seq(Payload)
          BY DEF DeliveryInv, QueueTypes
        <4> QED
          BY <4>1, InPayload
      <3>3. Numbered'
        BY <1>1, <1>2, <1>3, <3>1, <3>2 DEF Numbered
      <3>4. InOrder'
        BY <1>1, <1>3, <3>1 DEF OrderInv, InOrder
      <3> QED
        BY <3>3, <3>4 DEF OrderInv
    <2> QED
      BY <2>1, <2>2, <2>3
  <1>4. CASE /\ pc' = "live" /\ sending' = next /\ queue' = queue
             /\ ~fellBack' => (~fellBack /\ queue = <<>>)
    <2>1. \A i \in 1..Len(queue) : queue[i] < next /\ queue[i] \in Nat
      <3>1. queue \in Seq(Payload) /\ \A i \in 1..Len(queue) : queue[i] < next
        BY DEF OrderInv, DeliveryInv, QueueTypes, Numbered
      <3> QED
        BY <3>1, InPayload
    <2>2. Numbered'
      BY <1>1, <1>2, <1>4, <2>1 DEF Numbered
    <2>3. InOrder'
      BY <1>4 DEF OrderInv, InOrder
    <2> QED
      BY <2>2, <2>3 DEF OrderInv
  <1>5. \/ Enqueue(next) /\ UNCHANGED <<pc, sending, fellBack>>
        \/ /\ pc' = "live" /\ sending' = next /\ queue' = queue
           /\ queue = <<>> /\ fellBack' = fellBack
        \/ /\ pc' = "live" /\ sending' = next /\ queue' = queue
           /\ fellBack' = (fellBack \/ queue # <<>>)
    BY Zenon DEF Submit, LiveAllowed
  <1> QED
    BY <1>3, <1>4, <1>5

LEMMA LiveRetryOrder ==
  ASSUME OrderInv, DeliveryInv', NEW hint \in Hints, LiveRetryLater(hint)
  PROVE  OrderInv'
  <1>1. /\ sending \in Payload /\ sending < next /\ next \in Nat
        /\ ~fellBack => queue = <<>>
        /\ UNCHANGED <<next, fellBack>> /\ pc' = "app" /\ sending' = 0
        /\ failures' = [failures EXCEPT ![sending] = 1]
    BY DEF LiveRetryLater, ToApp, OrderInv, DeliveryInv, QueueTypes, Numbered, InOrder
  <1>2. /\ failures' \in [Payload -> Nat]
        /\ \A q \in Payload : q >= next => failures'[q] = 0
    BY <1>1 DEF OrderInv, Numbered, Payload
  <1>3. PICK k \in 0..Len(queue) : Extended(k, sending) \/ Trimmed(k)
    <2>1. EnqueueOk(sending) \/ EnqueueFails
      BY DEF LiveRetryLater
    <2> QED
      BY <1>1, <2>1, EnqueueShape
  <1>4. CASE Extended(k, sending)
    BY <1>1, <1>2, <1>4, ExtendingStep
  <1>5. CASE Trimmed(k)
    BY <1>1, <1>2, <1>5, TrimmingStep
  <1> QED
    BY <1>3, <1>4, <1>5

LEMMA OrderStep == OrderInv /\ [Next]_vars => OrderInv'
  <1> SUFFICES ASSUME OrderInv, [Next]_vars PROVE OrderInv'
    OBVIOUS
  <1>1. DeliveryInv'
    BY DeliveryStep DEF OrderInv
  <1>2. /\ queue \in Seq(Payload) /\ 0 \in 0..Len(queue) /\ Rest(0) = queue
        /\ (queue # <<>> => 1 \in 0..Len(queue) /\ Head(queue) \in Payload /\ Head(queue) < next)
    BY DEF OrderInv, DeliveryInv, QueueTypes, Rest, Numbered
  <1>3. /\ failures \in [Payload -> Nat] /\ \A p \in Payload : p >= next => failures[p] = 0
        /\ next \in Nat /\ sending \in Nat /\ (pc \in {"app", "drain"} => sending = 0)
    BY DEF OrderInv, Numbered
  <1>4. CASE Submit
    BY <1>1, <1>4, SubmitOrder
  <1>5. ASSUME NEW hint \in Hints, LiveRetryLater(hint) PROVE OrderInv'
    BY <1>1, <1>5, LiveRetryOrder
  <1>6. CASE LiveSettled \/ QueueEmpty \/ PeekFails \/ NotDue \/ Drain
    <2>1. /\ queue' = queue /\ UNCHANGED <<next, fellBack, failures>>
          /\ sending' = 0 /\ pc' \in {"app", "drain"}
      BY <1>3, <1>6 DEF LiveSettled, QueueEmpty, PeekFails, NotDue, Drain, DrainUpTo, ToApp, seen
    <2> QED
      BY <1>1, <1>2, <1>3, <2>1, TrimmingStep DEF Trimmed
  <1>7. CASE DrainSettled \/ DropCorruptFrontRecord
    <2>1. queue # <<>>
      BY <1>7 DEF DrainSettled, DropCorruptFrontRecord, FrontCorrupt, OrderInv, DeliveryInv, FrontIsSent
    <2>2. queue' = Rest(1) \/ queue' = queue
      BY <1>7 DEF DrainSettled, DropCorruptFrontRecord
    <2>3. /\ UNCHANGED <<next, fellBack, failures>>
          /\ sending' = 0 /\ pc' \in {"app", "drain"}
      BY <1>7 DEF DrainSettled, DropCorruptFrontRecord, Continue, ToApp
    <2>4. PICK k \in 0..Len(queue) : Trimmed(k)
      BY <1>2, <2>1, <2>2 DEF Trimmed
    <2> QED
      BY <1>1, <1>3, <2>3, <2>4, TrimmingStep
  <1>8. ASSUME NEW hint \in Hints, DrainRetryLater(hint) PROVE OrderInv'
    <2>1. /\ queue' = queue /\ UNCHANGED <<next, fellBack>>
          /\ sending' = 0 /\ pc' = "app" /\ sending = Head(queue) /\ queue # <<>>
          /\ failures' = [failures EXCEPT ![sending] = Least(@ + 1, AttemptsLimit)]
      BY <1>8 DEF DrainRetryLater, ToApp, OrderInv, DeliveryInv, FrontIsSent
    <2>2. Least(failures[sending] + 1, AttemptsLimit) \in Nat
      <3>1. AttemptsLimit \in Nat /\ failures[sending] \in Nat
        BY <1>2, <1>3, <2>1, OutboxConstants
      <3> QED
        BY <3>1 DEF Least
    <2>3. /\ failures' \in [Payload -> Nat] /\ \A p \in Payload : p >= next => failures'[p] = 0
      BY <1>2, <1>3, <2>1, <2>2 DEF Payload
    <2> QED
      BY <1>1, <1>2, <2>1, <2>3, TrimmingStep DEF Trimmed
  <1>9. CASE DrainSendStart
    <2>1. /\ queue' = queue /\ UNCHANGED <<next, fellBack, failures>>
          /\ sending' = Head(queue) /\ pc' = "retry" /\ queue # <<>>
      BY <1>9 DEF DrainSendStart, FrontReads
    <2> QED
      BY <1>1, <1>2, <1>3, <2>1, TrimmingStep DEF Trimmed, Payload
  <1>10. CASE Tick \/ Damage \/ UNCHANGED vars
    <2>1. queue' = queue /\ UNCHANGED <<next, fellBack, failures, sending, pc>>
      BY <1>10 DEF Tick, Damage, vars, seen
    <2> QED
      BY <1>1, <1>2, <1>3, <2>1, TrimmingStep DEF Trimmed
  <1>11. CASE PowerLoss
    <2>1. /\ UNCHANGED <<next, fellBack>> /\ pc' = "app" /\ sending' = 0
          /\ failures' = [p \in Payload |-> 0]
          /\ queue' = queue \/ (pc = "live" /\ queue' = Append(queue, sending))
      BY <1>11 DEF PowerLoss, ToApp
    <2>2. CASE queue' = queue
      BY <1>1, <1>2, <1>3, <2>1, <2>2, TrimmingStep DEF Trimmed
    <2>3. CASE pc = "live" /\ queue' = Append(queue, sending)
      <3>1. sending \in Payload /\ sending < next /\ (~fellBack => queue = <<>>)
        BY <2>3 DEF OrderInv, DeliveryInv, QueueTypes, Numbered, InOrder
      <3> QED
        BY <1>1, <1>2, <1>3, <2>1, <2>3, <3>1, ExtendingStep DEF Extended
    <2> QED
      BY <2>1, <2>2, <2>3
  <1> QED
    BY <1>4, <1>5, <1>6, <1>7, <1>8, <1>9, <1>10, <1>11
    DEF Next, Settled, RetryLater, Return

LEMMA OrderedSends == OrderInv => NothingOvertakes
  <1> SUFFICES ASSUME OrderInv, ~fellBack, sending # 0, NEW p \in Range(queue) PROVE p >= sending
    BY DEF NothingOvertakes
  <1>1. PICK i \in 1..Len(queue) : queue[i] = p
    BY DEF Range, OrderInv, DeliveryInv, QueueTypes
  <1>2. pc = "retry" /\ sending = queue[1]
    BY <1>1 DEF OrderInv, Numbered, InOrder, DeliveryInv, QueueTypes, FrontIsSent
  <1>3. queue \in Seq(Payload)
    BY DEF OrderInv, DeliveryInv, QueueTypes
  <1>4. 1 \in 1..Len(queue) /\ 1 <= i
    BY <1>1, <1>3
  <1>5. queue[1] \in Nat /\ queue[i] \in Nat
    BY <1>1, <1>3, <1>4, InPayload
  <1>6. i = 1 \/ queue[1] < queue[i]
    BY <1>1, <1>4 DEF OrderInv, InOrder, Ascending
  <1> QED
    BY <1>1, <1>2, <1>5, <1>6

\* Payloads reach the callback in the order of their submission, live sends, retries,
\* evictions and reboots included, unless submit() once could not see the backlog.
THEOREM NothingEverOvertakes == Spec => []NothingOvertakes
  <1> QED
    BY OrderStart, OrderStep, OrderedSends, PTL DEF Spec
-----------------------------------------------------------------------------
(* frontAttempts_ counts the failures of the record at the front: the others  *)
(* have not been tried, where nothing is evicted and nothing overtakes.       *)

Counted ==
    /\ Len(queue) = 0 => frontAttempts = 0
    /\ \A i \in 1..Len(queue) : failures[queue[i]] = IF i = 1 THEN frontAttempts ELSE 0

Rejecting == policy = "RejectNewest" /\ ~fellBack

AttemptsInv == OrderInv /\ frontAttempts \in 0..AttemptsLimit /\ (Rejecting => Counted)

LEMMA AttemptsStart == Init => AttemptsInv
  <1> SUFFICES ASSUME Init PROVE AttemptsInv
    OBVIOUS
  <1>1. queue = <<>> /\ frontAttempts = 0
    BY DEF Init, InitWith
  <1>2. Counted /\ frontAttempts \in 0..AttemptsLimit
    BY <1>1, OutboxConstants DEF Counted
  <1> QED
    BY <1>2, OrderStart DEF AttemptsInv

LEMMA AttemptsBounded ==
  ASSUME frontAttempts \in 0..AttemptsLimit, [Next]_vars
  PROVE  frontAttempts' \in 0..AttemptsLimit
  <1> USE OutboxConstants
  <1>1. ASSUME NEW hint \in Hints, LiveRetryLater(hint) PROVE frontAttempts' \in 0..AttemptsLimit
    BY <1>1 DEF LiveRetryLater, ArmFirst
  <1>2. ASSUME NEW hint \in Hints, DrainRetryLater(hint) PROVE frontAttempts' \in 0..AttemptsLimit
    BY <1>2 DEF DrainRetryLater, CountAttempt
  <1>3. CASE Submit \/ LiveSettled \/ Drain \/ PeekFails \/ NotDue \/ DrainSendStart
             \/ Tick \/ Damage \/ UNCHANGED vars
    BY <1>3 DEF Submit, LiveSettled, Drain, DrainUpTo, PeekFails, NotDue, DrainSendStart,
                Tick, Damage, vars, ram
  <1>4. CASE DrainSettled \/ QueueEmpty \/ DropCorruptFrontRecord \/ PowerLoss
    BY <1>4 DEF DrainSettled, QueueEmpty, DropCorruptFrontRecord, PowerLoss, ClearFrontCooldown
  <1> QED
    BY <1>1, <1>2, <1>3, <1>4 DEF Next, Settled, RetryLater, Return

\* Under RejectNewest an enqueue adds the record or leaves the queue as it is.
LEMMA RejectingEnqueue ==
  ASSUME OrderInv, policy = "RejectNewest", NEW p \in Payload, EnqueueOk(p) \/ EnqueueFails
  PROVE  (EnqueueOk(p) /\ queue' = Append(queue, p)) \/ (EnqueueFails /\ queue' = queue)
  <1>1. queue \in Seq(Payload)
    BY DEF OrderInv, DeliveryInv, QueueTypes
  <1>2. Rest(0) = queue
    BY <1>1 DEF Rest
  <1>3. \A k \in Evictions \cup {0} : k = 0
    BY DEF Evictions
  <1> QED
    BY <1>2, <1>3 DEF EnqueueOk, EnqueueFails

\* A record that was not tried yet joins the others.
LEMMA CountedAppend ==
  ASSUME OrderInv, Counted, NEW p \in Payload, queue' = Append(queue, p),
         UNCHANGED <<failures, frontAttempts>>, failures[p] = 0
  PROVE  Counted'
  <1>1. queue \in Seq(Payload)
    BY DEF OrderInv, DeliveryInv, QueueTypes
  <1>2. /\ Len(queue') = Len(queue) + 1 /\ queue'[Len(queue) + 1] = p /\ Len(queue) \in Nat
        /\ \A i \in 1..Len(queue) : queue'[i] = queue[i]
    BY <1>1
  <1> QED
    BY <1>2 DEF Counted

\* The front leaves, and its failures with it.
LEMMA CountedRest ==
  ASSUME OrderInv, Counted, queue # <<>>, queue' = Rest(1),
         UNCHANGED failures, frontAttempts' = 0
  PROVE  Counted'
  <1>1. queue \in Seq(Payload)
    BY DEF OrderInv, DeliveryInv, QueueTypes
  <1>2. /\ Len(queue') = Len(queue) - 1 /\ Len(queue) \in Nat
        /\ \A i \in 1..Len(queue') : queue'[i] = queue[i + 1]
    <2>1. 1 \in 0..Len(queue) /\ Len(queue) \in Nat
      BY <1>1
    <2>2. queue' = SubSeq(queue, 1 + 1, Len(queue))
      BY DEF Rest
    <2> QED
      BY <1>1, <2>1, <2>2, RestAscends
  <1>3. \A i \in 1..Len(queue') : i + 1 \in 1..Len(queue) /\ i + 1 # 1
    BY <1>2
  <1>4. \A i \in 1..Len(queue') : failures[queue[i + 1]] = 0
    BY <1>3 DEF Counted
  <1>5. \A i \in 1..Len(queue') : failures'[queue'[i]] = 0
    BY <1>2, <1>4
  <1>6. frontAttempts' = 0
    OBVIOUS
  <1> QED
    BY <1>5, <1>6 DEF Counted

\* What the callback asks again for is the front, and only the front is counted.
LEMMA CountedRetry ==
  ASSUME OrderInv, Rejecting, Counted, frontAttempts \in 0..AttemptsLimit,
         NEW hint \in Hints, DrainRetryLater(hint)
  PROVE  Counted'
  <1>1. /\ queue \in Seq(Payload) /\ queue # <<>> /\ queue' = queue /\ sending = Head(queue)
        /\ frontAttempts' = CountAttempt(frontAttempts)
        /\ failures \in [Payload -> Nat] /\ Ascending(queue)
        /\ failures' = [failures EXCEPT ![sending] = Least(@ + 1, AttemptsLimit)]
    BY DEF DrainRetryLater, OrderInv, DeliveryInv, QueueTypes, FrontIsSent, Numbered, InOrder,
           Rejecting
  <1>2. /\ Len(queue) \in Nat \ {0} /\ 1 \in 1..Len(queue) /\ sending = queue[1]
        /\ \A i \in 1..Len(queue) : queue[i] \in Payload
    BY <1>1
  <1>3. \A i \in 1..Len(queue) : queue[i] \in Nat
    BY <1>1, InPayload
  <1>4. failures[sending] = frontAttempts
    BY <1>2 DEF Counted
  <1>5. Least(failures[sending] + 1, AttemptsLimit) = CountAttempt(frontAttempts)
    <2>1. AttemptsLimit \in Nat /\ frontAttempts \in 0..AttemptsLimit
      BY OutboxConstants
    <2> QED
      BY <1>4, <2>1 DEF Least, CountAttempt
  <1>6. failures'[queue[1]] = frontAttempts'
    BY <1>1, <1>2, <1>5
  <1>7. \A i \in 2..Len(queue) : queue[1] < queue[i]
    BY <1>1, <1>2 DEF Ascending
  <1>8. \A i \in 2..Len(queue) : failures'[queue[i]] = failures[queue[i]]
    BY <1>1, <1>2, <1>3, <1>7
  <1>9. \A i \in 2..Len(queue) : failures[queue[i]] = 0
    BY DEF Counted
  <1> QED
    BY <1>1, <1>2, <1>6, <1>8, <1>9 DEF Counted

\* A live send that failed finds the queue empty, and becomes its front.
LEMMA CountedLive ==
  ASSUME OrderInv, Rejecting, Counted, NEW hint \in Hints, LiveRetryLater(hint)
  PROVE  Counted'
  <1>1. /\ sending \in Payload /\ queue = <<>> /\ failures \in [Payload -> Nat]
        /\ failures' = [failures EXCEPT ![sending] = 1] /\ policy = "RejectNewest"
    BY DEF LiveRetryLater, OrderInv, DeliveryInv, QueueTypes, Numbered, InOrder, Rejecting
  <1>2. \/ EnqueueOk(sending) /\ frontAttempts' = 1
        \/ EnqueueFails /\ frontAttempts' = frontAttempts
    BY <1>1 DEF LiveRetryLater, ArmFirst
  <1>3. \/ queue' = <<sending>> /\ frontAttempts' = 1
        \/ queue' = queue /\ frontAttempts' = frontAttempts
    <2>1. CASE EnqueueOk(sending) /\ frontAttempts' = 1
      <3>1. Evictions \subseteq {0}
        BY <1>1 DEF Evictions
      <3>2. Rest(0) = <<>>
        BY <1>1 DEF Rest
      <3>3. Append(<<>>, sending) = <<sending>>
        OBVIOUS
      <3>4. PICK k \in Evictions : queue' = Append(Rest(k), sending)
        BY <2>1 DEF EnqueueOk
      <3>5. k = 0
        BY ONLY <3>1, <3>4
      <3> QED
        BY <2>1, <3>2, <3>3, <3>4, <3>5
    <2>2. CASE EnqueueFails /\ frontAttempts' = frontAttempts
      <3>1. Evictions \cup {0} \subseteq {0} /\ Rest(0) = queue
        BY <1>1 DEF Evictions, Rest
      <3> QED
        BY <2>2, <3>1 DEF EnqueueFails
    <2> QED
      BY <1>2, <2>1, <2>2
  <1>4. CASE queue' = <<sending>> /\ frontAttempts' = 1
    <2>1. Len(queue') = 1 /\ queue'[1] = sending /\ failures'[sending] = 1
      BY <1>1, <1>4
    <2> QED
      BY <1>4, <2>1 DEF Counted
  <1>5. CASE queue' = queue /\ frontAttempts' = frontAttempts
    <2>1. Len(queue') = 0 /\ frontAttempts = 0
      BY <1>1, <1>5 DEF Counted
    <2> QED
      BY <1>5, <2>1 DEF Counted
  <1> QED
    BY <1>3, <1>4, <1>5

LEMMA AttemptsStep == AttemptsInv /\ [Next]_vars => AttemptsInv'
  <1> SUFFICES ASSUME AttemptsInv, [Next]_vars PROVE AttemptsInv'
    OBVIOUS
  <1>1. OrderInv /\ OrderInv' /\ frontAttempts \in 0..AttemptsLimit
        /\ frontAttempts' \in 0..AttemptsLimit
    BY OrderStep, AttemptsBounded DEF AttemptsInv
  <1> SUFFICES ASSUME Rejecting' PROVE Counted'
    BY <1>1 DEF AttemptsInv
  <1>2. policy' = policy /\ (~fellBack' => ~fellBack)
    <2>1. CASE Submit
      <3>1. policy' = policy
        BY <2>1 DEF Submit
      <3>2. fellBack' = fellBack \/ fellBack' = (fellBack \/ queue # <<>>)
        BY <2>1 DEF Submit
      <3>3. ~fellBack' => ~fellBack
        BY <3>2, Zenon
      <3> QED
        BY <3>1, <3>3
    <2>2. CASE Settled \/ Drain \/ Return \/ RetryLater
      BY <2>2 DEF Settled, Drain, Return, RetryLater, LiveSettled, DrainSettled, DrainUpTo,
                  QueueEmpty, PeekFails, DropCorruptFrontRecord, NotDue, LiveRetryLater,
                  DrainRetryLater, seen
    <2>3. ASSUME DrainSendStart \/ Tick \/ Damage \/ PowerLoss \/ UNCHANGED vars
          PROVE  policy' = policy /\ fellBack' = fellBack
      BY <2>3 DEF DrainSendStart, Tick, Damage, PowerLoss, vars, seen
    <2> QED
      BY <2>1, <2>2, <2>3 DEF Next
  <1>3. Rejecting /\ Counted
    BY <1>2 DEF Rejecting, AttemptsInv
  <1>4. /\ queue \in Seq(Payload) /\ next \in Nat /\ \A p \in Payload : p >= next => failures[p] = 0
        /\ pc = "retry" => queue # <<>>
    BY <1>1 DEF OrderInv, DeliveryInv, QueueTypes, FrontIsSent, Numbered
  <1>5. CASE Submit
    <2>1. UNCHANGED <<failures, frontAttempts>> /\ next \in Payload
      BY <1>5 DEF Submit, ram
    <2>2. queue' = queue \/ EnqueueOk(next) \/ EnqueueFails
      BY <1>5 DEF Submit, Enqueue
    <2>3. queue' = queue \/ queue' = Append(queue, next)
      BY <1>1, <1>3, <2>1, <2>2, RejectingEnqueue DEF Rejecting
    <2>4. CASE queue' = queue
      BY <1>3, <2>1, <2>4 DEF Counted
    <2>5. CASE queue' = Append(queue, next)
      <3>1. failures[next] = 0
        BY <1>4, <2>1
      <3> QED
        BY <1>1, <1>3, <2>1, <2>5, <3>1, CountedAppend
    <2> QED
      BY <2>3, <2>4, <2>5
  <1>6. ASSUME NEW hint \in Hints, LiveRetryLater(hint) PROVE Counted'
    BY <1>1, <1>3, <1>6, CountedLive
  <1>7. ASSUME NEW hint \in Hints, DrainRetryLater(hint) PROVE Counted'
    BY <1>1, <1>3, <1>7, CountedRetry
  <1>8. CASE LiveSettled \/ Drain \/ PeekFails \/ NotDue \/ DrainSendStart
             \/ Tick \/ Damage \/ UNCHANGED vars
    <2>1. UNCHANGED <<queue, failures, frontAttempts>>
      BY <1>8 DEF LiveSettled, Drain, DrainUpTo, PeekFails, NotDue, DrainSendStart,
                  Tick, Damage, vars, ram, seen
    <2> QED
      BY <1>3, <2>1 DEF Counted
  <1>9. CASE DrainSettled \/ DropCorruptFrontRecord
    <2>1. /\ queue # <<>> /\ UNCHANGED failures
          /\ \/ queue' = Rest(1) /\ frontAttempts' = 0
             \/ UNCHANGED <<queue, frontAttempts>>
      BY <1>4, <1>9 DEF DrainSettled, DropCorruptFrontRecord, FrontCorrupt, ClearFrontCooldown
    <2>2. CASE queue' = Rest(1) /\ frontAttempts' = 0
      BY <1>1, <1>3, <2>1, <2>2, CountedRest
    <2>3. CASE UNCHANGED <<queue, frontAttempts>>
      BY <1>3, <2>1, <2>3 DEF Counted
    <2> QED
      BY <2>1, <2>2, <2>3
  <1>10. CASE QueueEmpty
    BY <1>3, <1>10 DEF QueueEmpty, ClearFrontCooldown, seen, Counted
  <1>11. CASE PowerLoss
    <2>1. /\ failures' = [p \in Payload |-> 0] /\ frontAttempts' = 0
          /\ queue' \in Seq(Payload)
      BY <1>1, <1>11 DEF PowerLoss, OrderInv, DeliveryInv, QueueTypes
    <2>2. \A i \in 1..Len(queue') : queue'[i] \in Payload
      BY <2>1
    <2> QED
      BY <2>1, <2>2 DEF Counted
  <1> QED
    BY <1>5, <1>6, <1>7, <1>8, <1>9, <1>10, <1>11
    DEF Next, Settled, RetryLater, Return

\* The attempts of one record never reach another: each front starts from its own
\* failures, through retries, failed pops, corrupt drops and reboots, where the
\* full queue rejects (outbox.h:164-165).
THEOREM AttemptsStayWithTheirRecord == Spec => []AttemptsKeptByRejection
  <1>1. AttemptsInv => AttemptsKeptByRejection
    <2> SUFFICES ASSUME AttemptsInv, Rejecting PROVE AttemptsAreFronts
      BY DEF AttemptsKeptByRejection, Rejecting
    <2>1. queue \in Seq(Payload) /\ Counted
      BY DEF AttemptsInv, OrderInv, DeliveryInv, QueueTypes
    <2>2. CASE queue = <<>>
      BY <2>1, <2>2 DEF Counted, AttemptsAreFronts
    <2>3. CASE queue # <<>>
      <3>1. 1 \in 1..Len(queue) /\ Head(queue) = queue[1]
        BY <2>1, <2>3
      <3> QED
        BY <2>1, <2>3, <3>1 DEF Counted, AttemptsAreFronts
    <2> QED
      BY <2>2, <2>3
  <1> QED
    BY <1>1, AttemptsStart, AttemptsStep, PTL DEF Spec
-----------------------------------------------------------------------------
(* The types of the outbox's state. *)

DrainTypes ==
    /\ windowLeft \in 0..Window /\ windowUsed \in 0..MaxDrainAttempts
    /\ corruptDrops \in 0..MaxCorruptDrops
    /\ left \in 0..MaxDrain /\ (pc \in {"drain", "retry"} => left # 0)
    /\ age \in 0..MaxSendTime

OtherTypes == policy \in Policies /\ damaged \subseteq Payload /\ trouble \in 0..MaxTrouble

TypesInv == AttemptsInv /\ DrainTypes /\ OtherTypes /\ sending \in 0..MaxPayloads

LEMMA TypesStart == Init => TypesInv
  <1> SUFFICES ASSUME Init PROVE TypesInv
    OBVIOUS
  <1> USE OutboxConstants DEF Init, InitWith
  <1>1. DrainTypes
    BY DEF DrainTypes
  <1>2. OtherTypes /\ sending \in 0..MaxPayloads
    BY DEF OtherTypes
  <1> QED
    BY <1>1, <1>2, AttemptsStart DEF TypesInv

LEMMA DrainTypesStep == DrainTypes /\ [Next]_vars => DrainTypes'
  <1> SUFFICES ASSUME DrainTypes, [Next]_vars PROVE DrainTypes'
    OBVIOUS
  <1> USE OutboxConstants DEF DrainTypes
  <1>1. CASE Submit \/ Damage \/ UNCHANGED vars
    BY <1>1 DEF Submit, Damage, vars, ram
  <1>2. CASE LiveSettled \/ QueueEmpty \/ PeekFails \/ NotDue
    BY <1>2 DEF LiveSettled, QueueEmpty, PeekFails, NotDue, ToApp, ram
  <1>3. ASSUME NEW hint \in Hints, LiveRetryLater(hint) \/ DrainRetryLater(hint)
        PROVE  DrainTypes'
    BY <1>3 DEF LiveRetryLater, DrainRetryLater, ToApp
  <1>4. ASSUME NEW n \in 1..MaxDrain, DrainUpTo(n) PROVE DrainTypes'
    BY <1>4 DEF DrainUpTo, ram
  <1>5. CASE DropCorruptFrontRecord
    BY <1>5 DEF DropCorruptFrontRecord, CanDropCorruptFrontRecord, Continue, ToApp
  <1>6. CASE DrainSendStart
    BY <1>6 DEF DrainSendStart, RecordDrainAttempt, DrainRateAllows
  <1>7. CASE DrainSettled
    BY <1>7 DEF DrainSettled, Continue, ToApp
  <1>8. CASE Tick
    BY <1>8 DEF Tick, Less
  <1>9. CASE PowerLoss
    BY <1>9 DEF PowerLoss, ToApp
  <1> QED
    BY <1>1, <1>2, <1>3, <1>4, <1>5, <1>6, <1>7, <1>8, <1>9
    DEF Next, Settled, RetryLater, Drain, Return

LEMMA OtherTypesStep ==
  ASSUME OtherTypes, queue \in Seq(Payload), [Next]_vars
  PROVE  OtherTypes'
  <1> USE OutboxConstants DEF OtherTypes
  <1>1. trouble' \in 0..MaxTrouble
    <2>1. trouble' = trouble \/ (trouble < MaxTrouble /\ trouble' = trouble + 1)
      <3>1. CASE Submit \/ Settled \/ Drain \/ Return \/ UNCHANGED vars
        BY <3>1 DEF Submit, Enqueue, EnqueueFails, Settled, LiveSettled, DrainSettled, Drain,
                    DrainUpTo, Return, QueueEmpty, PeekFails, DropCorruptFrontRecord, NotDue,
                    Fault, vars
      <3>2. CASE RetryLater \/ DrainSendStart \/ Tick \/ Damage \/ PowerLoss
        BY <3>2 DEF RetryLater, LiveRetryLater, EnqueueFails, DrainRetryLater, DrainSendStart,
                    Tick, Damage, PowerLoss, Fault
      <3> QED
        BY <3>1, <3>2 DEF Next
    <2> QED
      BY <2>1
  <1>2. policy' = policy
    <2>1. CASE Submit \/ Settled \/ Drain \/ Return \/ RetryLater
      BY <2>1 DEF Submit, Settled, Drain, Return, RetryLater, LiveSettled, DrainSettled,
                  DrainUpTo, QueueEmpty, PeekFails, DropCorruptFrontRecord, NotDue,
                  LiveRetryLater, DrainRetryLater
    <2>2. CASE DrainSendStart \/ Tick \/ Damage \/ PowerLoss \/ UNCHANGED vars
      BY <2>2 DEF DrainSendStart, Tick, Damage, PowerLoss, vars
    <2> QED
      BY <2>1, <2>2 DEF Next
  <1>3. damaged' \subseteq Payload
    <2>1. CASE Damage
      <3>1. \A p \in Range(queue) : p \in Payload
        BY DEF Range
      <3> QED
        BY <2>1, <3>1 DEF Damage
    <2>2. CASE Submit \/ Settled \/ Drain \/ Return \/ RetryLater
      BY <2>2 DEF Submit, Settled, Drain, Return, RetryLater, LiveSettled, DrainSettled,
                  DrainUpTo, QueueEmpty, PeekFails, DropCorruptFrontRecord, NotDue,
                  LiveRetryLater, DrainRetryLater
    <2>3. CASE DrainSendStart \/ Tick \/ PowerLoss \/ UNCHANGED vars
      BY <2>3 DEF DrainSendStart, Tick, PowerLoss, vars
    <2> QED
      BY <2>1, <2>2, <2>3 DEF Next
  <1> QED
    BY <1>1, <1>2, <1>3

LEMMA TypesStep == TypesInv /\ [Next]_vars => TypesInv'
  <1> SUFFICES ASSUME TypesInv, [Next]_vars PROVE TypesInv'
    OBVIOUS
  <1>1. AttemptsInv /\ AttemptsInv' /\ queue \in Seq(Payload)
    BY AttemptsStep DEF TypesInv, AttemptsInv, OrderInv, DeliveryInv, QueueTypes
  <1>2. DrainTypes' /\ OtherTypes'
    BY <1>1, DrainTypesStep, OtherTypesStep DEF TypesInv
  <1>3. sending' \in 0..MaxPayloads
    <2>1. /\ pc' \in {"app", "drain"} => sending' = 0
          /\ pc' = "live" => sending' \in Payload
          /\ pc' \in {"app", "drain", "live", "retry"}
      BY <1>1 DEF AttemptsInv, OrderInv, Numbered, DeliveryInv, QueueTypes
    <2>2. pc' = "retry" => sending' \in Payload
      BY <1>1 DEF AttemptsInv, OrderInv, DeliveryInv, QueueTypes, FrontIsSent
    <2> QED
      BY <2>1, <2>2, OutboxConstants DEF Payload
  <1> QED
    BY <1>1, <1>2, <1>3 DEF TypesInv
-----------------------------------------------------------------------------
(* The delays computeRetryDelay() can return, and the record they hold back. *)

Twice(d) == IF d < MaxRetryDelay THEN 2 * d ELSE d

LEMMA DoublingExists ==
  \E f \in [Nat -> Nat] :
      f[0] = InitialRetryDelay /\ \A n \in Nat : f[n + 1] = Twice(f[n])
  <1> DEFINE S == Nat
             G == [d \in S |-> Twice(d)]
  <1>1. InitialRetryDelay \in Nat /\ MaxRetryDelay \in Nat
    BY OutboxConstants
  <1>2. \A d \in S : Twice(d) \in S
    BY <1>1 DEF Twice
  <1>3. InitialRetryDelay \in S
    BY <1>1
  <1> HIDE DEF S
  <1>4. G \in [S -> S] /\ \A d \in S : G[d] = Twice(d)
    BY <1>2
  <1> HIDE DEF G
  <1>5. \E f \in [Nat -> S] : f[0] = InitialRetryDelay /\ \A n \in Nat : f[n + 1] = G[f[n]]
    <2>1. G \in [S -> S]
      BY <1>4
    <2> QED
      BY ONLY <1>3, <2>1, Recursion
  <1> QED
    BY <1>4, <1>5 DEF S

\* The doubling loop is well defined and stays within the naturals.
LEMMA DoublingIsNatural == Doubled \in [Nat -> Nat]
  <1> DEFINE T(g) == [n \in Nat |-> IF n = 0 THEN InitialRetryDelay
                                    ELSE IF g[n - 1] < MaxRetryDelay THEN 2 * g[n - 1] ELSE g[n - 1]]
  <1>1. InitialRetryDelay \in Nat /\ MaxRetryDelay \in Nat
    BY OutboxConstants
  <1>2. PICK f \in [Nat -> Nat] :
            f[0] = InitialRetryDelay /\ \A n \in Nat : f[n + 1] = Twice(f[n])
    BY DoublingExists
  <1>3. f = T(f)
    <2>1. ASSUME NEW n \in Nat PROVE f[n] = T(f)[n]
      <3>1. CASE n = 0
        BY <1>2, <3>1
      <3>2. CASE n # 0
        <4>1. n - 1 \in Nat /\ n - 1 + 1 = n
          BY <3>2
        <4>2. f[n] = Twice(f[n - 1])
          BY <1>2, <4>1
        <4> QED
          BY <3>2, <4>2 DEF Twice
      <3> QED
        BY <3>1, <3>2
    <2>2. DOMAIN T(f) = Nat /\ DOMAIN f = Nat
      OBVIOUS
    <2>3. T(f) = [n \in Nat |-> T(f)[n]] /\ f = [n \in Nat |-> f[n]]
      OBVIOUS
    <2> HIDE DEF T
    <2> QED
      BY <2>1, <2>3
  <1>4. Doubled = T(Doubled)
    <2>1. Doubled = CHOOSE g : g = T(g)
      BY DEF Doubled
    <2> HIDE DEF T
    <2> QED
      BY <1>3, <2>1
  <1>5. \A n \in Nat : Doubled[n] = IF n = 0 THEN InitialRetryDelay ELSE Twice(Doubled[n - 1])
    BY <1>4 DEF Twice
  <1> DEFINE Typed == {n \in Nat : Doubled[n] \in Nat}
  <1>6. Nat \subseteq Typed
    <2>1. 0 \in Typed
      BY <1>1, <1>5
    <2>2. ASSUME NEW n \in Nat, n \in Typed PROVE n + 1 \in Typed
      <3>1. Doubled[n + 1] = Twice(Doubled[n])
        BY <1>5
      <3> QED
        BY <1>1, <2>2, <3>1 DEF Twice
    <2> HIDE DEF Typed
    <2> QED
      BY <2>1, <2>2, Induction
  <1>7. Doubled = [n \in Nat |-> Doubled[n]]
    <2> HIDE DEF Typed
    <2> QED BY <1>4
  <1> QED
    BY <1>6, <1>7

\* Every delay is a natural and within the configured maximum: hints, doubling and
\* jitter (outbox.cpp) included.
LEMMA DelaysBounded ==
  ASSUME NEW exponent \in Nat, NEW hint \in Hints
  PROVE  RetryDelays(exponent, hint) \subseteq 0..MaxRetryDelay
  <1>1. MaxRetryDelay \in Nat /\ hint \in Nat /\ JitterPct \in Nat
    BY OutboxConstants
  <1>2. Base(exponent, hint) \in 0..MaxRetryDelay
    BY <1>1, DoublingIsNatural DEF Base, Least
  <1> DEFINE base == Base(exponent, hint)
             range == (base * JitterPct) \div 100
  <1>3. range \in Nat
    <2>1. base * JitterPct \in Nat
      BY <1>1, <1>2
    <2> HIDE DEF base
    <2> QED
      BY <2>1
  <1> HIDE DEF base
  <1>4. ASSUME NEW sample \in Nat PROVE Jittered(base, range, sample) \in 0..MaxRetryDelay
    <2> HIDE DEF range
    <2>1. base \in 0..MaxRetryDelay
      BY <1>2 DEF base
    <2> QED
      BY <1>1, <1>3, <2>1 DEF Jittered, Less, Least
  <1>5. RetryDelays(exponent, hint) = IF range = 0 THEN {base}
            ELSE {Jittered(base, range, sample) : sample \in 0..(2 * range - 1)}
    BY DEF RetryDelays, base
  <1> HIDE DEF range
  <1>6. \A sample \in 0..(2 * range - 1) : sample \in Nat
    BY <1>3
  <1> QED
    BY <1>2, <1>4, <1>5, <1>6 DEF base

\* What is left of a record's delay is at most what is left of the cooldown if it is
\* the front, and nothing if it is not; the callback runs when the cooldown is over.
DelayTypes ==
    /\ cooldown \in 0..MaxRetryDelay /\ wait \in [Payload -> Nat]
    /\ \A p \in Payload : p >= next => wait[p] = 0
    /\ pc = "retry" => cooldown = 0

HoldsBack ==
    ~fellBack => \A i \in 1..Len(queue) : wait[queue[i]] <= IF i = 1 THEN cooldown ELSE 0

DelayInv == TypesInv /\ DelayTypes /\ HoldsBack

LEMMA DelayFacts ==
  ASSUME DelayInv
  PROVE  /\ OrderInv /\ queue \in Seq(Payload) /\ next \in Nat /\ cooldown \in Nat
         /\ wait \in [Payload -> Nat] /\ age \in Nat /\ MaxRetryDelay \in Nat
         /\ frontAttempts \in 0..AttemptsLimit /\ (pc = "retry" => queue # <<>> /\ sending = Head(queue))
         /\ \A i \in 1..Len(queue) : queue[i] \in Payload
         /\ pc = "live" => sending \in Payload /\ sending < next /\ (~fellBack => queue = <<>>)
  <1>1. OrderInv /\ DrainTypes /\ DelayTypes /\ MaxRetryDelay \in Nat /\ frontAttempts \in 0..AttemptsLimit
    BY OutboxConstants DEF DelayInv, TypesInv, AttemptsInv
  <1>2. queue \in Seq(Payload) /\ next \in Nat /\ (pc = "retry" => queue # <<>> /\ sending = Head(queue))
    BY <1>1 DEF OrderInv, DeliveryInv, QueueTypes, Numbered, FrontIsSent
  <1>3. age \in Nat /\ cooldown \in Nat /\ wait \in [Payload -> Nat]
    BY <1>1 DEF DrainTypes, DelayTypes
  <1>4. pc = "live" => sending \in Payload /\ sending < next /\ (~fellBack => queue = <<>>)
    BY <1>1 DEF OrderInv, DeliveryInv, QueueTypes, Numbered, InOrder
  <1> QED
    BY <1>1, <1>2, <1>3, <1>4

\* The oldest records leave and take the cooldown with them, or nothing changes.
LEMMA TrimmedHolds ==
  ASSUME DelayInv, NEW k \in 0..Len(queue), Trimmed(k), UNCHANGED <<wait, fellBack>>,
         cooldown' \in Nat, k = 0 => cooldown' = cooldown
  PROVE  HoldsBack'
  <1> SUFFICES ASSUME ~fellBack, NEW i \in 1..Len(queue')
               PROVE  wait[queue'[i]] <= IF i = 1 THEN cooldown' ELSE 0
    BY DEF HoldsBack
  <1>1. /\ queue \in Seq(Payload) /\ wait \in [Payload -> Nat] /\ cooldown \in Nat
        /\ \A j \in 1..Len(queue) : queue[j] \in Payload
    BY DelayFacts
  <1>2. Len(queue') = Len(queue) - k /\ queue'[i] = queue[k + i]
    BY <1>1, RestAscends DEF Trimmed, Rest
  <1>3. k + i \in 1..Len(queue) /\ Len(queue) \in Nat /\ (k + i = 1 => k = 0 /\ i = 1)
    BY <1>1, <1>2
  <1>4. wait[queue[k + i]] <= IF k + i = 1 THEN cooldown ELSE 0
    BY <1>3 DEF DelayInv, HoldsBack
  <1>5. wait[queue[k + i]] \in Nat
    BY <1>1, <1>3
  <1> QED
    BY <1>1, <1>2, <1>3, <1>4, <1>5

\* A record joins that no delay holds back.
LEMMA ExtendedHolds ==
  ASSUME DelayInv, NEW k \in 0..Len(queue), NEW p \in Payload, Extended(k, p), wait[p] = 0,
         UNCHANGED <<wait, fellBack, cooldown>>
  PROVE  HoldsBack'
  <1> SUFFICES ASSUME ~fellBack, NEW i \in 1..Len(queue')
               PROVE  wait[queue'[i]] <= IF i = 1 THEN cooldown ELSE 0
    BY DEF HoldsBack
  <1>1. /\ queue \in Seq(Payload) /\ wait \in [Payload -> Nat] /\ cooldown \in Nat
        /\ \A j \in 1..Len(queue) : queue[j] \in Payload
    BY DelayFacts
  <1> DEFINE r == Rest(k)
  <1>2. r \in Seq(Payload) /\ Len(r) = Len(queue) - k /\ \A j \in 1..Len(r) : r[j] = queue[k + j]
    BY <1>1, RestAscends DEF Rest
  <1>3. queue' = Append(r, p)
    BY DEF Extended
  <1> HIDE DEF r
  <1>6. /\ Len(queue') = Len(r) + 1 /\ queue'[Len(r) + 1] = p /\ Len(r) \in Nat
        /\ \A j \in 1..Len(r) : queue'[j] = r[j]
    <2>1. r \in Seq(Payload)
      BY <1>2
    <2> QED
      BY <1>3, <2>1
  <1>4. CASE i = Len(r) + 1
    <2>1. queue'[i] = p
      BY <1>4, <1>6
    <2> QED
      BY <1>1, <2>1
  <1>5. CASE i # Len(r) + 1
    <2>1. i \in 1..Len(r) /\ queue'[i] = r[i]
      BY <1>5, <1>6
    <2>2. k + i \in 1..Len(queue) /\ queue'[i] = queue[k + i] /\ (k + i = 1 => i = 1)
      BY <1>1, <1>2, <2>1
    <2>3. wait[queue[k + i]] <= IF k + i = 1 THEN cooldown ELSE 0
      BY <2>2 DEF DelayInv, HoldsBack
    <2>4. wait[queue[k + i]] \in Nat
      BY <1>1, <2>2
    <2> QED
      BY <1>1, <2>1, <2>2, <2>3, <2>4
  <1> QED
    BY <1>4, <1>5

LEMMA DelayStart == Init => DelayInv
  <1> SUFFICES ASSUME Init PROVE DelayInv
    OBVIOUS
  <1>1. DelayTypes
    BY OutboxConstants DEF Init, InitWith, DelayTypes
  <1>2. HoldsBack
    BY DEF Init, InitWith, HoldsBack
  <1> QED
    BY <1>1, <1>2, TypesStart DEF DelayInv

\* submit(): what it queues has not been tried.
LEMMA DelaySubmit == ASSUME DelayInv, Submit PROVE DelayTypes' /\ HoldsBack'
  <1>1. /\ next \in Payload /\ next' = next + 1 /\ UNCHANGED <<wait, cooldown>> /\ pc' # "retry"
    BY DEF Submit, ram
  <1>2. /\ DelayTypes /\ next \in Nat /\ OrderInv /\ queue \in Seq(Payload) /\ cooldown \in Nat
    BY DelayFacts DEF DelayInv
  <1>3. DelayTypes'
    BY <1>1, <1>2 DEF DelayTypes, Payload
  <1>4. CASE Enqueue(next) /\ fellBack' = fellBack
    <2>1. PICK k \in 0..Len(queue) : Extended(k, next) \/ Trimmed(k)
      BY <1>1, <1>2, <1>4, EnqueueShape DEF Enqueue
    <2>2. wait[next] = 0
      BY <1>1, <1>2 DEF DelayTypes
    <2> QED
      BY <1>1, <1>2, <1>3, <1>4, <2>1, <2>2, TrimmedHolds, ExtendedHolds
  <1>5. CASE queue' = queue /\ (~fellBack' => ~fellBack)
    <2>1. ~fellBack' => \A i \in 1..Len(queue) : wait[queue[i]] <= IF i = 1 THEN cooldown ELSE 0
      BY <1>5 DEF DelayInv, HoldsBack
    <2>2. HoldsBack'
      BY <1>1, <1>5, <2>1 DEF HoldsBack
    <2> QED
      BY <1>3, <2>2
  <1>6. \/ Enqueue(next) /\ fellBack' = fellBack
        \/ queue' = queue /\ fellBack' = fellBack
        \/ queue' = queue /\ fellBack' = (fellBack \/ queue # <<>>)
    BY Zenon DEF Submit
  <1> QED
    BY <1>3, <1>4, <1>5, <1>6

\* A live send that failed arms the cooldown of a record that is the whole queue.
LEMMA DelayLive ==
  ASSUME DelayInv, NEW hint \in Hints, LiveRetryLater(hint)
  PROVE  DelayTypes' /\ HoldsBack'
  <1>1. /\ pc = "live" /\ pc' = "app" /\ UNCHANGED <<next, fellBack>>
    BY DEF LiveRetryLater, ToApp
  <1>2. /\ sending \in Payload /\ sending < next /\ (~fellBack => queue = <<>>) /\ next \in Nat
        /\ DelayTypes /\ queue \in Seq(Payload)
    BY <1>1, DelayFacts DEF DelayInv
  <1>3. PICK delay \in RetryDelays(0, hint) :
            \/ /\ EnqueueOk(sending) /\ wait' = [wait EXCEPT ![sending] = delay]
               /\ \/ queue = <<>> /\ cooldown' = delay
                  \/ queue # <<>> /\ cooldown' \in {cooldown, delay}
            \/ EnqueueFails /\ UNCHANGED <<cooldown, wait>>
    BY DEF LiveRetryLater, ArmFirst
  <1>4. delay \in 0..MaxRetryDelay
    BY DelaysBounded
  <1>5. DelayTypes'
    <2>1. sending \in Nat /\ cooldown' \in 0..MaxRetryDelay
      BY <1>2, <1>3, <1>4 DEF DelayTypes, Payload
    <2>2. wait' = wait \/ wait' = [wait EXCEPT ![sending] = delay]
      BY <1>3
    <2>3. delay \in Nat /\ wait \in [Payload -> Nat]
      BY <1>2, <1>4 DEF DelayTypes
    <2>4. wait' \in [Payload -> Nat]
      BY <2>2, <2>3
    <2>5. ASSUME NEW p \in Payload, p >= next PROVE wait'[p] = 0
      <3>1. p # sending /\ wait[p] = 0
        BY <1>2, <2>1, <2>5 DEF DelayTypes
      <3> QED
        BY <2>2, <2>3, <3>1
    <2> QED
      BY <1>1, <2>1, <2>4, <2>5 DEF DelayTypes
  <1>6. ASSUME ~fellBack, EnqueueOk(sending), wait' = [wait EXCEPT ![sending] = delay],
               cooldown' = delay
        PROVE  HoldsBack'
    <2>1. queue' = <<sending>>
      <3>1. Evictions \subseteq {0} /\ Rest(0) = <<>> /\ Append(<<>>, sending) = <<sending>>
        BY <1>2, <1>6 DEF Evictions, Rest
      <3> QED
        BY <1>6, <3>1 DEF EnqueueOk
    <2>2. wait'[sending] = delay /\ delay \in Nat
      BY <1>2, <1>4, <1>6 DEF DelayTypes
    <2> QED
      BY <1>6, <2>1, <2>2 DEF HoldsBack
  <1>7. ASSUME ~fellBack, EnqueueFails PROVE queue' = <<>>
    <2>1. Evictions \cup {0} \subseteq {0} /\ Rest(0) = queue
      BY <1>2, <1>7 DEF Evictions, Rest
    <2> QED
      BY <1>2, <1>7, <2>1 DEF EnqueueFails
  <1>8. HoldsBack'
    BY <1>1, <1>2, <1>3, <1>6, <1>7 DEF HoldsBack
  <1> QED
    BY <1>5, <1>8

\* drainOne(): the delay of the front is the cooldown, whatever time the send took.
LEMMA DelayRetry ==
  ASSUME DelayInv, NEW hint \in Hints, DrainRetryLater(hint)
  PROVE  DelayTypes' /\ HoldsBack'
  <1>1. /\ pc = "retry" /\ pc' = "app" /\ UNCHANGED <<next, fellBack, queue>>
        /\ frontAttempts' = CountAttempt(frontAttempts)
    BY DEF DrainRetryLater, ToApp
  <1>2. /\ queue \in Seq(Payload) /\ queue # <<>> /\ sending = Head(queue) /\ next \in Nat
        /\ age \in Nat /\ OrderInv /\ DelayTypes /\ frontAttempts \in 0..AttemptsLimit
        /\ \A i \in 1..Len(queue) : queue[i] \in Payload
    BY <1>1, DelayFacts DEF DelayInv
  <1>3. 1 \in 1..Len(queue) /\ sending = queue[1] /\ sending \in Payload
    BY <1>2
  <1>4. frontAttempts' - 1 \in Nat
    <2>1. AttemptsLimit \in Nat \ {0}
      BY OutboxConstants
    <2> QED
      BY <1>1, <1>2, <2>1 DEF CountAttempt
  <1>5. PICK delay \in RetryDelays(frontAttempts' - 1, hint) :
            cooldown' = Less(delay, age) /\ wait' = [wait EXCEPT ![sending] = Less(delay, age)]
    BY DEF DrainRetryLater, CooldownFrom
  <1>6. delay \in 0..MaxRetryDelay
    BY <1>4, DelaysBounded
  <1>7. Less(delay, age) \in 0..MaxRetryDelay
    <2>1. MaxRetryDelay \in Nat
      BY OutboxConstants
    <2> QED
      BY <1>2, <1>6, <2>1 DEF Less
  <1>8. sending < next
    BY <1>2, <1>3 DEF OrderInv, Numbered
  <1>9. DelayTypes'
    BY <1>1, <1>2, <1>3, <1>5, <1>7, <1>8 DEF DelayTypes, Payload
  <1>10. ASSUME ~fellBack, NEW i \in 1..Len(queue) PROVE wait'[queue[i]] <= IF i = 1 THEN cooldown' ELSE 0
    <2>1. CASE i = 1
      BY <1>2, <1>3, <1>5, <1>7, <2>1 DEF DelayTypes
    <2>2. CASE i # 1
      <3>1. queue[1] < queue[i]
        BY <1>2, <1>3, <1>10, <2>2 DEF OrderInv, InOrder, Ascending
      <3>2. queue[1] \in Nat /\ queue[i] \in Nat
        BY <1>2, <1>3, InPayload
      <3>3. wait'[queue[i]] = wait[queue[i]]
        BY <1>2, <1>3, <1>5, <3>1, <3>2 DEF DelayTypes
      <3> QED
        BY <1>10, <2>2, <3>3 DEF DelayInv, HoldsBack
    <2> QED
      BY <2>1, <2>2
  <1> QED
    BY <1>1, <1>9, <1>10 DEF HoldsBack

LEMMA DelayTick == ASSUME DelayInv, Tick PROVE DelayTypes' /\ HoldsBack'
  <1>1. /\ wait' = [p \in Payload |-> Less(wait[p], 1)] /\ cooldown' = Less(cooldown, 1)
        /\ UNCHANGED <<queue, pc, next, fellBack>>
    BY DEF Tick
  <1>2. /\ DelayTypes /\ wait \in [Payload -> Nat] /\ cooldown \in Nat /\ MaxRetryDelay \in Nat
        /\ \A i \in 1..Len(queue) : queue[i] \in Payload
    BY DelayFacts DEF DelayInv
  <1>3. DelayTypes'
    BY <1>1, <1>2 DEF DelayTypes, Less
  <1>4. ASSUME ~fellBack, NEW i \in 1..Len(queue) PROVE wait'[queue[i]] <= IF i = 1 THEN cooldown' ELSE 0
    <2>1. wait[queue[i]] <= IF i = 1 THEN cooldown ELSE 0
      BY <1>4 DEF DelayInv, HoldsBack
    <2>2. wait'[queue[i]] = Less(wait[queue[i]], 1) /\ wait[queue[i]] \in Nat
      BY <1>1, <1>2
    <2> QED
      BY <1>1, <1>2, <2>1, <2>2 DEF Less
  <1> QED
    BY <1>1, <1>3, <1>4 DEF HoldsBack

LEMMA DelayStep == DelayInv /\ [Next]_vars => DelayInv'
  <1> SUFFICES ASSUME DelayInv, [Next]_vars PROVE DelayInv'
    OBVIOUS
  <1>1. TypesInv'
    BY TypesStep DEF DelayInv
  <1> SUFFICES DelayTypes' /\ HoldsBack'
    BY <1>1 DEF DelayInv
  <1>2. /\ DelayTypes /\ HoldsBack /\ queue \in Seq(Payload) /\ cooldown \in Nat /\ MaxRetryDelay \in Nat
        /\ (pc = "retry" => queue # <<>>)
    BY DelayFacts DEF DelayInv
  <1>3. ASSUME NEW hint \in Hints, LiveRetryLater(hint) PROVE DelayTypes' /\ HoldsBack'
    BY <1>3, DelayLive
  <1>4. ASSUME NEW hint \in Hints, DrainRetryLater(hint) PROVE DelayTypes' /\ HoldsBack'
    BY <1>4, DelayRetry
  <1>5. CASE LiveSettled \/ Drain \/ PeekFails \/ NotDue \/ DrainSendStart \/ Damage \/ UNCHANGED vars
    <2>1. UNCHANGED <<queue, wait, cooldown, next, fellBack>>
      BY <1>5 DEF LiveSettled, Drain, DrainUpTo, PeekFails, NotDue, DrainSendStart, Damage,
                  vars, ram, seen
    <2>2. pc' = "retry" => cooldown = 0
      BY <1>2, <1>5 DEF LiveSettled, Drain, DrainUpTo, PeekFails, NotDue, DrainSendStart, Damage,
                  vars, ToApp, FrontIsCoolingDown, DelayTypes
    <2> QED
      BY <1>2, <2>1, <2>2 DEF DelayTypes, HoldsBack
  <1>6. CASE DrainSettled \/ DropCorruptFrontRecord
    <2>1. /\ queue # <<>> /\ UNCHANGED <<wait, next, fellBack>> /\ pc' \in {"app", "drain"}
          /\ \/ queue' = Rest(1) /\ cooldown' = 0
             \/ UNCHANGED <<queue, cooldown>>
      BY <1>2, <1>6 DEF DrainSettled, DropCorruptFrontRecord, FrontCorrupt, ClearFrontCooldown,
                        Continue, ToApp
    <2>2. DelayTypes'
      BY <1>2, <2>1 DEF DelayTypes
    <2>3. CASE queue' = Rest(1) /\ cooldown' = 0
      <3>1. 1 \in 0..Len(queue) /\ Trimmed(1)
        BY <1>2, <2>1, <2>3 DEF Trimmed
      <3> QED
        BY <2>1, <2>2, <2>3, <3>1, TrimmedHolds
    <2>4. CASE UNCHANGED <<queue, cooldown>>
      BY <1>2, <2>1, <2>2, <2>4 DEF HoldsBack
    <2> QED
      BY <2>1, <2>3, <2>4
  <1>7. CASE QueueEmpty
    BY <1>2, <1>7 DEF QueueEmpty, ClearFrontCooldown, ToApp, seen, DelayTypes, HoldsBack
  <1>8. CASE PowerLoss
    <2>1. /\ wait' = [p \in Payload |-> 0] /\ cooldown' = 0 /\ next' = next /\ pc' = "app"
      BY <1>8 DEF PowerLoss, ToApp
    <2>2. \A i \in 1..Len(queue') : queue'[i] \in Payload
      BY <1>1 DEF TypesInv, AttemptsInv, OrderInv, DeliveryInv, QueueTypes
    <2> QED
      BY <1>2, <2>1, <2>2 DEF DelayTypes, HoldsBack
  <1> QED
    BY DelaySubmit, DelayTick, <1>3, <1>4, <1>5, <1>6, <1>7, <1>8
    DEF Next, Settled, RetryLater, Return

\* The outbox's state has its types, whatever happens: the attempts stop at the
\* counter's width (outbox.cpp:396), the rate window at its limit and the cooldown at
\* maxRetryDelayMs, hints and jitter included.
THEOREM OutboxTypesHold == Spec => []TypeOK
  <1>1. DelayInv => TypeOK
    BY DEF DelayInv, DelayTypes, TypesInv, AttemptsInv, OrderInv, DeliveryInv, QueueTypes,
           DrainTypes, OtherTypes, TypeOK
  <1> QED
    BY <1>1, DelayStart, DelayStep, PTL DEF Spec

\* No record is sent again before the delay it asked for is over, whatever doubling,
\* hint and jitter made of it: the cooldown always belongs to the front
\* (outbox.cpp, drainOne() and armFrontCooldown()).
THEOREM NoRetryComesEarly == Spec => []RetryNotEarly
  <1>1. DelayInv => RetryNotEarly
    <2> SUFFICES ASSUME DelayInv, ~fellBack, pc = "retry" PROVE wait[sending] = 0
      BY DEF RetryNotEarly
    <2>1. /\ queue \in Seq(Payload) /\ queue # <<>> /\ sending = Head(queue) /\ cooldown = 0
          /\ wait \in [Payload -> Nat] /\ HoldsBack
      BY DelayFacts DEF DelayInv, DelayTypes
    <2>2. 1 \in 1..Len(queue) /\ sending = queue[1] /\ sending \in Payload
      BY <2>1
    <2>3. wait[sending] <= 0 /\ wait[sending] \in Nat
      BY <2>1, <2>2 DEF HoldsBack
    <2> QED
      BY <2>3
  <1> QED
    BY <1>1, DelayStart, DelayStep, PTL DEF Spec
-----------------------------------------------------------------------------
(* The rate limit: attempts by age, and those of the window in force.         *)

\* The first k values of f, summed up.
Total(f, k) == SumFunctionOnSet(f, 0..(k - 1))

LEMMA TotalOfNone == ASSUME NEW f PROVE Total(f, 0) = 0
  <1>1. 0..(0 - 1) = {}
    OBVIOUS
  <1> QED
    BY <1>1, SumOfNone DEF Total

LEMMA TotalIsNatural ==
  ASSUME NEW n \in Nat, NEW f \in [0..(n - 1) -> Nat], NEW k \in 0..n
  PROVE  Total(f, k) \in Nat
  <1>1. IsFiniteSet(0..(k - 1))
    BY FS_Interval
  <1>2. \A x \in 0..(k - 1) : f[x] \in Nat
    OBVIOUS
  <1> QED
    BY <1>1, <1>2, SumIsNatural DEF Total

LEMMA TotalOfNext ==
  ASSUME NEW n \in Nat, NEW f \in [0..(n - 1) -> Nat], NEW k \in Nat, k < n
  PROVE  Total(f, k + 1) = f[k] + Total(f, k) /\ f[k] \in Nat
  <1>1. IsFiniteSet(0..k)
    BY FS_Interval
  <1>2. \A x \in 0..k : f[x] \in Nat
    OBVIOUS
  <1>3. (0..k) \ {k} = 0..(k - 1) /\ k \in 0..k /\ 0..(k + 1 - 1) = 0..k
    OBVIOUS
  <1>4. SumFunctionOnSet(f, 0..k) = f[k] + SumFunctionOnSet(f, (0..k) \ {k})
    BY <1>1, <1>2, <1>3, SumTakeOut
  <1>5. Total(f, k + 1) = SumFunctionOnSet(f, 0..k) /\ Total(f, k) = SumFunctionOnSet(f, 0..(k - 1))
    BY <1>3 DEF Total
  <1> QED
    BY <1>2, <1>3, <1>4, <1>5

\* One clock unit later every attempt is one unit older.
LEMMA TotalShifts ==
  ASSUME NEW n \in Nat \ {0}, NEW f \in [0..(n - 1) -> Nat], NEW g \in [0..(n - 1) -> Nat],
         g[0] = 0, \A a \in 0..(n - 1) : a # 0 => g[a] = f[a - 1]
  PROVE  \A k \in Nat : k < n => Total(g, k + 1) = Total(f, k)
  <1> DEFINE Holds == {k \in Nat : k < n => Total(g, k + 1) = Total(f, k)}
  <1>2. 0 \in Holds
    <2>1. Total(g, 0 + 1) = g[0] + Total(g, 0)
      <3>1. 0 \in Nat /\ 0 < n
        OBVIOUS
      <3> QED
        BY <3>1, TotalOfNext
    <2>2. Total(g, 0) = 0 /\ Total(f, 0) = 0
      BY TotalOfNone
    <2> QED
      BY <2>1, <2>2
  <1>3. ASSUME NEW k \in Nat, k \in Holds PROVE k + 1 \in Holds
    <2>1. ASSUME k + 1 < n PROVE Total(g, k + 1 + 1) = Total(f, k + 1)
      <3>1. k + 1 \in Nat /\ k < n /\ k + 1 \in 0..(n - 1)
        BY <2>1
      <3>2. \A m \in Nat : m < n => Total(g, m + 1) = g[m] + Total(g, m)
        BY TotalOfNext
      <3>3. Total(f, k + 1) = f[k] + Total(f, k)
        BY <3>1, TotalOfNext
      <3>4. g[k + 1] = f[k]
        BY <3>1
      <3>5. Total(g, k + 1) = Total(f, k)
        BY <1>3, <3>1
      <3> QED
        BY <2>1, <3>1, <3>2, <3>3, <3>4, <3>5
    <2> QED
      BY <2>1
  <1>4. Nat \subseteq Holds
    <2> HIDE DEF Holds
    <2> QED
      BY <1>2, <1>3, Induction
  <1> QED
    BY <1>4

\* A new attempt has age 0.
LEMMA TotalOfOneMore ==
  ASSUME NEW n \in Nat \ {0}, NEW f \in [0..(n - 1) -> Nat], NEW g \in [0..(n - 1) -> Nat],
         g[0] = f[0] + 1, \A a \in 0..(n - 1) : a # 0 => g[a] = f[a]
  PROVE  \A k \in 0..n : Total(g, k) = Total(f, k) + IF k = 0 THEN 0 ELSE 1
  <1> DEFINE Holds == {k \in Nat : k <= n => Total(g, k) = Total(f, k) + IF k = 0 THEN 0 ELSE 1}
  <1>2. 0 \in Holds
    <2>1. Total(g, 0) = 0 /\ Total(f, 0) = 0
      BY TotalOfNone
    <2> QED
      BY <2>1
  <1>3. ASSUME NEW k \in Nat, k \in Holds PROVE k + 1 \in Holds
    <2>1. ASSUME k + 1 <= n PROVE Total(g, k + 1) = Total(f, k + 1) + 1
      <3>1. k < n /\ k \in 0..(n - 1) /\ k \in 0..n
        BY <2>1
      <3>2. Total(g, k + 1) = g[k] + Total(g, k) /\ Total(g, k) \in Nat /\ g[k] \in Nat
        BY <3>1, TotalOfNext, TotalIsNatural
      <3>3. Total(f, k + 1) = f[k] + Total(f, k) /\ Total(f, k) \in Nat /\ f[k] \in Nat
        BY <3>1, TotalOfNext, TotalIsNatural
      <3>4. Total(g, k) = Total(f, k) + IF k = 0 THEN 0 ELSE 1
        BY <1>3, <3>1
      <3>5. g[k] = f[k] + IF k = 0 THEN 1 ELSE 0
        BY <3>1, <3>3
      <3>6. CASE k = 0
        <4>1. g[k] = f[k] + 1 /\ Total(g, k) = Total(f, k)
          BY <3>3, <3>4, <3>5, <3>6
        <4> QED
          BY <3>2, <3>3, <4>1
      <3>7. CASE k # 0
        <4>1. g[k] = f[k] /\ Total(g, k) = Total(f, k) + 1
          BY <3>3, <3>4, <3>5, <3>7
        <4>2. Total(g, k + 1) = f[k] + (Total(f, k) + 1)
          BY <3>2, <4>1
        <4>3. f[k] + (Total(f, k) + 1) = (f[k] + Total(f, k)) + 1
          <5>1. \A x, y \in Nat : x + (y + 1) = (x + y) + 1
            OBVIOUS
          <5> QED
            BY ONLY <3>3, <5>1
        <4> QED
          BY <3>3, <4>2, <4>3
      <3> QED
        BY <3>6, <3>7
    <2>2. k + 1 # 0 /\ k + 1 \in Nat
      OBVIOUS
    <2> QED
      BY <2>1, <2>2
  <1>4. Nat \subseteq Holds
    <2> HIDE DEF Holds
    <2> QED
      BY <1>2, <1>3, Induction
  <1>5. \A k \in 0..n : k \in Nat /\ k <= n
    OBVIOUS
  <1> QED
    BY <1>4, <1>5

\* Without attempts there is nothing to add up.
LEMMA TotalOfZeros ==
  ASSUME NEW n \in Nat
  PROVE  Total([a \in 0..(n - 1) |-> 0], n) = 0
  <1> DEFINE f == [a \in 0..(n - 1) |-> 0]
             Holds == {k \in Nat : k <= n => Total(f, k) = 0}
  <1>1. f \in [0..(n - 1) -> Nat] /\ \A k \in 0..(n - 1) : f[k] = 0
    OBVIOUS
  <1> HIDE DEF f
  <1>2. 0 \in Holds
    BY TotalOfNone
  <1>3. ASSUME NEW k \in Nat, k \in Holds PROVE k + 1 \in Holds
    <2>1. ASSUME k + 1 <= n PROVE Total(f, k + 1) = 0
      <3>1. k < n /\ k \in 0..(n - 1)
        BY <2>1
      <3>2. Total(f, k + 1) = f[k] + Total(f, k)
        BY <1>1, <3>1, TotalOfNext
      <3> QED
        BY <1>1, <1>3, <3>1, <3>2
    <2> QED
      BY <2>1
  <1>4. Nat \subseteq Holds
    <2> HIDE DEF Holds
    <2> QED
      BY <1>2, <1>3, Induction
  <1>5. Total(f, n) = 0
    BY <1>4
  <1> QED
    BY <1>5 DEF f

\* A window's attempts are all younger than its first one, but for that one; when it
\* ends, that one has left the last Window units and the others have not.
RateInv ==
    /\ recent \in [0..(Window - 1) -> Nat]
    /\ windowUsed = 0 => Total(recent, Window) = 0
    /\ windowLeft = 0 => Total(recent, Window) <= MaxDrainAttempts - 1
    /\ windowUsed # 0 /\ windowLeft # 0 =>
          /\ Total(recent, Window - windowLeft) <= windowUsed - 1
          /\ Total(recent, Window) <= windowUsed + MaxDrainAttempts - 1

LEMMA RateConstants == Window \in Nat \ {0} /\ MaxDrainAttempts \in Nat \ {0}
  BY OutboxConstants

\* An attempt opens a window or joins the one in force.
LEMMA RateAttempt ==
  ASSUME DrainTypes, RateInv, DrainRateAllows, RecordDrainAttempt,
         recent' = [recent EXCEPT ![0] = @ + 1]
  PROVE  RateInv'
  <1>1. /\ windowLeft \in 0..Window /\ windowUsed \in 0..MaxDrainAttempts
        /\ Window \in Nat \ {0} /\ MaxDrainAttempts \in Nat \ {0}
        /\ recent \in [0..(Window - 1) -> Nat]
    BY RateConstants DEF DrainTypes, RateInv
  <1>2. /\ recent' \in [0..(Window - 1) -> Nat]
        /\ \A k \in 0..Window : Total(recent', k) = Total(recent, k) + IF k = 0 THEN 0 ELSE 1
    <2>1. 0 \in 0..(Window - 1) /\ recent[0] \in Nat
      BY <1>1
    <2>2. /\ recent' \in [0..(Window - 1) -> Nat] /\ recent'[0] = recent[0] + 1
          /\ \A a \in 0..(Window - 1) : a # 0 => recent'[a] = recent[a]
      BY <1>1, <2>1
    <2> QED
      BY <1>1, <2>2, TotalOfOneMore
  <1>6. \A k \in 0..Window : Total(recent, k) \in Nat
    BY <1>1, TotalIsNatural
  <1>3. Total(recent', Window) = Total(recent, Window) + 1 /\ Total(recent, Window) \in Nat
    <2>1. Window \in 0..Window /\ Window # 0
      BY <1>1
    <2> QED
      BY <1>2, <1>6, <2>1
  <1>4. CASE windowUsed = 0 \/ windowLeft = 0
    <2>1. windowLeft' = Window /\ windowUsed' = 1
      BY <1>4 DEF RecordDrainAttempt
    <2>2. Total(recent, Window) <= MaxDrainAttempts - 1
      BY <1>1, <1>4 DEF RateInv
    <2>3. Total(recent', Window - windowLeft') = 0
      BY <1>1, <2>1, TotalOfNone
    <2> QED
      BY <1>1, <1>2, <1>3, <2>1, <2>2, <2>3 DEF RateInv
  <1>5. CASE windowUsed # 0 /\ windowLeft # 0
    <2>1. windowUsed' = windowUsed + 1 /\ windowLeft' = windowLeft
      BY <1>5 DEF RecordDrainAttempt
    <2>2. Window - windowLeft \in 0..Window
      BY <1>1
    <2>3. /\ Total(recent', Window - windowLeft) <= Total(recent, Window - windowLeft) + 1
          /\ Total(recent', Window - windowLeft) \in Nat /\ Total(recent, Window - windowLeft) \in Nat
      <3>1. \A k \in 0..Window : /\ Total(recent', k) <= Total(recent, k) + 1
                                 /\ Total(recent', k) \in Nat /\ Total(recent, k) \in Nat
        <4>1. ASSUME NEW k \in 0..Window
              PROVE  Total(recent', k) <= Total(recent, k) + 1 /\ Total(recent', k) \in Nat
          <5>1. Total(recent, k) \in Nat
            BY <1>6
          <5>2. CASE k = 0
            <6>1. Total(recent', k) = 0 /\ Total(recent, k) = 0
              BY <5>2, TotalOfNone
            <6> QED
              BY <6>1
          <5>3. CASE k # 0
            <6>1. Total(recent', k) = Total(recent, k) + 1
              BY <1>2, <5>3
            <6> QED
              BY <5>1, <6>1
          <5> QED
            BY <5>2, <5>3
        <4> QED
          BY <1>6, <4>1
      <3> QED
        BY <2>2, <3>1
    <2>4. /\ Total(recent, Window - windowLeft) <= windowUsed - 1
          /\ Total(recent, Window) <= windowUsed + MaxDrainAttempts - 1
      BY <1>5 DEF RateInv
    <2>5. windowUsed' \in Nat \ {0} /\ windowLeft' # 0 /\ windowUsed \in Nat
      BY <1>1, <1>5, <2>1
    <2>6. Total(recent', Window - windowLeft') <= windowUsed' - 1
      <3>1. Total(recent', Window - windowLeft) <= windowUsed
        BY <2>3, <2>4, <2>5
      <3> QED
        BY <2>1, <2>5, <3>1
    <2>7. Total(recent', Window) <= windowUsed' + MaxDrainAttempts - 1
      BY <1>1, <1>3, <2>1, <2>4, <2>5
    <2> QED
      BY <1>2, <2>5, <2>6, <2>7 DEF RateInv
  <1> QED
    BY <1>4, <1>5

\* As a window ends, its first attempt leaves the last Window units.
LEMMA RateTick ==
  ASSUME DrainTypes, RateInv, Tick
  PROVE  RateInv'
  <1>1. /\ windowLeft \in 0..Window /\ windowUsed \in 0..MaxDrainAttempts
        /\ Window \in Nat \ {0} /\ MaxDrainAttempts \in Nat \ {0}
        /\ recent \in [0..(Window - 1) -> Nat]
    BY RateConstants DEF DrainTypes, RateInv
  <1>2. windowLeft' = Less(windowLeft, 1) /\ windowUsed' = windowUsed
        /\ recent' = [a \in 0..(Window - 1) |-> IF a = 0 THEN 0 ELSE recent[a - 1]]
    BY <1>1 DEF Tick
  <1>3. /\ recent' \in [0..(Window - 1) -> Nat]
        /\ \A k \in Nat : k < Window => Total(recent', k + 1) = Total(recent, k)
    <2>1. ASSUME NEW a \in 0..(Window - 1), a # 0 PROVE recent[a - 1] \in Nat
      <3>1. a - 1 \in 0..(Window - 1)
        BY <1>1, <2>1
      <3> QED
        BY <1>1, <3>1
    <2>2. /\ recent' \in [0..(Window - 1) -> Nat] /\ recent'[0] = 0
          /\ \A a \in 0..(Window - 1) : a # 0 => recent'[a] = recent[a - 1]
      BY <1>1, <1>2, <2>1
    <2> QED
      BY <1>1, <2>2, TotalShifts
  <1> DEFINE old == Total(recent, Window - 1)
  <1>4. /\ Total(recent', Window) = old /\ old <= Total(recent, Window) /\ old \in Nat
        /\ Total(recent, Window) \in Nat
    <2>1. Window - 1 \in Nat /\ Window - 1 < Window /\ Window - 1 + 1 = Window
          /\ Window - 1 \in 0..Window /\ Window \in 0..Window
      BY <1>1
    <2>2. Total(recent', Window) = old
      BY <1>3, <2>1
    <2>3. Total(recent, Window) = recent[Window - 1] + old /\ recent[Window - 1] \in Nat
      BY <1>1, <2>1, TotalOfNext
    <2>4. old \in Nat
      BY <1>1, <2>1, TotalIsNatural
    <2> HIDE DEF old
    <2> QED
      BY <2>2, <2>3, <2>4
  <1> HIDE DEF old
  <1>5. CASE windowUsed = 0 \/ windowLeft = 0
    <2>1. Total(recent, Window) <= MaxDrainAttempts - 1 /\ (windowUsed = 0 => Total(recent, Window) = 0)
      BY <1>1, <1>5 DEF RateInv
    <2>2. windowUsed' = 0 \/ windowLeft' = 0
      BY <1>2, <1>5 DEF Less
    <2> QED
      BY <1>1, <1>2, <1>3, <1>4, <2>1, <2>2 DEF RateInv
  <1>6. CASE windowUsed # 0 /\ windowLeft # 0
    <2>1. /\ Total(recent, Window - windowLeft) <= windowUsed - 1
          /\ Total(recent, Window) <= windowUsed + MaxDrainAttempts - 1
      BY <1>6 DEF RateInv
    <2>2. /\ windowLeft' = windowLeft - 1 /\ Window - windowLeft \in Nat /\ Window - windowLeft < Window
          /\ Window - windowLeft' = Window - windowLeft + 1
      BY <1>1, <1>2, <1>6 DEF Less
    <2>3. Total(recent', Window - windowLeft') = Total(recent, Window - windowLeft)
      BY <1>3, <2>2
    <2>4. windowLeft' = 0 => Total(recent', Window) <= windowUsed - 1
      BY <1>1, <2>1, <2>2, <2>3
    <2> QED
      BY <1>1, <1>2, <1>3, <1>4, <1>6, <2>1, <2>2, <2>3, <2>4 DEF RateInv
  <1> QED
    BY <1>5, <1>6

LEMMA RateStep == TypesInv /\ RateInv /\ [Next]_vars => RateInv'
  <1> SUFFICES ASSUME TypesInv, RateInv, [Next]_vars PROVE RateInv'
    OBVIOUS
  <1>1. DrainTypes
    BY DEF TypesInv
  <1>2. CASE DrainSendStart
    BY <1>1, <1>2, RateAttempt DEF DrainSendStart
  <1>3. CASE Tick
    BY <1>1, <1>3, RateTick
  <1>4. CASE PowerLoss
    <2>1. recent' = [a \in 0..(Window - 1) |-> 0] /\ windowUsed' = 0 /\ windowLeft' = 0
      BY <1>4 DEF PowerLoss, RateInv
    <2>2. Window \in Nat /\ MaxDrainAttempts \in Nat \ {0}
      BY RateConstants
    <2>3. Total(recent', Window) = 0
      BY <2>1, <2>2, TotalOfZeros
    <2> QED
      BY <2>1, <2>2, <2>3 DEF RateInv
  <1>5. ASSUME NEW hint \in Hints, LiveRetryLater(hint) \/ DrainRetryLater(hint)
        PROVE  UNCHANGED <<windowLeft, windowUsed, recent>>
    BY <1>5 DEF LiveRetryLater, DrainRetryLater
  <1>6. ASSUME Submit \/ Settled \/ Drain \/ Return \/ Damage \/ UNCHANGED vars
        PROVE  UNCHANGED <<windowLeft, windowUsed, recent>>
    BY <1>6 DEF Submit, Settled, LiveSettled, DrainSettled, Drain, DrainUpTo, Return, QueueEmpty,
                PeekFails, DropCorruptFrontRecord, NotDue, Damage, vars, ram, seen
  <1>7. ASSUME UNCHANGED <<windowLeft, windowUsed, recent>> PROVE RateInv'
    BY <1>7 DEF RateInv
  <1> QED
    BY <1>2, <1>3, <1>4, <1>5, <1>6, <1>7 DEF Next, RetryLater

\* Two drain windows may meet, and no Window units hold more attempts than both allow
\* less one: their first attempts are a whole window apart (outbox.cpp, drainRateAllows()).
THEOREM RateStaysBounded == Spec => []RateBounded
  <1>1. TypesInv /\ RateInv => RateBounded
    <2> SUFFICES ASSUME DrainTypes, RateInv PROVE RateBounded
      BY DEF TypesInv
    <2>1. /\ windowLeft \in 0..Window /\ windowUsed \in 0..MaxDrainAttempts
          /\ Window \in Nat \ {0} /\ MaxDrainAttempts \in Nat \ {0}
          /\ recent \in [0..(Window - 1) -> Nat]
      BY RateConstants DEF DrainTypes, RateInv
    <2>2. Total(recent, Window) \in Nat
      BY <2>1, TotalIsNatural
    <2>3. Total(recent, Window) <= 2 * MaxDrainAttempts - 1
      BY <2>1, <2>2 DEF RateInv
    <2>4. SumFunction(recent) = Total(recent, Window)
      <3>1. DOMAIN recent = 0..(Window - 1)
        BY <2>1
      <3> QED
        BY <3>1 DEF SumFunction, Total
    <2> QED
      BY <2>3, <2>4 DEF RateBounded
  <1>2. Init => TypesInv /\ RateInv
    <2> SUFFICES ASSUME Init PROVE RateInv
      BY TypesStart
    <2>1. recent = [a \in 0..(Window - 1) |-> 0] /\ windowUsed = 0 /\ windowLeft = 0
      BY DEF Init, InitWith
    <2>2. Window \in Nat /\ MaxDrainAttempts \in Nat \ {0}
      BY RateConstants
    <2>3. Total(recent, Window) = 0
      BY <2>1, <2>2, TotalOfZeros
    <2> QED
      BY <2>1, <2>2, <2>3 DEF RateInv
  <1>3. TypesInv /\ RateInv /\ [Next]_vars => (TypesInv /\ RateInv)'
    BY TypesStep, RateStep
  <1> QED
    BY <1>1, <1>2, <1>3, PTL DEF Spec

-----------------------------------------------------------------------------
(* The HTTP outbox takes the steps of the outbox underneath.                 *)

\* The transport is asked once a send; its answer is known until the callback returns.
AnswerInv ==
    Answered => /\ Sending /\ answer \in Answers
                /\ ~answer.error /\ Successful(answer.status) => sending \in delivered

HttpInv == DelayInv /\ AnswerInv

\* The store may hold a request of an earlier firmware, which counts as submitted.
LEMMA InheritedStart == ASSUME 1 \in Payload, InitWith(<< 1 >>) PROVE DelayInv
  <1> USE OutboxConstants
  <1>1. /\ queue = <<1>> /\ next = 2 /\ owed = {} /\ pc = "app" /\ sending = 0 /\ frontAttempts = 0
        /\ failures = [p \in Payload |-> 0] /\ wait = [p \in Payload |-> 0] /\ cooldown = 0
        /\ Len(queue) = 1 /\ queue[1] = 1 /\ queue \in Seq(Payload) /\ fellBack = FALSE
        /\ \A i \in 1..Len(queue) : i = 1
    BY DEF InitWith
  <1>2. DeliveryInv
    BY <1>1 DEF DeliveryInv, QueueTypes, FrontIsSent, OwedIsQueued
  <1>3. Numbered
    BY <1>1 DEF Numbered, Payload
  <1>4. InOrder
    BY <1>1 DEF InOrder, Ascending
  <1>5. Counted /\ frontAttempts \in 0..AttemptsLimit
    BY <1>1 DEF Counted
  <1>6. DrainTypes
    BY <1>1 DEF InitWith, DrainTypes
  <1>7. OtherTypes /\ sending \in 0..MaxPayloads
    BY <1>1 DEF InitWith, OtherTypes
  <1>8. DelayTypes
    BY <1>1 DEF DelayTypes
  <1>9. HoldsBack
    BY <1>1 DEF HoldsBack
  <1> QED
    BY <1>2, <1>3, <1>4, <1>5, <1>6, <1>7, <1>8, <1>9
    DEF DelayInv, TypesInv, AttemptsInv, OrderInv

LEMMA HttpStart == HttpInit => HttpInv
  <1> SUFFICES ASSUME HttpInit PROVE HttpInv
    OBVIOUS
  <1>1. AnswerInv
    BY DEF HttpInit, AnswerInv, Answered
  <1>2. CASE InitWith(<<>>)
    BY <1>1, <1>2, DelayStart DEF Init, HttpInv
  <1>3. CASE InitWith(<<1>>) /\ Inherited # {}
    BY <1>1, <1>3, InheritedStart, HttpConstants DEF HttpInv
  <1> QED
    BY <1>2, <1>3 DEF HttpInit

\* What the send callback decides is what the outbox does with it.
LEMMA StepBelow ==
  ASSUME AnswerInv, [HttpNext]_httpVars
  PROVE  [Next]_vars
  <1>1. ASSUME NEW r \in Requests, SubmitPost(r) PROVE Next
    BY <1>1 DEF SubmitPost, Next
  <1>2. ASSUME NEW r \in Requests, SubmitRefused(r) PROVE UNCHANGED vars
    BY <1>2 DEF SubmitRefused, httpVars
  <1>3. ASSUME NEW a \in Answers, PostRequest(a) PROVE UNCHANGED vars
    BY <1>3 DEF PostRequest
  <1>4. CASE RequestSent \/ RequestRejected \/ Unpostable
    BY <1>4 DEF RequestSent, RequestRejected, Unpostable, Next
  <1>5. CASE RequestRetryLater
    <2>1. answer.hint \in Hints
      BY <1>5, HttpConstants DEF RequestRetryLater, AnswerInv
    <2> QED
      BY <1>5, <2>1 DEF RequestRetryLater, RetryLater, Next
  <1>6. CASE Underneath \/ Reboot
    BY <1>6 DEF Underneath, Reboot, Next
  <1>7. CASE UNCHANGED httpVars
    BY <1>7 DEF httpVars
  <1> QED
    BY <1>1, <1>2, <1>3, <1>4, <1>5, <1>6, <1>7 DEF HttpNext, Posting, Deciding

LEMMA AnswerStep == AnswerInv /\ [HttpNext]_httpVars => AnswerInv'
  <1> SUFFICES ASSUME AnswerInv, [HttpNext]_httpVars PROVE AnswerInv'
    OBVIOUS
  <1>1. ASSUME NEW r \in Requests, SubmitPost(r) PROVE AnswerInv'
    <2>1. ~Answered /\ posted' = posted
      BY <1>1 DEF SubmitPost, Submit, AnswerInv, Sending
    <2> QED
      BY <2>1 DEF AnswerInv, Answered
  <1>2. ASSUME NEW a \in Answers, PostRequest(a) PROVE AnswerInv'
    <2>1. /\ Sending /\ answer' = a /\ UNCHANGED <<pc, sending>>
          /\ ~a.error /\ Successful(a.status) => sending \in delivered'
      BY <1>2 DEF PostRequest, vars
    <2> QED
      BY <2>1 DEF AnswerInv, Sending
  <1>3. CASE Deciding \/ Reboot
    BY <1>3 DEF Deciding, RequestSent, RequestRejected, RequestRetryLater, Unpostable, Reboot,
                Over, AnswerInv, Answered
  <1>4. CASE Underneath
    <2>1. UNCHANGED <<posted, answer, delivered>>
      BY <1>4 DEF Underneath
    <2>2. Sending => UNCHANGED <<pc, sending>>
      BY <1>4 DEF Underneath, Drain, DrainUpTo, Return, QueueEmpty, PeekFails, NotDue, Sending,
                  DropCorruptFrontRecord, DrainSendStart, Tick, Damage
    <2> QED
      BY <2>1, <2>2 DEF AnswerInv, Answered, Sending
  <1>5. CASE UNCHANGED httpVars \/ \E r \in Requests : SubmitRefused(r)
    BY <1>5 DEF SubmitRefused, httpVars, httpSeen, vars, AnswerInv, Answered, Sending
  <1> QED
    BY <1>1, <1>2, <1>3, <1>4, <1>5 DEF HttpNext, Posting

LEMMA HttpStep == HttpInv /\ [HttpNext]_httpVars => HttpInv'
  BY AnswerStep, StepBelow, DelayStep DEF HttpInv
-----------------------------------------------------------------------------
(* What becomes of a stored request.                                         *)

Accounted(p) == p \in delivered \cup reported \cup damaged
LossInv == policy = "RejectNewest" => \A p \in queued \ Range(queue) : Accounted(p)

\* It suffices that the records which leave are accounted for.
LEMMA LossKept ==
  ASSUME LossInv, Queued, policy' = policy,
         delivered \subseteq delivered', reported \subseteq reported', damaged \subseteq damaged',
         policy = "RejectNewest" => \A p \in Range(queue) \ Range(queue') : Accounted(p)'
  PROVE  LossInv'
  BY DEF LossInv, Queued, Accounted

LEMMA AppendKeeps ==
  ASSUME queue \in Seq(Payload), NEW p \in Payload, queue' = Append(queue, p)
  PROVE  Range(queue) \subseteq Range(queue')
  BY AppendRange

\* Only the front leaves when the oldest record does.
LEMMA PopTakesFront ==
  ASSUME queue \in Seq(Payload), queue # <<>>, queue' = Rest(1)
  PROVE  Range(queue) \ Range(queue') \subseteq {Head(queue)}
  <1> SUFFICES ASSUME NEW p \in Range(queue), p # Head(queue) PROVE p \in Range(queue')
    OBVIOUS
  <1>1. 1 \in 0..Len(queue) /\ p \notin {queue[i] : i \in 1..1}
    OBVIOUS
  <1> QED
    BY <1>1, RestKeeps DEF Rest

\* A rejecting queue keeps its records while a callback or submit() adds to them.
LEMMA SubmitLoses ==
  ASSUME OrderInv, policy = "RejectNewest", Submit
  PROVE  Range(queue) \subseteq Range(queue')
  <1>1. queue \in Seq(Payload) /\ next \in Payload
    BY DEF Submit, OrderInv, DeliveryInv, QueueTypes
  <1>2. CASE Enqueue(next)
    BY <1>1, <1>2, RejectingEnqueue, AppendKeeps DEF Enqueue
  <1>3. CASE queue' = queue
    BY <1>3
  <1> QED
    BY <1>2, <1>3 DEF Submit

LEMMA LiveLoses ==
  ASSUME OrderInv, policy = "RejectNewest", NEW hint \in Hints, LiveRetryLater(hint)
  PROVE  Range(queue) \subseteq Range(queue')
  <1>1. queue \in Seq(Payload) /\ sending \in Payload
    BY DEF LiveRetryLater, OrderInv, DeliveryInv, QueueTypes
  <1>2. EnqueueOk(sending) \/ EnqueueFails
    BY DEF LiveRetryLater
  <1> QED
    BY <1>1, <1>2, RejectingEnqueue, AppendKeeps

\* A settled record may leave: it is the one that was sent.
LEMMA SettledLoses ==
  ASSUME OrderInv, Settled
  PROVE  Range(queue) \ Range(queue') \subseteq {sending}
  <1>1. CASE LiveSettled
    BY <1>1 DEF LiveSettled
  <1>2. CASE DrainSettled
    <2>1. queue \in Seq(Payload) /\ queue # <<>> /\ sending = Head(queue)
      BY <1>2 DEF DrainSettled, OrderInv, DeliveryInv, QueueTypes, FrontIsSent
    <2> QED
      BY <1>2, <2>1, PopTakesFront DEF DrainSettled
  <1> QED
    BY <1>1, <1>2 DEF Settled

LEMMA OutboxOrder == ASSUME HttpInv PROVE OrderInv /\ queue \in Seq(Payload)
  BY DEF HttpInv, DelayInv, TypesInv, AttemptsInv, OrderInv, DeliveryInv, QueueTypes

LEMMA UnderneathLoses ==
  ASSUME OrderInv, Underneath
  PROVE  /\ damaged \subseteq damaged' /\ policy' = policy
         /\ Range(queue) \ Range(queue') \subseteq damaged
  <1>1. CASE DropCorruptFrontRecord
    <2>1. queue \in Seq(Payload) /\ queue # <<>> /\ Head(queue) \in damaged
      BY <1>1 DEF DropCorruptFrontRecord, FrontCorrupt, OrderInv, DeliveryInv, QueueTypes
    <2>2. /\ UNCHANGED <<damaged, policy>>
          /\ queue' = Rest(1) \/ queue' = queue
      BY <1>1 DEF DropCorruptFrontRecord
    <2> QED
      BY <2>1, <2>2, PopTakesFront
  <1>2. CASE Drain \/ QueueEmpty \/ PeekFails \/ NotDue \/ DrainSendStart \/ Tick \/ Damage
    BY <1>2 DEF Drain, DrainUpTo, QueueEmpty, PeekFails, NotDue, DrainSendStart, Tick, Damage
  <1> QED
    BY <1>1, <1>2 DEF Underneath, Return

LEMMA LossStep == HttpInv /\ LossInv /\ [HttpNext]_httpVars => LossInv'
  <1> SUFFICES ASSUME HttpInv, LossInv, [HttpNext]_httpVars PROVE LossInv'
    OBVIOUS
  <1>1. OrderInv /\ queue \in Seq(Payload) /\ AnswerInv
    BY OutboxOrder DEF HttpInv
  <1>2. ASSUME NEW r \in Requests, SubmitPost(r) PROVE LossInv'
    <2>1. /\ Submit /\ Queued /\ UNCHANGED <<policy, damaged, delivered, reported>>
      BY <1>2 DEF SubmitPost, Submit
    <2> QED
      BY <1>1, <2>1, SubmitLoses, LossKept
  <1>3. ASSUME NEW a \in Answers, PostRequest(a) PROVE LossInv'
    <2>1. /\ UNCHANGED <<queue, policy, damaged, queued, reported>> /\ delivered \subseteq delivered'
      BY <1>3 DEF PostRequest, vars
    <2> QED
      BY <2>1 DEF LossInv, Accounted
  <1>4. CASE RequestSent
    <2>1. Settled /\ Queued /\ UNCHANGED <<policy, damaged, delivered, reported>>
      BY <1>4 DEF RequestSent, Over, Settled, LiveSettled, DrainSettled
    <2>2. sending \in delivered'
      <3>1. Answered /\ ~answer.error /\ Successful(answer.status)
        BY <1>4 DEF RequestSent, Classify
      <3> QED
        BY <1>1, <2>1, <3>1 DEF AnswerInv
    <2> QED
      BY <1>1, <2>1, <2>2, SettledLoses, LossKept DEF Accounted
  <1>5. CASE RequestRejected \/ Unpostable
    <2>1. /\ Settled /\ Queued /\ reported' = reported \cup {sending}
          /\ UNCHANGED <<policy, damaged, delivered>>
      BY <1>5 DEF RequestRejected, Unpostable, NotifyDrop, Over, Settled, LiveSettled, DrainSettled
    <2> QED
      BY <1>1, <2>1, SettledLoses, LossKept DEF Accounted
  <1>6. CASE RequestRetryLater
    <2>1. Queued /\ UNCHANGED <<policy, damaged, delivered, reported>>
      BY <1>6 DEF RequestRetryLater, Over, LiveRetryLater, DrainRetryLater
    <2>2. answer.hint \in Hints
      BY <1>1, <1>6, HttpConstants DEF RequestRetryLater, AnswerInv
    <2>3. policy = "RejectNewest" => Range(queue) \subseteq Range(queue')
      BY <1>1, <1>6, <2>2, LiveLoses DEF RequestRetryLater, DrainRetryLater
    <2> QED
      BY <2>1, <2>3, LossKept
  <1>7. CASE Underneath
    <2>1. Queued /\ UNCHANGED <<delivered, reported>>
      BY <1>7 DEF Underneath
    <2> QED
      BY <1>1, <1>7, <2>1, UnderneathLoses, LossKept DEF Accounted
  <1>8. CASE Reboot
    <2>1. /\ Queued /\ UNCHANGED <<policy, damaged, delivered>> /\ reported \subseteq reported'
          /\ queue' = queue \/ (pc = "live" /\ queue' = Append(queue, sending))
      BY <1>8 DEF Reboot, PowerLoss, NotifyDrop
    <2>2. Range(queue) \subseteq Range(queue')
      BY <1>1, <2>1, AppendKeeps DEF OrderInv, DeliveryInv, QueueTypes
    <2> QED
      BY <2>1, <2>2, LossKept
  <1>9. CASE UNCHANGED httpVars \/ \E r \in Requests : SubmitRefused(r)
    BY <1>9 DEF SubmitRefused, httpVars, httpSeen, vars, LossInv, Accounted
  <1> QED
    BY <1>2, <1>3, <1>4, <1>5, <1>6, <1>7, <1>8, <1>9 DEF HttpNext, Posting, Deciding

\* Where the full queue rejects, no stored request disappears without a 2xx response,
\* a call of onDrop or damage to the flash (http/outbox.cpp, sendStoredRequest()).
THEOREM LossIsAlwaysReported == HttpSpec => []LossIsReported
  <1>1. LossInv => LossIsReported
    BY DEF LossInv, LossIsReported, Accounted
  <1>2. HttpInit => LossInv
    BY DEF HttpInit, LossInv
  <1> QED
    BY <1>1, <1>2, HttpStart, HttpStep, LossStep, PTL DEF HttpSpec

\* onDrop is not called for a request whose answer was lost, a success or one that
\* calls for a retry (defaultClassifyResponse()).
THEOREM DropsAreFinal == HttpSpec => DropIsFinal
  <1>1. HttpInv /\ [HttpNext]_httpVars =>
          [\A p \in reported' \ reported :
              ~Answered \/ (~answer.error /\ answer.status \notin (200..299) \cup Transient)]_httpVars
    <2> SUFFICES ASSUME HttpInv, HttpNext, Answered, NEW p \in reported' \ reported
                 PROVE  ~answer.error /\ answer.status \notin (200..299) \cup Transient
      OBVIOUS
    <2>1. Classify(answer) = "Drop"
      BY DEF HttpNext, Posting, Deciding, SubmitPost, SubmitRefused, PostRequest, RequestSent,
             RequestRejected, RequestRetryLater, Unpostable, Underneath, Reboot, Dropping, httpVars, httpSeen
    <2>2. ~answer.error /\ ~Successful(answer.status) /\ ~Retryable(answer.status)
      BY <2>1 DEF Classify
    <2>3. answer.status \in Nat
      BY HttpConstants DEF HttpInv, AnswerInv
    <2> QED
      BY <2>2, <2>3 DEF Successful, Retryable, Transient
  <1> QED
    BY <1>1, HttpStart, HttpStep, PTL DEF HttpSpec, DropIsFinal
-----------------------------------------------------------------------------
(* How often the server takes a request.                                     *)

Acknowledged(p) == p = sending /\ Answered /\ ~answer.error /\ Successful(answer.status)
Gone(p) == p < next /\ p \notin Range(queue) /\ p # sending

\* Without trouble a request that was taken is acknowledged or gone for good.
TakenOnce(p) == accepted[p] \in {0, 1} /\ (accepted[p] = 1 => Acknowledged(p) \/ Gone(p))

RepeatInv ==
    /\ accepted \in [Payload -> Nat] /\ (fellBack => trouble > 0)
    /\ trouble = 0 => \A p \in Payload \ unheard : TakenOnce(p)

\* Whatever joins the queue was submitted just now or is being sent, and whatever is
\* sent next was queued or submitted.
LEMMA Newcomers ==
  ASSUME OrderInv, [Next]_vars
  PROVE  /\ Range(queue') \subseteq Range(queue) \cup {next, sending}
         /\ sending' \in {0, sending, next} \cup Range(queue)
         /\ next' \in {next, next + 1}
  <1>1. queue \in Seq(Payload)
    BY DEF OrderInv, DeliveryInv, QueueTypes
  <1>2. ASSUME NEW k \in 0..Len(queue) PROVE Range(Rest(k)) \subseteq Range(queue) /\ Rest(k) \in Seq(Payload)
    <2> DEFINE r == SubSeq(queue, k + 1, Len(queue))
    <2>1. /\ r \in Seq(Payload) /\ Len(r) = Len(queue) - k
          /\ \A i \in 1..Len(r) : r[i] = queue[k + i] /\ k + i \in 1..Len(queue)
      BY <1>1, <1>2
    <2>2. DOMAIN r = 1..Len(r) /\ DOMAIN queue = 1..Len(queue)
      BY <1>1, <2>1
    <2> QED
      BY <2>1, <2>2 DEF Range, Rest
  <1>3. ASSUME NEW p \in Payload, NEW q \in Seq(Payload)
        PROVE  Range(Append(q, p)) \subseteq Range(q) \cup {p}
    <2> DEFINE a == Append(q, p)
    <2>1. /\ a \in Seq(Payload) /\ Len(a) = Len(q) + 1 /\ a[Len(q) + 1] = p
          /\ \A i \in 1..Len(q) : a[i] = q[i]
      OBVIOUS
    <2>2. DOMAIN a = 1..(Len(q) + 1) /\ DOMAIN q = 1..Len(q)
      BY <2>1
    <2> QED
      BY <2>1, <2>2 DEF Range
  <1>4. ASSUME NEW p \in Payload, EnqueueOk(p) \/ EnqueueFails
        PROVE  Range(queue') \subseteq Range(queue) \cup {p}
    <2>1. PICK k \in 0..Len(queue) : queue' = Append(Rest(k), p) \/ queue' = Rest(k)
      BY <1>4, EnqueueShape DEF Extended, Trimmed
    <2>2. Range(Rest(k)) \subseteq Range(queue) /\ Rest(k) \in Seq(Payload)
      BY <1>2
    <2>3. Range(Append(Rest(k), p)) \subseteq Range(Rest(k)) \cup {p}
      BY <1>3, <2>2
    <2> QED
      BY <2>1, <2>2, <2>3
  <1>5. queue # <<>> => Head(queue) \in Range(queue) /\ Range(Rest(1)) \subseteq Range(queue)
    <2> SUFFICES ASSUME queue # <<>> PROVE Head(queue) \in Range(queue) /\ 1 \in 0..Len(queue)
      BY <1>2
    <2>1. 1 \in DOMAIN queue /\ Head(queue) = queue[1] /\ 1 \in 0..Len(queue)
      BY <1>1
    <2> QED
      BY <2>1 DEF Range
  <1>6. CASE Submit
    <2>1. /\ next \in Payload /\ next' = next + 1 /\ sending' \in {sending, next}
          /\ Enqueue(next) \/ queue' = queue
      BY <1>6 DEF Submit
    <2> QED
      BY <1>4, <2>1 DEF Enqueue
  <1>7. ASSUME NEW hint \in Hints, LiveRetryLater(hint) PROVE Range(queue') \subseteq Range(queue) \cup {sending}
    <2>1. sending \in Payload /\ (EnqueueOk(sending) \/ EnqueueFails)
      BY <1>7 DEF LiveRetryLater, OrderInv, DeliveryInv, QueueTypes
    <2> QED
      BY <1>4, <2>1
  <1>8. ASSUME NEW hint \in Hints, LiveRetryLater(hint) \/ DrainRetryLater(hint)
        PROVE  sending' = 0 /\ next' = next
    BY <1>8 DEF LiveRetryLater, DrainRetryLater, ToApp
  <1>9. ASSUME NEW hint \in Hints, DrainRetryLater(hint) PROVE queue' = queue
    BY <1>9 DEF DrainRetryLater
  <1>10. CASE DrainSettled \/ DropCorruptFrontRecord
    <2>1. /\ queue # <<>> /\ (queue' = Rest(1) \/ queue' = queue) /\ sending' = 0 /\ next' = next
      BY <1>10 DEF DrainSettled, DropCorruptFrontRecord, FrontCorrupt, Continue, ToApp,
                   OrderInv, DeliveryInv, FrontIsSent
    <2> QED
      BY <1>5, <2>1
  <1>11. CASE DrainSendStart
    BY <1>5, <1>11 DEF DrainSendStart, FrontReads
  <1>12. CASE LiveSettled \/ Drain \/ QueueEmpty \/ PeekFails \/ NotDue \/ Tick \/ Damage \/ UNCHANGED vars
    <2>1. queue' = queue /\ sending' \in {0, sending} /\ next' = next
      BY <1>12 DEF LiveSettled, Drain, DrainUpTo, QueueEmpty, PeekFails, NotDue, Tick, Damage,
                   ToApp, vars, seen
    <2> QED
      BY <2>1
  <1>13. CASE PowerLoss
    <2>1. /\ sending' = 0 /\ next' = next
          /\ queue' = queue \/ (pc = "live" /\ queue' = Append(queue, sending))
      BY <1>13 DEF PowerLoss, ToApp
    <2>2. pc = "live" => sending \in Payload
      BY DEF OrderInv, DeliveryInv, QueueTypes
    <2> QED
      BY <1>1, <1>3, <2>1, <2>2
  <1> QED
    BY <1>6, <1>7, <1>8, <1>9, <1>10, <1>11, <1>12, <1>13
    DEF Next, Settled, RetryLater, Return

\* A live send over a backlog takes a failure, and no failure is forgotten.
LEMMA TroubleCounts ==
  ASSUME trouble \in Nat, [Next]_vars
  PROVE  /\ trouble' \in Nat /\ trouble' >= trouble
         /\ fellBack' => fellBack \/ trouble' > 0
  <1>1. trouble' = trouble \/ trouble' = trouble + 1
    <2>1. CASE Submit \/ Settled \/ Drain \/ Return \/ UNCHANGED vars
      BY <2>1 DEF Submit, Enqueue, EnqueueFails, Settled, LiveSettled, DrainSettled, Drain,
                  DrainUpTo, Return, QueueEmpty, PeekFails, DropCorruptFrontRecord, NotDue,
                  Fault, vars
    <2>2. CASE RetryLater \/ DrainSendStart \/ Tick \/ Damage \/ PowerLoss
      BY <2>2 DEF RetryLater, LiveRetryLater, EnqueueFails, DrainRetryLater, DrainSendStart,
                  Tick, Damage, PowerLoss, Fault
    <2> QED
      BY <2>1, <2>2 DEF Next
  <1>2. fellBack' => fellBack \/ trouble' = trouble + 1
    <2>1. CASE Submit
      BY <2>1 DEF Submit, Fault
    <2>2. CASE Settled \/ Drain \/ Return \/ RetryLater \/ DrainSendStart \/ Tick \/ Damage
               \/ PowerLoss \/ UNCHANGED vars
      BY <2>2 DEF Settled, LiveSettled, DrainSettled, Drain, DrainUpTo, Return, QueueEmpty,
                  PeekFails, DropCorruptFrontRecord, NotDue, RetryLater, LiveRetryLater,
                  DrainRetryLater, DrainSendStart, Tick, Damage, PowerLoss, vars, seen
    <2> QED
      BY <2>1, <2>2 DEF Next
  <1> QED
    BY <1>1, <1>2

\* A request that is gone stays so.
LEMMA GoneStays ==
  ASSUME OrderInv, [Next]_vars, NEW p \in Payload, Gone(p)
  PROVE  Gone(p)'
  <1>1. next \in Nat /\ p \in Nat /\ p # 0
    BY DEF OrderInv, Numbered, Payload
  <1> QED
    BY <1>1, Newcomers DEF Gone

LEMMA PostIsSome == ASSUME NEW u, NEW b PROVE [url |-> u, body |-> b] # None
  <1> SUFFICES ASSUME [url |-> u, body |-> b] = None PROVE FALSE
    OBVIOUS
  <1>1. "url" \in DOMAIN [url |-> u, body |-> b] /\ "url" \notin DOMAIN None
    BY DEF None
  <1> QED
    BY <1>1

\* A send that is over without trouble leaves the request nowhere.
LEMMA SettledIsGone ==
  ASSUME OrderInv, ~fellBack, Settled, trouble' = trouble, trouble \in Nat, NEW p, p = sending
  PROVE  Gone(p)'
  <1>1. queue \in Seq(Payload) /\ sending \in Nat /\ next \in Nat
    BY DEF OrderInv, DeliveryInv, QueueTypes, Numbered
  <1>2. CASE LiveSettled
    <2>1. queue' = <<>> /\ sending < next /\ next' = next /\ sending' = 0 /\ sending # 0
      BY <1>2 DEF LiveSettled, ToApp, seen, OrderInv, Numbered, InOrder, DeliveryInv, QueueTypes,
                  Payload
    <2>2. Range(<<>>) = {}
      BY DEF Range
    <2> QED
      BY <2>1, <2>2 DEF Gone
  <1>3. CASE DrainSettled
    <2>1. /\ queue' = Rest(1) /\ queue # <<>> /\ sending = Head(queue) /\ sending' = 0 /\ next' = next
      BY <1>3 DEF DrainSettled, Fault, Continue, ToApp, OrderInv, DeliveryInv, FrontIsSent
    <2>2. sending = queue[1] /\ 1 \in 1..Len(queue) /\ 1 \in 0..Len(queue)
      BY <1>1, <2>1
    <2>3. sending < next /\ sending \in Payload /\ Ascending(queue)
      BY <1>1, <2>2 DEF OrderInv, Numbered, InOrder
    <2>4. ASSUME NEW i \in DOMAIN queue' PROVE queue'[i] # sending
      <3>1. i \in 1..Len(queue') /\ Len(queue') = Len(queue) - 1 /\ queue'[i] = queue[1 + i]
        BY <1>1, <2>1, <2>2, <2>4, RestAscends DEF Rest
      <3>2. 1 + i \in 1..Len(queue) /\ 1 < 1 + i
        BY <1>1, <3>1
      <3>3. queue[1] < queue[1 + i] /\ queue[1 + i] \in Nat
        BY <1>1, <2>2, <2>3, <3>2, InPayload DEF Ascending
      <3> QED
        BY <1>1, <2>2, <3>1, <3>3
    <2>5. sending \notin Range(queue')
      BY <2>4 DEF Range
    <2>6. sending # 0
      BY <2>3 DEF Payload
    <2> QED
      BY <2>1, <2>3, <2>5, <2>6 DEF Gone
  <1> QED
    BY <1>2, <1>3 DEF Settled

LEMMA RepeatStep == HttpInv /\ RepeatInv /\ [HttpNext]_httpVars => RepeatInv'
  <1> SUFFICES ASSUME HttpInv, RepeatInv, [HttpNext]_httpVars PROVE RepeatInv'
    OBVIOUS
  <1>1. OrderInv /\ AnswerInv /\ [Next]_vars /\ trouble \in Nat
    BY OutboxOrder, StepBelow, OutboxConstants DEF HttpInv, DelayInv, TypesInv, OtherTypes
  <1>2. /\ trouble' \in Nat /\ trouble' >= trouble /\ (fellBack' => trouble' > 0)
    <2>1. trouble' >= trouble /\ trouble' \in Nat /\ (fellBack' => fellBack \/ trouble' > 0)
      BY <1>1, TroubleCounts
    <2> QED
      BY <1>1, <2>1 DEF RepeatInv
  <1>3. ASSUME accepted' = accepted, unheard' = unheard,
               trouble' = 0 => \A p \in Payload : Acknowledged(p) => Acknowledged(p)' \/ Gone(p)'
        PROVE  RepeatInv'
    BY <1>1, <1>2, <1>3, GoneStays DEF RepeatInv, TakenOnce
  <1>4. ASSUME NEW r \in Requests, SubmitPost(r) PROVE RepeatInv'
    <2>1. ~Answered /\ UNCHANGED <<accepted, unheard>>
      BY <1>1, <1>4 DEF SubmitPost, Submit, AnswerInv, Sending
    <2> QED
      BY <1>3, <2>1 DEF Acknowledged
  <1>5. ASSUME NEW a \in Answers, PostRequest(a) PROVE RepeatInv'
    <2>1. /\ Sending /\ ~Answered /\ UNCHANGED <<next, queue, sending, trouble, fellBack>>
          /\ posted' # None /\ answer' = a
          /\ unheard' = IF a.error THEN unheard \cup {sending} ELSE unheard
      <3>1. /\ Sending /\ posted = None /\ UNCHANGED <<next, queue, sending, trouble, fellBack>>
            /\ \E u, b : posted' = [url |-> u, body |-> b]
        BY <1>5 DEF PostRequest, vars, seen
      <3>2. answer' = a /\ unheard' = IF a.error THEN unheard \cup {sending} ELSE unheard
        BY <1>5 DEF PostRequest
      <3> QED
        BY <3>1, <3>2, PostIsSome DEF Answered
    <2>2. PICK taken \in {0, 1} : /\ accepted' = [accepted EXCEPT ![sending] = Least(@ + taken, 2)]
                                  /\ taken = 1 => a.error \/ Successful(a.status)
      <3>1. PICK taken \in (IF a.error THEN {0, 1} ELSE IF Successful(a.status) THEN {1} ELSE {0}) :
                accepted' = [accepted EXCEPT ![sending] = Least(@ + taken, 2)]
        BY <1>5, Zenon DEF PostRequest
      <3>2. taken \in {0, 1} /\ (taken = 1 => a.error \/ Successful(a.status))
        OBVIOUS
      <3> QED
        BY <3>1, <3>2
    <2>3. sending \in Payload
      BY <1>1, <2>1 DEF Sending, OrderInv, DeliveryInv, QueueTypes, FrontIsSent
    <2>4. accepted' \in [Payload -> Nat]
      BY <2>2, <2>3 DEF RepeatInv, Least
    <2>5. ASSUME trouble = 0, NEW p \in Payload \ unheard' PROVE TakenOnce(p)'
      <3>1. p \notin unheard /\ TakenOnce(p)
        BY <2>1, <2>5 DEF RepeatInv
      <3>2. CASE p # sending
        <4>1. accepted'[p] = accepted[p] /\ (accepted[p] = 1 => Gone(p)) /\ (Gone(p) => Gone(p)')
          BY <2>1, <2>2, <3>1, <3>2 DEF RepeatInv, TakenOnce, Acknowledged, Gone
        <4> QED
          BY <3>1, <4>1 DEF TakenOnce
      <3>3. CASE p = sending
        <4>1. accepted[p] = 0 /\ ~a.error
          BY <2>1, <2>5, <3>1, <3>3 DEF TakenOnce, Acknowledged, Gone
        <4>2. accepted'[p] = taken
          BY <2>2, <2>3, <3>3, <4>1 DEF Least, RepeatInv
        <4>3. taken = 1 => Acknowledged(p)'
          BY <2>1, <2>2, <3>3, <4>1 DEF Acknowledged, Answered
        <4> QED
          BY <4>2, <4>3 DEF TakenOnce
      <3> QED
        BY <3>2, <3>3
    <2> QED
      BY <1>2, <2>1, <2>4, <2>5 DEF RepeatInv
  <1>6. CASE RequestSent
    <2>1. Settled /\ UNCHANGED <<accepted, unheard>>
      BY <1>6 DEF RequestSent, Over
    <2>2. ASSUME trouble' = 0, NEW p \in Payload, Acknowledged(p) PROVE Gone(p)'
      <3>1. trouble' = trouble /\ ~fellBack /\ p = sending
        BY <1>1, <1>2, <2>2 DEF RepeatInv, Acknowledged
      <3> QED
        BY <1>1, <2>1, <3>1, SettledIsGone DEF Gone
    <2> QED
      BY <1>3, <2>1, <2>2
  <1>7. CASE RequestRejected \/ Unpostable \/ RequestRetryLater
    <2>1. /\ UNCHANGED <<accepted, unheard>>
          /\ \A p \in Payload : ~Acknowledged(p)
      BY <1>7 DEF RequestRejected, Unpostable, RequestRetryLater, Over, Acknowledged, Classify
    <2> QED
      BY <1>3, <2>1
  <1>8. CASE Underneath
    <2>1. UNCHANGED <<accepted, unheard, posted, answer>>
      BY <1>8 DEF Underneath
    <2>2. Sending => sending' = sending
      BY <1>8 DEF Underneath, Drain, DrainUpTo, Return, QueueEmpty, PeekFails, NotDue, Sending,
                  DropCorruptFrontRecord, DrainSendStart, Tick, Damage
    <2>3. \A p \in Payload : Acknowledged(p) => Acknowledged(p)'
      BY <1>1, <2>1, <2>2 DEF Acknowledged, Answered, AnswerInv
    <2> QED
      BY <1>3, <2>1, <2>3
  <1>9. CASE Reboot
    <2>1. UNCHANGED <<accepted, unheard>> /\ trouble' = trouble + 1
      BY <1>9 DEF Reboot, PowerLoss, Fault
    <2> QED
      BY <1>1, <1>3, <2>1
  <1>10. CASE UNCHANGED httpVars \/ \E r \in Requests : SubmitRefused(r)
    <2>1. UNCHANGED <<accepted, unheard, posted, answer, sending>>
      BY <1>10 DEF SubmitRefused, httpVars, httpSeen, vars
    <2> QED
      BY <1>3, <2>1 DEF Acknowledged, Answered
  <1> QED
    BY <1>4, <1>5, <1>6, <1>7, <1>8, <1>9, <1>10 DEF HttpNext, Posting, Deciding

\* The server takes no request twice unless an answer of it got lost, a pop() failed or
\* power was lost: a success is the last that is sent of a request.
THEOREM RepeatsNeedTrouble == HttpSpec => []RepeatNeedsTrouble
  <1>1. HttpInv /\ RepeatInv => RepeatNeedsTrouble
    <2> SUFFICES ASSUME HttpInv, RepeatInv, NEW p \in Payload, accepted[p] > 1, p \notin unheard, trouble = 0
                 PROVE  FALSE
      BY OutboxConstants DEF RepeatNeedsTrouble, HttpInv, DelayInv, TypesInv, OtherTypes
    <2> QED
      BY DEF RepeatInv, TakenOnce
  <1>2. HttpInit => RepeatInv
    <2> SUFFICES ASSUME HttpInit PROVE RepeatInv
      OBVIOUS
    <2>1. accepted = [p \in Payload |-> 0] /\ fellBack = FALSE
      BY DEF HttpInit, InitWith
    <2> QED
      BY <2>1 DEF RepeatInv, TakenOnce
  <1> QED
    BY <1>1, <1>2, HttpStart, HttpStep, RepeatStep, PTL DEF HttpSpec
-----------------------------------------------------------------------------
(* The two versions of the envelope.                                         *)

LEMMA Constants == ByteBase \in Nat /\ ByteBase > 2 /\ Byte \subseteq Nat /\ {0, 1, 2} \subseteq Byte
  BY HttpConstants DEF Byte

\* Both length fields read back as what was written, up to their limits.
LEMMA Digits16 ==
  ASSUME NEW n \in Nat, n < Limit16
  PROVE  /\ Bytes16(n) \in Seq(Byte) /\ Len(Bytes16(n)) = 2
         /\ n = Bytes16(n)[1] + ByteBase * Bytes16(n)[2]
  <1> DEFINE b == ByteBase
             q == n \div b
  <1>1. b \in Nat /\ b > 0
    BY Constants
  <1>2. q \in Nat /\ n % b = n - b * q /\ n % b \in 0..(b - 1)
    BY <1>1
  <1>3. q < b
    <2>1. n < b * b
      BY DEF Limit16
    <2> QED
      BY <1>1, <2>1
  <1>4. q % b = q
    <2> HIDE DEF q
    <2> QED
      BY <1>1, <1>2, <1>3
  <1>5. n % b \in Byte /\ q % b \in Byte
    BY <1>1, <1>2, <1>3, <1>4 DEF Byte
  <1>6. (n % b) + b * q = n
    <2> HIDE DEF q
    <2>1. b * q \in Nat
      BY <1>1, <1>2
    <2> HIDE DEF b
    <2> QED
      BY <1>2, <2>1
  <1>7. Bytes16(n) = <<n % b, q % b>>
    BY DEF Bytes16
  <1> HIDE DEF q, b
  <1> QED
    BY <1>4, <1>5, <1>6, <1>7 DEF b

\* A number is its last digit and the rest.
LEMMA LastDigit ==
  ASSUME NEW n \in Nat
  PROVE  /\ n \div ByteBase \in Nat /\ n % ByteBase \in Byte
         /\ n = (n % ByteBase) + ByteBase * (n \div ByteBase)
         /\ \A m \in Nat : n < ByteBase * m => n \div ByteBase < m
  <1> DEFINE b == ByteBase
             q == n \div b
  <1>1. b \in Nat /\ b > 0
    BY Constants
  <1>2. q \in Nat /\ n % b = n - b * q /\ n % b \in 0..(b - 1)
    BY <1>1
  <1>3. n = (n % b) + b * q
    <2> HIDE DEF q
    <2>1. b * q \in Nat
      BY <1>1, <1>2
    <2> HIDE DEF b
    <2> QED
      BY <1>2, <2>1
  <1>4. ASSUME NEW m \in Nat, n < b * m PROVE q < m
    BY <1>1, <1>4
  <1> QED
    BY <1>2, <1>3, <1>4 DEF Byte

LEMMA PairsJoined ==
  ASSUME NEW S, NEW x \in S, NEW y \in S, NEW t \in Seq(S), Len(t) = 2
  PROVE  LET s == <<x, y>> \o t
         IN  s \in Seq(S) /\ Len(s) = 4 /\ s[1] = x /\ s[2] = y /\ s[3] = t[1] /\ s[4] = t[2]
  <1> DEFINE h == <<x, y>>
  <1>1. h \in Seq(S) /\ Len(h) = 2 /\ h[1] = x /\ h[2] = y
    OBVIOUS
  <1> HIDE DEF h
  <1>2. /\ h \o t \in Seq(S) /\ Len(h \o t) = Len(h) + Len(t)
        /\ \A i \in 1..(Len(h) + Len(t)) : (h \o t)[i] = IF i <= Len(h) THEN h[i] ELSE t[i - Len(h)]
    BY <1>1, ConcatProperties
  <1>3. \A i \in 1..4 : (h \o t)[i] = IF i <= 2 THEN h[i] ELSE t[i - 2]
    BY <1>1, <1>2
  <1> DEFINE s == h \o t
  <1>4. \A i \in 1..4 : (i <= 2 => s[i] = h[i]) /\ (~(i <= 2) => s[i] = t[i - 2])
    BY <1>3
  <1> HIDE DEF s
  <1>5. 1 \in 1..4 /\ 2 \in 1..4 /\ 3 \in 1..4 /\ 4 \in 1..4 /\ 3 - 2 = 1 /\ 4 - 2 = 2
    OBVIOUS
  <1>6. s[1] = h[1] /\ s[2] = h[2] /\ s[3] = t[3 - 2] /\ s[4] = t[4 - 2]
    BY <1>4, <1>5
  <1> QED
    BY <1>1, <1>2, <1>5, <1>6 DEF h, s

LEMMA Digits32 ==
  ASSUME NEW n \in Nat, n < Limit32
  PROVE  /\ Bytes32(n) \in Seq(Byte) /\ Len(Bytes32(n)) = 4
         /\ n = Number16(Bytes32(n), 1) + ByteBase * (ByteBase * Number16(Bytes32(n), 3))
  <1> DEFINE b == ByteBase
             q == n \div b
             r == q \div b
             t == Bytes16(r)
  <1>1. b \in Nat /\ Limit16 \in Nat /\ b * Limit16 \in Nat /\ n < b * (b * Limit16)
    BY Constants DEF Limit16, Limit32
  <1>2. q \in Nat /\ n % b \in Byte /\ n = (n % b) + b * q /\ q < b * Limit16
    BY <1>1, LastDigit
  <1>3. r \in Nat /\ q % b \in Byte /\ q = (q % b) + b * r /\ r < Limit16
    <2> HIDE DEF q
    <2> QED
      BY <1>1, <1>2, LastDigit
  <1>4. t \in Seq(Byte) /\ Len(t) = 2 /\ r = t[1] + b * t[2]
    <2> HIDE DEF r
    <2> QED
      BY <1>3, Digits16
  <1>5. Bytes32(n) = <<n % b, q % b>> \o t
    BY DEF Bytes32, Bytes16
  <1>6. n = ((n % b) + b * (q % b)) + b * (b * r)
    <2>1. n % b \in Nat /\ q % b \in Nat
      BY <1>2, <1>3, Constants
    <2> HIDE DEF r, q
    <2>2. \A x, y, z, c \in Nat : x + c * (y + c * z) = (x + c * y) + c * (c * z)
      OBVIOUS
    <2> HIDE DEF b
    <2> QED
      BY <1>1, <1>2, <1>3, <2>1, <2>2
  <1> HIDE DEF q, r, t
  <1>7. /\ Bytes32(n) \in Seq(Byte) /\ Len(Bytes32(n)) = 4
        /\ Bytes32(n)[1] = n % b /\ Bytes32(n)[2] = q % b
        /\ Bytes32(n)[3] = t[1] /\ Bytes32(n)[4] = t[2]
    BY ONLY <1>2, <1>3, <1>4, <1>5, PairsJoined
  <1> QED
    BY <1>4, <1>6, <1>7 DEF Number16

LEMMA LengthsRead ==
  ASSUME NEW r \in Request, Encodable(r)
  PROVE  /\ Lengths(r) \in Seq(Byte) /\ Len(Lengths(r)) = 6
         /\ Number16(Lengths(r), 1) = Len(r.path) /\ Number32(Lengths(r), 3) = Len(r.body)
  <1> DEFINE a == Bytes16(Len(r.path))
             c == Bytes32(Len(r.body))
             m == a \o c
  <1>1. Len(r.path) \in Nat /\ Len(r.body) \in Nat
    BY DEF Request
  <1>2. a \in Seq(Byte) /\ Len(a) = 2 /\ Len(r.path) = a[1] + ByteBase * a[2]
    BY <1>1, Digits16 DEF Encodable
  <1>3. /\ c \in Seq(Byte) /\ Len(c) = 4
        /\ Len(r.body) = Number16(c, 1) + ByteBase * (ByteBase * Number16(c, 3))
    BY <1>1, Digits32 DEF Encodable
  <1> HIDE DEF a, c
  <1>4. /\ m \in Seq(Byte) /\ Len(m) = Len(a) + Len(c)
        /\ \A i \in 1..(Len(a) + Len(c)) : m[i] = IF i <= Len(a) THEN a[i] ELSE c[i - Len(a)]
    BY <1>2, <1>3, ConcatProperties
  <1> HIDE DEF m
  <1>5. \A i \in 1..6 : (i <= 2 => m[i] = a[i]) /\ (~(i <= 2) => m[i] = c[i - 2])
    BY <1>2, <1>3, <1>4
  <1>6. /\ 1 \in 1..6 /\ 2 \in 1..6 /\ 3 \in 1..6 /\ 4 \in 1..6 /\ 5 \in 1..6 /\ 6 \in 1..6
        /\ 3 - 2 = 1 /\ 4 - 2 = 2 /\ 5 - 2 = 3 /\ 6 - 2 = 4
    OBVIOUS
  <1>7. m[1] = a[1] /\ m[2] = a[2] /\ m[3] = c[1] /\ m[4] = c[2] /\ m[5] = c[3] /\ m[6] = c[4]
    <2>1. /\ m[1] = a[1] /\ m[2] = a[2]
          /\ m[3] = c[3 - 2] /\ m[4] = c[4 - 2] /\ m[5] = c[5 - 2] /\ m[6] = c[6 - 2]
      BY <1>5, <1>6
    <2> QED
      BY <1>6, <2>1
  <1>8. Number16(m, 1) = Len(r.path)
    BY <1>2, <1>7 DEF Number16
  <1>9. Number32(m, 3) = Len(r.body)
    <2>1. 3 + 1 = 4 /\ 3 + 2 = 5 /\ 5 + 1 = 6 /\ 1 + 1 = 2
      OBVIOUS
    <2>2. Number16(m, 3) = Number16(c, 1) /\ Number16(m, 3 + 2) = Number16(c, 3)
      BY <1>7, <2>1 DEF Number16
    <2> QED
      BY <1>3, <2>2 DEF Number32
  <1>10. Lengths(r) = m
    BY DEF Lengths, m, a, c
  <1> QED
    BY <1>2, <1>3, <1>4, <1>8, <1>9, <1>10

\* Where the parts of a concatenation are found again.
LEMMA PartsOf ==
  ASSUME NEW S, NEW h \in Seq(S), NEW p \in Seq(S), NEW c \in Seq(S)
  PROVE  /\ h \o p \o c \in Seq(S) /\ Len(h \o p \o c) = Len(h) + Len(p) + Len(c)
         /\ \A i \in 1..Len(h) : (h \o p \o c)[i] = h[i]
         /\ SubSeq(h \o p \o c, Len(h) + 1, Len(h) + Len(p)) = p
         /\ SubSeq(h \o p \o c, Len(h) + Len(p) + 1, Len(h \o p \o c)) = c
  <1> DEFINE s == h \o p \o c
  <1>1. s \in Seq(S) /\ Len(s) = Len(h) + Len(p) + Len(c)
    OBVIOUS
  <1>2. /\ \A i \in 1..Len(h) : s[i] = h[i]
        /\ \A i \in 1..Len(p) : s[Len(h) + i] = p[i]
        /\ \A i \in 1..Len(c) : s[Len(h) + Len(p) + i] = c[i]
    OBVIOUS
  <1> DEFINE u == SubSeq(s, Len(h) + 1, Len(h) + Len(p))
             v == SubSeq(s, Len(h) + Len(p) + 1, Len(s))
  <1>3. u \in Seq(S) /\ Len(u) = Len(p) /\ \A i \in 1..Len(p) : u[i] = p[i]
    BY <1>1, <1>2
  <1>4. v \in Seq(S) /\ Len(v) = Len(c) /\ \A i \in 1..Len(c) : v[i] = c[i]
    BY <1>1, <1>2
  <1> HIDE DEF u, v
  <1>5. u = p
    BY <1>3, SeqEqual
  <1>6. v = c
    BY <1>4, SeqEqual
  <1> QED
    BY <1>1, <1>2, <1>5, <1>6 DEF u, v

LEMMA JoinedAt ==
  ASSUME NEW S, NEW a \in Seq(S), NEW l \in Seq(S)
  PROVE  /\ a \o l \in Seq(S) /\ Len(a \o l) = Len(a) + Len(l)
         /\ \A i \in 1..Len(a) : (a \o l)[i] = a[i]
         /\ \A j \in 1..Len(l) : (a \o l)[Len(a) + j] = l[j]
  <1> DEFINE h == a \o l
             k == Len(a)
             m == Len(l)
  <1>1. h \in Seq(S) /\ Len(h) = k + m /\ k \in Nat /\ m \in Nat
        /\ \A i \in 1..(k + m) : h[i] = IF i <= k THEN a[i] ELSE l[i - k]
    BY ConcatProperties
  <1> HIDE DEF h, k, m
  <1>2. ASSUME NEW i \in 1..k PROVE h[i] = a[i]
    <2>1. i \in 1..(k + m) /\ i <= k
      BY <1>1, <1>2
    <2> QED
      BY <1>1, <2>1
  <1>3. ASSUME NEW j \in 1..m PROVE h[k + j] = l[j]
    <2>1. k + j \in 1..(k + m) /\ ~(k + j <= k) /\ k + j - k = j
      BY <1>1, <1>3
    <2>2. h[k + j] = l[k + j - k]
      BY <1>1, <2>1
    <2> QED
      BY <2>1, <2>2
  <1> QED
    BY <1>1, <1>2, <1>3 DEF h, k, m

\* A header, six bytes that follow it, and two fields, found in their concatenation t.
LaidOut(t, a, l, p, c, S) ==
    /\ t \in Seq(S) /\ Len(t) = Len(a) + 6 + Len(p) + Len(c)
    /\ \A i \in 1..Len(a) : t[i] = a[i]
    /\ \A j \in 1..6 : t[Len(a) + j] = l[j]
    /\ SubSeq(t, Len(a) + 7, Len(a) + 6 + Len(p)) = p
    /\ SubSeq(t, Len(a) + 7 + Len(p), Len(t)) = c

LEMMA Layout ==
  ASSUME NEW S, NEW a \in Seq(S), NEW l \in Seq(S), NEW p \in Seq(S), NEW c \in Seq(S), Len(l) = 6
  PROVE  LaidOut(a \o l \o p \o c, a, l, p, c, S)
  <1> DEFINE s == a \o l \o p \o c
             k == Len(a)
  <1> DEFINE h == a \o l
  <1>1. /\ h \in Seq(S) /\ Len(h) = Len(a) + Len(l)
        /\ \A i \in 1..Len(a) : h[i] = a[i]
        /\ \A j \in 1..Len(l) : h[Len(a) + j] = l[j]
    BY ONLY JoinedAt, a \in Seq(S), l \in Seq(S)
  <1>2. s = h \o p \o c
    OBVIOUS
  <1> HIDE DEF h
  <1>7. Len(h) = k + 6 /\ k \in Nat /\ Len(p) \in Nat /\ Len(c) \in Nat
    BY <1>1
  <1>3. /\ s \in Seq(S) /\ Len(s) = Len(h) + Len(p) + Len(c)
        /\ \A i \in 1..Len(h) : s[i] = h[i]
        /\ SubSeq(s, Len(h) + 1, Len(h) + Len(p)) = p
        /\ SubSeq(s, Len(h) + Len(p) + 1, Len(s)) = c
    <2>1. h \in Seq(S)
      BY <1>1
    <2>2. /\ h \o p \o c \in Seq(S) /\ Len(h \o p \o c) = Len(h) + Len(p) + Len(c)
          /\ \A i \in 1..Len(h) : (h \o p \o c)[i] = h[i]
          /\ SubSeq(h \o p \o c, Len(h) + 1, Len(h) + Len(p)) = p
          /\ SubSeq(h \o p \o c, Len(h) + Len(p) + 1, Len(h \o p \o c)) = c
      BY ONLY <2>1, p \in Seq(S), c \in Seq(S), PartsOf
    <2> QED
      BY ONLY <1>2, <2>2
  <1>4. /\ k + 6 + 1 = k + 7 /\ k + 6 + Len(p) + 1 = k + 7 + Len(p)
    BY ONLY <1>7
  <1>5. \A i \in 1..k : i \in 1..(k + 6)
    BY ONLY <1>7
  <1>6. \A j \in 1..6 : k + j \in 1..(k + 6)
    BY ONLY <1>7
  <1> QED
    <2>1. k = Len(a)
      OBVIOUS
    <2> HIDE DEF s, k
    <2>2. /\ s \in Seq(S) /\ Len(s) = k + 6 + Len(p) + Len(c)
          /\ \A i \in 1..k : s[i] = a[i]
          /\ \A j \in 1..6 : s[k + j] = l[j]
          /\ SubSeq(s, k + 7, k + 6 + Len(p)) = p
          /\ SubSeq(s, k + 7 + Len(p), Len(s)) = c
      BY ONLY Len(l) = 6, <1>1, <1>3, <1>4, <1>5, <1>6, <1>7, <2>1
    <2> QED
      BY <2>2 DEF s, k, LaidOut

\* The two length fields behind a header of k bytes.
LEMMA NumbersAt ==
  ASSUME NEW s, NEW l, NEW k \in Nat, \A j \in 1..6 : s[k + j] = l[j]
  PROVE  Number16(s, k + 1) = Number16(l, 1) /\ Number32(s, k + 3) = Number32(l, 3)
  <1>1. /\ s[k + 1] = l[1] /\ s[k + 2] = l[2] /\ s[k + 3] = l[3]
        /\ s[k + 4] = l[4] /\ s[k + 5] = l[5] /\ s[k + 6] = l[6]
    <2>1. 1 \in 1..6 /\ 2 \in 1..6 /\ 3 \in 1..6 /\ 4 \in 1..6 /\ 5 \in 1..6 /\ 6 \in 1..6
      OBVIOUS
    <2> QED
      BY <2>1
  <1>2. /\ k + 1 + 1 = k + 2 /\ k + 3 + 1 = k + 4 /\ k + 3 + 2 = k + 5 /\ k + 5 + 1 = k + 6
        /\ 1 + 1 = 2 /\ 3 + 1 = 4 /\ 3 + 2 = 5 /\ 5 + 1 = 6
    OBVIOUS
  <1>3. Number16(s, k + 1) = Number16(l, 1)
    BY <1>1, <1>2 DEF Number16
  <1>4. Number16(s, k + 3) = Number16(l, 3) /\ Number16(s, k + 3 + 2) = Number16(l, 3 + 2)
    BY <1>1, <1>2 DEF Number16
  <1> QED
    BY <1>3, <1>4 DEF Number32

\* A header of k bytes, the two lengths and the two fields read back.
LEMMA FieldsRead ==
  ASSUME NEW r \in Request, Encodable(r), NEW a \in Seq(Byte)
  PROVE  LET s == a \o Lengths(r) \o r.path \o r.body
             k == Len(a)
         IN  /\ s \in Seq(Byte) /\ Len(s) = k + 6 + Len(r.path) + Len(r.body)
             /\ \A i \in 1..k : s[i] = a[i]
             /\ Number16(s, k + 1) = Len(r.path) /\ Number32(s, k + 3) = Len(r.body)
             /\ SubSeq(s, k + 7, k + 6 + Len(r.path)) = r.path
             /\ SubSeq(s, k + 7 + Len(r.path), Len(s)) = r.body
  <1> DEFINE s == a \o Lengths(r) \o r.path \o r.body
             k == Len(a)
  <1>1. /\ Lengths(r) \in Seq(Byte) /\ Len(Lengths(r)) = 6 /\ r.path \in Seq(Byte) /\ r.body \in Seq(Byte)
        /\ Number16(Lengths(r), 1) = Len(r.path) /\ Number32(Lengths(r), 3) = Len(r.body)
    BY LengthsRead DEF Request
  <1>2. /\ s \in Seq(Byte) /\ Len(s) = k + 6 + Len(r.path) + Len(r.body)
        /\ \A i \in 1..k : s[i] = a[i]
        /\ \A j \in 1..6 : s[k + j] = Lengths(r)[j]
        /\ SubSeq(s, k + 7, k + 6 + Len(r.path)) = r.path
        /\ SubSeq(s, k + 7 + Len(r.path), Len(s)) = r.body
    <2>1. LaidOut(a \o Lengths(r) \o r.path \o r.body, a, Lengths(r), r.path, r.body, Byte)
      BY ONLY a \in Seq(Byte), <1>1, Layout, Zenon
    <2> QED
      BY <2>1 DEF LaidOut
  <1>3. k \in Nat
    OBVIOUS
  <1> HIDE DEF s, k
  <1>4. Number16(s, k + 1) = Len(r.path) /\ Number32(s, k + 3) = Len(r.body)
    BY <1>1, <1>2, <1>3, NumbersAt
  <1> QED
    BY <1>2, <1>4 DEF s, k

\* The header of either version.
LEMMA HeaderBytes ==
  ASSUME NEW t \in Seq(Byte), Len(t) \in {2, 3}
  PROVE  LET a == Magic \o t
         IN  /\ a \in Seq(Byte) /\ Len(a) = 4 + Len(t)
             /\ a[1] = 2 /\ a[2] = 1 /\ a[3] = 0 /\ a[4] = 2
             /\ a[5] = t[1] /\ a[6] = t[2] /\ (Len(t) = 3 => a[7] = t[3])
  <1> DEFINE m == Magic
             a == m \o t
  <1>1. m \in Seq(Byte) /\ Len(m) = 4 /\ m[1] = 2 /\ m[2] = 1 /\ m[3] = 0 /\ m[4] = 2
    BY Constants DEF Magic
  <1> HIDE DEF m
  <1>2. /\ a \in Seq(Byte) /\ Len(a) = Len(m) + Len(t)
        /\ \A i \in 1..Len(m) : a[i] = m[i]
        /\ \A j \in 1..Len(t) : a[Len(m) + j] = t[j]
    <2>1. m \in Seq(Byte)
      BY <1>1
    <2> QED
      BY ONLY JoinedAt, <2>1, t \in Seq(Byte)
  <1> HIDE DEF a
  <1>3. \A i \in 1..4 : a[i] = m[i]
    BY ONLY <1>1, <1>2
  <1>4. \A j \in 1..Len(t) : a[4 + j] = t[j]
    BY ONLY <1>1, <1>2
  <1>5. 1 \in 1..4 /\ 2 \in 1..4 /\ 3 \in 1..4 /\ 4 \in 1..4
    OBVIOUS
  <1>6. 1 \in 1..Len(t) /\ 2 \in 1..Len(t) /\ (Len(t) = 3 => 3 \in 1..Len(t))
    <2>1. CASE Len(t) = 2
      BY ONLY <2>1
    <2>2. CASE Len(t) = 3
      BY ONLY <2>2
    <2> QED
      BY <2>1, <2>2
  <1>7. 4 + 1 = 5 /\ 4 + 2 = 6 /\ 4 + 3 = 7
    OBVIOUS
  <1>8. a[5] = t[1] /\ a[6] = t[2] /\ (Len(t) = 3 => a[7] = t[3])
    <2>1. a[4 + 1] = t[1] /\ a[4 + 2] = t[2] /\ (Len(t) = 3 => a[4 + 3] = t[3])
      BY ONLY <1>4, <1>6
    <2> QED
      BY ONLY <1>7, <2>1
  <1> QED
    BY <1>1, <1>2, <1>3, <1>5, <1>8 DEF a, m

\* What encodeRequestEnvelope() of this and of the first version wrote is read back.
LEMMA RoundTrip ==
  ASSUME NEW r \in Request, Encodable(r), NEW s, IsOf(s, r)
  PROVE  Decodes(s) /\ Decode(s) = r
  <1>1. PICK t \in Seq(Byte) :
           /\ s = Magic \o t \o Lengths(r) \o r.path \o r.body
           /\ \/ Len(t) = 3 /\ t[1] = V2 /\ t[2] = Post /\ t[3] = r.encoding
              \/ Len(t) = 2 /\ t[1] = V1 /\ t[2] = Post /\ r.encoding = Raw
    <2>1. r.encoding \in Byte /\ V1 \in Byte /\ V2 \in Byte /\ Post \in Byte
      BY Constants DEF Request, Raw, Compact, V1, V2, Post
    <2>2. CASE s = Encode(r)
      <3> DEFINE t == <<V2, Post, r.encoding>>
      <3>1. t \in Seq(Byte) /\ Len(t) = 3 /\ t[1] = V2 /\ t[2] = Post /\ t[3] = r.encoding
        BY ONLY <2>1
      <3>2. s = Magic \o t \o Lengths(r) \o r.path \o r.body
        BY <2>2 DEF Encode
      <3> HIDE DEF t
      <3> QED
        BY ONLY <3>1, <3>2
    <2>3. CASE s = EncodeV1(r) /\ r.encoding = Raw
      <3> DEFINE t == <<V1, Post>>
      <3>1. t \in Seq(Byte) /\ Len(t) = 2 /\ t[1] = V1 /\ t[2] = Post
        BY ONLY <2>1
      <3>2. s = Magic \o t \o Lengths(r) \o r.path \o r.body
        BY <2>3 DEF EncodeV1
      <3> HIDE DEF t
      <3> QED
        BY ONLY <3>1, <3>2, <2>3
    <2> QED
      BY <2>2, <2>3 DEF IsOf
  <1> DEFINE a == Magic \o t
             k == Len(a)
  <1>13. Len(t) \in {2, 3}
    BY ONLY <1>1
  <1>14. /\ a \in Seq(Byte) /\ Len(a) = 4 + Len(t)
         /\ a[1] = 2 /\ a[2] = 1 /\ a[3] = 0 /\ a[4] = 2
         /\ a[5] = t[1] /\ a[6] = t[2] /\ (Len(t) = 3 => a[7] = t[3])
    BY ONLY t \in Seq(Byte), <1>13, HeaderBytes
  <1>15. s = a \o Lengths(r) \o r.path \o r.body
    BY <1>1
  <1> HIDE DEF a
  <1>2. /\ s \in Seq(Byte) /\ Len(s) = k + 6 + Len(r.path) + Len(r.body)
        /\ \A i \in 1..k : s[i] = a[i]
        /\ Number16(s, k + 1) = Len(r.path) /\ Number32(s, k + 3) = Len(r.body)
        /\ SubSeq(s, k + 7, k + 6 + Len(r.path)) = r.path
        /\ SubSeq(s, k + 7 + Len(r.path), Len(s)) = r.body
    BY <1>14, <1>15, FieldsRead
  <1>3. /\ k \in {6, 7} /\ Len(r.path) \in Nat /\ Len(r.body) \in Nat
        /\ a[1] = 2 /\ a[2] = 1 /\ a[3] = 0 /\ a[4] = 2 /\ a[6] = Post
        /\ k = 6 => a[5] = V1 /\ r.encoding = Raw
        /\ k = 7 => a[5] = V2 /\ a[7] = r.encoding
    <2>1. Len(r.path) \in Nat /\ Len(r.body) \in Nat
      BY DEF Request
    <2>2. CASE Len(t) = 3 /\ t[1] = V2 /\ t[2] = Post /\ t[3] = r.encoding
      <3>1. k = 7
        BY ONLY <1>14, <2>2
      <3> HIDE DEF k
      <3> QED
        BY ONLY <1>14, <2>1, <2>2, <3>1
    <2>3. CASE Len(t) = 2 /\ t[1] = V1 /\ t[2] = Post /\ r.encoding = Raw
      <3>1. k = 6
        BY ONLY <1>14, <2>3
      <3> HIDE DEF k
      <3> QED
        BY ONLY <1>14, <2>1, <2>3, <3>1
    <2> QED
      BY ONLY <1>1, <2>2, <2>3
  <1> HIDE DEF k
  <1>4. /\ s[1] = 2 /\ s[2] = 1 /\ s[3] = 0 /\ s[4] = 2 /\ s[6] = Post
        /\ s[5] = a[5] /\ (k = 7 => s[7] = a[7])
    <2>1. /\ 1 \in 1..k /\ 2 \in 1..k /\ 3 \in 1..k /\ 4 \in 1..k /\ 5 \in 1..k /\ 6 \in 1..k
          /\ (k = 7 => 7 \in 1..k)
      BY <1>3
    <2> QED
      BY <1>2, <1>3, <2>1
  <1>5. LengthsAt(s) = k + 1
    BY <1>3, <1>4 DEF LengthsAt, V1, V2
  <1>16. Len(s) \in Nat /\ Len(s) >= k + 6 /\ k + 1 + 5 = k + 6 /\ Len(s) >= 6 /\ Len(s) >= 4
         /\ (k = 7 => Len(s) >= 7)
    <2>1. \A x \in {6, 7}, y, z \in Nat :
             /\ x + 6 + y + z \in Nat /\ x + 6 + y + z >= x + 6 /\ x + 1 + 5 = x + 6
             /\ x + 6 + y + z >= 6 /\ x + 6 + y + z >= 4 /\ x + 6 + y + z >= 7
      OBVIOUS
    <2> QED
      BY ONLY <1>2, <1>3, <2>1
  <1>6. SubSeq(s, 1, 4) = Magic
    <2> DEFINE u == SubSeq(s, 1, 4)
    <2>1. Len(s) >= 4 /\ Len(s) \in Nat
      BY ONLY <1>16
    <2>2. u \in Seq(Byte) /\ Len(u) = 4 /\ \A i \in 1..4 : u[i] = s[i]
      BY <1>2, <2>1
    <2>3. Magic \in Seq(Byte) /\ Len(Magic) = 4
          /\ Magic[1] = 2 /\ Magic[2] = 1 /\ Magic[3] = 0 /\ Magic[4] = 2
      BY Constants DEF Magic
    <2> HIDE DEF u
    <2>4. \A i \in 1..Len(u) : u[i] = Magic[i]
      <3>1. \A i \in 1..4 : i = 1 \/ i = 2 \/ i = 3 \/ i = 4
        OBVIOUS
      <3> QED
        BY <1>4, <2>2, <2>3, <3>1
    <2>5. u = Magic
      BY <2>2, <2>3, <2>4, SeqEqual
    <2> QED
      BY <2>5 DEF u
  <1>7. r.encoding \in {Raw, Compact}
    BY DEF Request
  <1>8. Headed(s)
    <2>3. k = 6 \/ k = 7
      BY <1>3
    <2>4. s[5] = V1 \/ (s[5] = V2 /\ Len(s) >= 7 /\ s[7] \in {Raw, Compact})
      BY ONLY <1>3, <1>4, <1>7, <1>16, <2>3
    <2>5. Len(s) >= LengthsAt(s) + 5
      BY ONLY <1>5, <1>16
    <2> QED
      BY ONLY <1>4, <1>6, <1>16, <2>4, <2>5 DEF Headed
  <1>9. PathLength(s) = Len(r.path) /\ BodyLength(s) = Len(r.body)
    <2>1. k + 1 + 2 = k + 3
      BY <1>3
    <2> QED
      BY <1>2, <1>5, <2>1 DEF PathLength, BodyLength
  <1>10. Decodes(s)
    BY <1>2, <1>3, <1>5, <1>8, <1>9 DEF Decodes
  <1>11. Decode(s) = [encoding |-> r.encoding, path |-> r.path, body |-> r.body]
    <2>1. /\ LengthsAt(s) + 6 = k + 7 /\ k + 7 + Len(r.path) - 1 = k + 6 + Len(r.path)
      <3>1. \A x \in {6, 7}, y \in Nat : x + 1 + 6 = x + 7 /\ x + 7 + y - 1 = x + 6 + y
        OBVIOUS
      <3> QED
        BY ONLY <1>3, <1>5, <3>1
    <2>2. (IF s[5] = V1 THEN Raw ELSE s[7]) = r.encoding
      BY <1>3, <1>4 DEF V1, V2
    <2> QED
      BY <1>2, <1>9, <2>1, <2>2 DEF Decode
  <1>12. r = [encoding |-> r.encoding, path |-> r.path, body |-> r.body]
    BY DEF Request
  <1> QED
    BY <1>10, <1>11, <1>12
\* The digits of a number that was put together from digits.
LEMMA DigitsOf ==
  ASSUME NEW x \in Byte, NEW y \in Nat, NEW n, n = x + ByteBase * y
  PROVE  n \in Nat /\ n % ByteBase = x /\ n \div ByteBase = y /\ n < ByteBase * (y + 1)
  <1> DEFINE b == ByteBase
             q == n \div b
  <1>1. b \in Nat /\ b > 0 /\ x \in 0..(b - 1)
    BY Constants DEF Byte
  <1>2. n \in Nat
    <2>1. b * y \in Nat
      BY <1>1
    <2> QED
      BY <1>1, <2>1
  <1>3. q \in Nat /\ n % b = n - b * q /\ n % b \in 0..(b - 1)
    BY <1>1, <1>2
  <1> HIDE DEF q, b
  <1>4. \A u, v \in Nat : u < v => b * u + b <= b * v
    <2> SUFFICES ASSUME NEW u \in Nat, NEW v \in Nat, u < v PROVE b * u + b <= b * v
      OBVIOUS
    <2> DEFINE d == v - u - 1
    <2>1. d \in Nat /\ v = u + 1 + d
      OBVIOUS
    <2> HIDE DEF d
    <2>2. b * v = b * u + b + b * d /\ b * d \in Nat /\ b * u \in Nat
      BY ONLY <1>1, <2>1, u \in Nat
    <2> QED
      BY ONLY <1>1, <2>2
  <1>5. n = x + b * y /\ b * y \in Nat /\ b * q \in Nat
    BY <1>1, <1>3 DEF b
  <1>6. ~(q < y)
    <2> SUFFICES ASSUME q < y PROVE FALSE
      OBVIOUS
    <2>1. b * q + b <= b * y
      BY ONLY <1>3, <1>4, q < y, y \in Nat
    <2> QED
      BY ONLY <1>1, <1>2, <1>3, <1>5, <2>1
  <1>7. ~(y < q)
    <2> SUFFICES ASSUME y < q PROVE FALSE
      OBVIOUS
    <2>1. b * y + b <= b * q
      BY ONLY <1>3, <1>4, y < q, y \in Nat
    <2> QED
      BY ONLY <1>1, <1>2, <1>3, <1>5, <2>1
  <1>8. q = y
    BY ONLY <1>3, <1>6, <1>7, y \in Nat
  <1>9. n % b = x
    BY ONLY <1>1, <1>3, <1>5, <1>8
  <1>10. n < b * (y + 1)
    <2>1. b * (y + 1) = b * y + b
      BY ONLY <1>1, y \in Nat
    <2> QED
      BY ONLY <1>1, <1>5, <2>1
  <1> QED
    BY <1>2, <1>8, <1>9, <1>10 DEF q, b

\* Bytes that are read as a number are the bytes of that number.
LEMMA Read16 ==
  ASSUME NEW x \in Byte, NEW y \in Byte, NEW n, n = x + ByteBase * y
  PROVE  n \in Nat /\ n < Limit16 /\ Bytes16(n) = <<x, y>>
  <1>1. n \in Nat /\ n % ByteBase = x /\ n \div ByteBase = y /\ n < ByteBase * (y + 1)
    BY Constants, DigitsOf
  <1>2. y % ByteBase = y
    BY Constants DEF Byte
  <1>3. n < Limit16
    <2>1. \A b \in Nat : \A z \in 0..(b - 1) : b * (z + 1) <= b * b
      <3> SUFFICES ASSUME NEW b \in Nat, NEW z \in 0..(b - 1) PROVE b * (z + 1) <= b * b
        OBVIOUS
      <3> DEFINE d == b - (z + 1)
      <3>1. d \in Nat /\ b = z + 1 + d /\ z + 1 \in Nat
        OBVIOUS
      <3> HIDE DEF d
      <3>2. b * (z + 1 + d) = b * (z + 1) + b * d /\ b * d \in Nat /\ b * (z + 1) \in Nat
        BY ONLY b \in Nat, <3>1
      <3> QED
        BY ONLY <3>1, <3>2, b \in Nat
    <2>2. ByteBase * (y + 1) <= ByteBase * ByteBase
      BY <2>1, Constants DEF Byte
    <2>3. ByteBase * (y + 1) \in Nat /\ ByteBase * ByteBase \in Nat
      BY Constants DEF Byte
    <2> QED
      BY ONLY <1>1, <2>2, <2>3 DEF Limit16
  <1> QED
    BY ONLY <1>1, <1>2, <1>3 DEF Bytes16

LEMMA Read32 ==
  ASSUME NEW x \in Byte, NEW y \in Byte, NEW z \in Byte, NEW w \in Byte,
         NEW n, n = (x + ByteBase * y) + ByteBase * (ByteBase * (z + ByteBase * w))
  PROVE  n \in Nat /\ n < Limit32 /\ Bytes32(n) = <<x, y>> \o <<z, w>>
  <1> DEFINE m == z + ByteBase * w
             k == y + ByteBase * m
  <1>1. m \in Nat /\ m < Limit16 /\ Bytes16(m) = <<z, w>>
    BY Read16
  <1> HIDE DEF m
  <1>2. k \in Nat /\ k % ByteBase = y /\ k \div ByteBase = m
    BY <1>1, DigitsOf
  <1>3. n = x + ByteBase * k
    <2>1. \A b, s, t, u \in Nat : (s + b * t) + b * (b * u) = s + b * (t + b * u)
      OBVIOUS
    <2>2. x \in Nat /\ y \in Nat /\ ByteBase \in Nat
      BY Constants
    <2>3. n = (x + ByteBase * y) + ByteBase * (ByteBase * m)
      BY DEF m
    <2> QED
      BY ONLY <1>1, <2>1, <2>2, <2>3
  <1> HIDE DEF k
  <1>4. n \in Nat /\ n % ByteBase = x /\ n \div ByteBase = k /\ n < ByteBase * (k + 1)
    BY <1>2, <1>3, DigitsOf
  <1>5. n < Limit32
    <2>1. \A b, s, t \in Nat : s < t => b * (s + 1) <= b * t
      <3> SUFFICES ASSUME NEW b \in Nat, NEW s \in Nat, NEW t \in Nat, s < t PROVE b * (s + 1) <= b * t
        OBVIOUS
      <3> DEFINE d == t - (s + 1)
      <3>1. d \in Nat /\ t = s + 1 + d
        OBVIOUS
      <3> HIDE DEF d
      <3>2. b * (s + 1 + d) = b * (s + 1) + b * d /\ b * d \in Nat /\ b * (s + 1) \in Nat
        BY ONLY b \in Nat, s \in Nat, <3>1
      <3> QED
        BY ONLY <3>1, <3>2, b \in Nat
    <2>2. ByteBase \in Nat /\ Limit16 \in Nat /\ ByteBase * Limit16 \in Nat /\ ByteBase * m \in Nat
      BY <1>1, Constants DEF Limit16
    <2>3. k < ByteBase * (m + 1)
      BY <1>1, DigitsOf DEF k
    <2>4. ByteBase * (m + 1) <= ByteBase * Limit16 /\ ByteBase * (m + 1) \in Nat
      BY ONLY <1>1, <2>1, <2>2
    <2>5. k < ByteBase * Limit16
      BY ONLY <1>2, <2>2, <2>3, <2>4
    <2>6. ByteBase * (k + 1) <= ByteBase * (ByteBase * Limit16) /\ ByteBase * (k + 1) \in Nat
          /\ ByteBase * (ByteBase * Limit16) \in Nat
      BY ONLY <1>2, <2>1, <2>2, <2>5
    <2> QED
      BY ONLY <1>4, <2>6 DEF Limit32
  <1>6. Bytes16(n) = <<x, y>>
    BY ONLY <1>2, <1>4 DEF Bytes16
  <1>7. Bytes32(n) = Bytes16(n) \o Bytes16(m)
    BY ONLY <1>2, <1>4 DEF Bytes32
  <1> QED
    BY ONLY <1>1, <1>4, <1>5, <1>6, <1>7

\* Two and three bytes of a sequence, one by one.
LEMMA TwoBytes ==
  ASSUME NEW s \in Seq(Byte), NEW i \in 1..Len(s), i + 1 \in 1..Len(s)
  PROVE  SubSeq(s, i, i + 1) = <<s[i], s[i + 1]>>
  <1> DEFINE u == SubSeq(s, i, i + 1)
             v == <<s[i], s[i + 1]>>
  <1>1. u \in Seq(Byte) /\ Len(u) = 2 /\ \A j \in 1..2 : u[j] = s[i + j - 1]
    OBVIOUS
  <1>2. v \in Seq(Byte) /\ Len(v) = 2 /\ v[1] = s[i] /\ v[2] = s[i + 1]
    OBVIOUS
  <1>3. i + 1 - 1 = i /\ i + 2 - 1 = i + 1 /\ (\A j \in 1..2 : j = 1 \/ j = 2)
    OBVIOUS
  <1> HIDE DEF u, v
  <1>4. \A j \in 1..2 : u[j] = v[j]
    BY ONLY <1>1, <1>2, <1>3
  <1>5. u = v
    BY ONLY <1>1, <1>2, <1>4, SeqEqual
  <1> QED
    BY ONLY <1>5 DEF u, v

LEMMA ThreeBytes ==
  ASSUME NEW s \in Seq(Byte), NEW i \in 1..Len(s), i + 2 \in 1..Len(s)
  PROVE  SubSeq(s, i, i + 2) = <<s[i], s[i + 1], s[i + 2]>>
  <1> DEFINE u == SubSeq(s, i, i + 2)
             v == <<s[i], s[i + 1], s[i + 2]>>
  <1>1. u \in Seq(Byte) /\ Len(u) = 3 /\ \A j \in 1..3 : u[j] = s[i + j - 1]
    OBVIOUS
  <1>2. v \in Seq(Byte) /\ Len(v) = 3 /\ v[1] = s[i] /\ v[2] = s[i + 1] /\ v[3] = s[i + 2]
    OBVIOUS
  <1>3. /\ i + 1 - 1 = i /\ i + 2 - 1 = i + 1 /\ i + 3 - 1 = i + 2
        /\ (\A j \in 1..3 : j = 1 \/ j = 2 \/ j = 3)
    OBVIOUS
  <1> HIDE DEF u, v
  <1>4. \A j \in 1..3 : u[j] = v[j]
    BY ONLY <1>1, <1>2, <1>3
  <1>5. u = v
    BY ONLY <1>1, <1>2, <1>4, SeqEqual
  <1> QED
    BY ONLY <1>5 DEF u, v

\* Two adjacent parts of a sequence make one.
Joins(s, m, k, n) == SubSeq(s, m, k) \o SubSeq(s, k + 1, n) = SubSeq(s, m, n)
LEMMA Adjacent ==
  ASSUME NEW s \in Seq(Byte), NEW m \in 1..(Len(s) + 1), NEW k \in (m - 1)..Len(s), NEW n \in k..Len(s)
  PROVE  Joins(s, m, k, n)
  BY ConcatAdjacentSubSeq DEF Joins

\* A sequence that ends with six bytes and two fields of p and c bytes, in parts.
Parted(s, k, p, c) ==
    /\ s = SubSeq(s, 1, 4) \o SubSeq(s, 5, k) \o SubSeq(s, k + 1, k + 6)
             \o SubSeq(s, k + 7, k + 6 + p) \o SubSeq(s, k + 7 + p, Len(s))
    /\ SubSeq(s, k + 1, k + 6)
         = SubSeq(s, k + 1, k + 2) \o (SubSeq(s, k + 3, k + 4) \o SubSeq(s, k + 5, k + 6))
    /\ SubSeq(s, k + 7, k + 6 + p) \in Seq(Byte) /\ Len(SubSeq(s, k + 7, k + 6 + p)) = p
    /\ SubSeq(s, k + 7 + p, Len(s)) \in Seq(Byte) /\ Len(SubSeq(s, k + 7 + p, Len(s))) = c

LEMMA InParts ==
  ASSUME NEW s \in Seq(Byte), NEW k \in Nat, NEW p \in Nat, NEW c \in Nat,
         k >= 4, Len(s) = k + 6 + p + c
  PROVE  Parted(s, k, p, c)
  <1> DEFINE n == Len(s)
  <1>1. n \in Nat /\ n = k + 6 + p + c
    OBVIOUS
  <1>2. /\ 1 \in 1..(n + 1) /\ 4 \in (1 - 1)..n /\ k \in 4..n
        /\ k \in (1 - 1)..n /\ k + 6 \in k..n
        /\ k + 6 \in (1 - 1)..n /\ k + 6 + p \in (k + 6)..n
        /\ k + 6 + p \in (1 - 1)..n /\ n \in (k + 6 + p)..n
    BY ONLY <1>1, k \in Nat, p \in Nat, c \in Nat, k >= 4
  <1>3. Joins(s, 1, 4, k) /\ Joins(s, 1, k, k + 6) /\ Joins(s, 1, k + 6, k + 6 + p) /\ Joins(s, 1, k + 6 + p, n)
    BY ONLY <1>2, s \in Seq(Byte), Adjacent
  <1>4. /\ k + 1 \in 1..(n + 1) /\ k + 2 \in (k + 1 - 1)..n /\ k + 6 \in (k + 2)..n
        /\ k + 3 \in 1..(n + 1) /\ k + 4 \in (k + 3 - 1)..n /\ k + 6 \in (k + 4)..n
    BY ONLY <1>1, k \in Nat, p \in Nat, c \in Nat, k >= 4
  <1>5. Joins(s, k + 1, k + 2, k + 6) /\ Joins(s, k + 3, k + 4, k + 6)
    BY ONLY <1>4, s \in Seq(Byte), Adjacent
  <1>6. /\ 4 + 1 = 5 /\ k + 6 + 1 = k + 7 /\ k + 6 + p + 1 = k + 7 + p
        /\ k + 2 + 1 = k + 3 /\ k + 4 + 1 = k + 5
    BY ONLY k \in Nat, p \in Nat
  <1>7. SubSeq(s, 1, n) = s
    BY ONLY s \in Seq(Byte), SubSeqFull
  <1>8. s = SubSeq(s, 1, 4) \o SubSeq(s, 5, k) \o SubSeq(s, k + 1, k + 6)
              \o SubSeq(s, k + 7, k + 6 + p) \o SubSeq(s, k + 7 + p, n)
    BY ONLY <1>3, <1>6, <1>7 DEF Joins
  <1>9. SubSeq(s, k + 1, k + 6)
          = SubSeq(s, k + 1, k + 2) \o (SubSeq(s, k + 3, k + 4) \o SubSeq(s, k + 5, k + 6))
    BY ONLY <1>5, <1>6 DEF Joins
  <1>10. SubSeq(s, k + 7, k + 6 + p) \in Seq(Byte) /\ Len(SubSeq(s, k + 7, k + 6 + p)) = p
    OBVIOUS
  <1>11. SubSeq(s, k + 7 + p, n) \in Seq(Byte) /\ Len(SubSeq(s, k + 7 + p, n)) = c
    OBVIOUS
  <1> QED
    BY <1>8, <1>9, <1>10, <1>11 DEF Parted

\* What decodes is the envelope of the request it decodes to.
LEMMA OnlyEnvelopesDecode ==
  ASSUME NEW s \in Seq(Byte), Decodes(s)
  PROVE  Decode(s) \in Request /\ Encodable(Decode(s)) /\ IsOf(s, Decode(s))
  <1> DEFINE k == LengthsAt(s) - 1
             p == PathLength(s)
             c == BodyLength(s)
             r == Decode(s)
             b == ByteBase
  <1>1. k \in {6, 7} /\ LengthsAt(s) = k + 1 /\ (k = 6 <=> s[5] = V1)
    BY DEF LengthsAt
  <1>2. /\ Len(s) \in Nat /\ Len(s) >= k + 6 /\ Len(s) = k + 6 + p + c
        /\ SubSeq(s, 1, 4) = Magic /\ s[6] = Post
        /\ (s[5] = V1 \/ (s[5] = V2 /\ s[7] \in {Raw, Compact}))
    <2>1. /\ Len(s) >= LengthsAt(s) + 5 /\ Len(s) = LengthsAt(s) + 5 + p + c
          /\ SubSeq(s, 1, 4) = Magic /\ s[6] = Post
          /\ (s[5] = V1 \/ (s[5] = V2 /\ s[7] \in {Raw, Compact}))
      BY DEF Decodes, Headed
    <2>2. LengthsAt(s) + 5 = k + 6
      BY <1>1
    <2> QED
      BY <2>1, <2>2
  <1> HIDE DEF k
  <1>3. \A i \in 1..(k + 6) : i \in 1..Len(s) /\ s[i] \in Byte
    BY <1>1, <1>2
  <1>4. /\ 5 \in 1..(k + 6) /\ 6 \in 1..(k + 6) /\ 7 \in 1..(k + 6)
        /\ k + 1 \in 1..(k + 6) /\ k + 2 \in 1..(k + 6) /\ k + 3 \in 1..(k + 6)
        /\ k + 4 \in 1..(k + 6) /\ k + 5 \in 1..(k + 6) /\ k + 6 \in 1..(k + 6)
    BY ONLY <1>1
  <1>5. /\ k + 1 + 1 = k + 2 /\ k + 3 + 1 = k + 4 /\ k + 5 + 1 = k + 6
        /\ k + 1 + 2 = k + 3 /\ k + 3 + 2 = k + 5
    BY ONLY <1>1
  <1>6. p \in Nat /\ p < Limit16 /\ Bytes16(p) = <<s[k + 1], s[k + 2]>>
    <2>1. p = s[k + 1] + ByteBase * s[k + 2]
      BY <1>1, <1>5 DEF PathLength, Number16
    <2>2. s[k + 1] \in Byte /\ s[k + 2] \in Byte
      BY <1>3, <1>4
    <2> HIDE DEF p
    <2> QED
      BY ONLY <2>1, <2>2, Read16
  <1>7. c \in Nat /\ c < Limit32 /\ Bytes32(c) = <<s[k + 3], s[k + 4]>> \o <<s[k + 5], s[k + 6]>>
    <2>1. c = (s[k + 3] + ByteBase * s[k + 4]) + ByteBase * (ByteBase * (s[k + 5] + ByteBase * s[k + 6]))
      BY <1>1, <1>5 DEF BodyLength, Number32, Number16
    <2>2. s[k + 3] \in Byte /\ s[k + 4] \in Byte /\ s[k + 5] \in Byte /\ s[k + 6] \in Byte
      BY <1>3, <1>4
    <2> HIDE DEF c
    <2> DEFINE x == s[k + 3]
               y == s[k + 4]
               z == s[k + 5]
               w == s[k + 6]
    <2>3. /\ x \in Byte /\ y \in Byte /\ z \in Byte /\ w \in Byte
          /\ c = (x + ByteBase * y) + ByteBase * (ByteBase * (z + ByteBase * w))
      BY <2>1, <2>2
    <2> HIDE DEF x, y, z, w
    <2>4. c \in Nat /\ c < Limit32 /\ Bytes32(c) = <<x, y>> \o <<z, w>>
      BY ONLY <2>3, Read32
    <2> QED
      BY <2>4 DEF x, y, z, w
  <1> HIDE DEF p, c
  <1> DEFINE path == SubSeq(s, k + 7, k + 6 + p)
             body == SubSeq(s, k + 7 + p, Len(s))
  <1>8. k \in Nat /\ k >= 4
    BY ONLY <1>1
  <1>9. /\ s = SubSeq(s, 1, 4) \o SubSeq(s, 5, k) \o SubSeq(s, k + 1, k + 6) \o path \o body
        /\ SubSeq(s, k + 1, k + 6)
             = SubSeq(s, k + 1, k + 2) \o (SubSeq(s, k + 3, k + 4) \o SubSeq(s, k + 5, k + 6))
        /\ path \in Seq(Byte) /\ Len(path) = p
        /\ body \in Seq(Byte) /\ Len(body) = c
    <2>1. Parted(s, k, p, c)
      BY ONLY <1>2, <1>6, <1>7, <1>8, s \in Seq(Byte), InParts
    <2> QED
      BY ONLY <2>1 DEF Parted
  <1>10. SubSeq(s, k + 1, k + 6) = Bytes16(p) \o Bytes32(c)
    <2>1. /\ SubSeq(s, k + 1, k + 1 + 1) = <<s[k + 1], s[k + 1 + 1]>>
          /\ SubSeq(s, k + 3, k + 3 + 1) = <<s[k + 3], s[k + 3 + 1]>>
          /\ SubSeq(s, k + 5, k + 5 + 1) = <<s[k + 5], s[k + 5 + 1]>>
      <3>1. /\ k + 1 \in 1..Len(s) /\ k + 1 + 1 \in 1..Len(s)
            /\ k + 3 \in 1..Len(s) /\ k + 3 + 1 \in 1..Len(s)
            /\ k + 5 \in 1..Len(s) /\ k + 5 + 1 \in 1..Len(s)
        BY ONLY <1>3, <1>4, <1>5
      <3> QED
        BY ONLY <3>1, s \in Seq(Byte), TwoBytes
    <2> QED
      BY ONLY <1>5, <1>6, <1>7, <1>9, <2>1
  <1>11. r = [encoding |-> IF s[5] = V1 THEN Raw ELSE s[7], path |-> path, body |-> body]
    <2>1. LengthsAt(s) + 6 = k + 7
      BY ONLY <1>1
    <2>2. k + 7 + p - 1 = k + 6 + p
      BY ONLY <1>6, <1>8
    <2> QED
      BY <2>1, <2>2 DEF Decode, p
  <1> HIDE DEF r, path, body
  <1>12. /\ r.path = path /\ r.body = body /\ r.encoding = IF s[5] = V1 THEN Raw ELSE s[7]
    BY ONLY <1>11
  <1>13. r \in Request
    <2>1. (IF s[5] = V1 THEN Raw ELSE s[7]) \in {Raw, Compact}
      BY <1>2
    <2> QED
      BY ONLY <1>9, <1>11, <2>1 DEF Request
  <1>14. Encodable(r)
    BY ONLY <1>6, <1>7, <1>9, <1>12 DEF Encodable
  <1>15. Lengths(r) = SubSeq(s, k + 1, k + 6)
    BY ONLY <1>9, <1>10, <1>12 DEF Lengths
  <1>16. IsOf(s, r)
    <2>1. s = Magic \o SubSeq(s, 5, k) \o Lengths(r) \o r.path \o r.body
      BY ONLY <1>2, <1>9, <1>12, <1>15
    <2>2. CASE s[5] = V1
      <3>1. SubSeq(s, 5, 5 + 1) = <<s[5], s[5 + 1]>>
        <4>1. 5 \in 1..Len(s) /\ 5 + 1 \in 1..Len(s)
          BY <1>3, <1>4
        <4> QED
          BY ONLY <4>1, s \in Seq(Byte), TwoBytes
      <3>2. SubSeq(s, 5, k) = <<V1, Post>> /\ r.encoding = Raw
        BY ONLY <1>1, <1>2, <1>12, <2>2, <3>1
      <3> QED
        BY ONLY <2>1, <3>2 DEF IsOf, EncodeV1
    <2>3. CASE s[5] # V1
      <3>1. SubSeq(s, 5, 5 + 2) = <<s[5], s[5 + 1], s[5 + 2]>>
        <4>1. 5 \in 1..Len(s) /\ 5 + 2 \in 1..Len(s)
          BY <1>3, <1>4
        <4> QED
          BY ONLY <4>1, s \in Seq(Byte), ThreeBytes
      <3>2. SubSeq(s, 5, k) = <<V2, Post, r.encoding>>
        BY ONLY <1>1, <1>2, <1>12, <2>3, <3>1
      <3> QED
        BY ONLY <2>1, <3>2 DEF IsOf, Encode
    <2> QED
      BY ONLY <2>2, <2>3
  <1> QED
    BY ONLY <1>13, <1>14, <1>16 DEF r

\* The bytes that decode are the envelopes of either version, and each decodes to the
\* request it was made of (encodeRequestEnvelope(), decodeRequestEnvelope()).
THEOREM EnvelopesAreExact ==
  ASSUME NEW s \in Seq(Byte)
  PROVE  /\ Decodes(s) <=> \E r \in Request : Encodable(r) /\ IsOf(s, r)
         /\ \A r \in Request : Encodable(r) /\ IsOf(s, r) => Decode(s) = r
  <1>1. \A r \in Request : Encodable(r) /\ IsOf(s, r) => Decodes(s) /\ Decode(s) = r
    BY RoundTrip
  <1>2. Decodes(s) => \E r \in Request : Encodable(r) /\ IsOf(s, r)
    BY OnlyEnvelopesDecode
  <1> QED
    BY <1>1, <1>2

-----------------------------------------------------------------------------
(* What is stored and what is posted.                                        *)

\* The bytes of a payload are those of its request; without one they are what an earlier
\* firmware left that is none, or nothing yet.
RecordOf(p) ==
    IF request[p] = None
    THEN record[p] = <<>> \/ \E old \in Inherited : old.request = None /\ record[p] = old.bytes
    ELSE request[p] \in Request /\ Encodable(request[p]) /\ IsOf(record[p], request[p])
StoredInv ==
    /\ DOMAIN record = Payload /\ DOMAIN request = Payload /\ queued \subseteq Payload
    /\ \A p \in Payload : RecordOf(p)

\* No request is None.
LEMMA RequestIsSome == None \notin Request
  <1> SUFFICES ASSUME None \in Request PROVE FALSE
    OBVIOUS
  <1>1. DOMAIN None = {"encoding", "path", "body"} /\ DOMAIN None = {"none"}
    BY DEF Request, None
  <1>2. "path" # "none"
    OBVIOUS
  <1> QED
    BY <1>1, <1>2

LEMMA StoredStart == HttpInit => StoredInv
  <1> SUFFICES ASSUME HttpInit PROVE StoredInv
    OBVIOUS
  <1>1. DOMAIN record = Payload /\ DOMAIN request = Payload
    BY DEF HttpInit
  <1>2. CASE InitWith(<<>>) /\ record = [p \in Payload |-> <<>>] /\ request = [p \in Payload |-> None]
    <2>1. queued = {}
      BY <1>2 DEF HttpInit, InitWith, Range
    <2> QED
      BY <1>1, <1>2, <2>1 DEF StoredInv, RecordOf
  <1>3. CASE /\ InitWith(<<1>>)
             /\ \E old \in Inherited :
                  /\ record  = [p \in Payload |-> IF p = 1 THEN old.bytes ELSE <<>>]
                  /\ request = [p \in Payload |-> IF p = 1 THEN old.request ELSE None]
    <2>1. PICK old \in Inherited :
            /\ record  = [p \in Payload |-> IF p = 1 THEN old.bytes ELSE <<>>]
            /\ request = [p \in Payload |-> IF p = 1 THEN old.request ELSE None]
      BY <1>3
    <2>2. 1 \in Payload /\ (old.request # None =>
            old.request \in Request /\ Encodable(old.request) /\ IsOf(old.bytes, old.request))
      BY <2>1, HttpConstants
    <2>3. queued \subseteq Payload
      <3>1. queued = Range(<<1>>)
        BY <1>3 DEF HttpInit, InitWith
      <3>2. \A q \in Range(<<1>>) : q = 1
        BY DEF Range
      <3> QED
        BY <2>2, <3>1, <3>2
    <2>4. ASSUME NEW p \in Payload PROVE RecordOf(p)
      <3>1. CASE p = 1
        <4>1. record[p] = old.bytes /\ request[p] = old.request
          BY <2>1, <2>2, <3>1
        <4> QED
          BY <2>1, <2>2, <4>1 DEF RecordOf
      <3>2. CASE p # 1
        <4>1. record[p] = <<>> /\ request[p] = None
          BY <2>1, <3>2
        <4> QED
          BY <4>1 DEF RecordOf
      <3> QED
        BY <3>1, <3>2
    <2> QED
      BY <1>1, <2>3, <2>4 DEF StoredInv
  <1> QED
    BY <1>2, <1>3 DEF HttpInit

\* A record is written when its request is submitted and never again.
LEMMA StoredStep == HttpInv /\ StoredInv /\ [HttpNext]_httpVars => StoredInv'
  <1> SUFFICES ASSUME HttpInv, StoredInv, [HttpNext]_httpVars PROVE StoredInv'
    OBVIOUS
  <1>1. queued' \subseteq Payload
    <2>1. HttpInv'
      BY HttpStep
    <2>2. queue' \in Seq(Payload)
      BY <2>1 DEF HttpInv, DelayInv, TypesInv, AttemptsInv, OrderInv, DeliveryInv, QueueTypes
    <2>3. Range(queue') \subseteq Payload
      <3>1. \A i \in 1..Len(queue') : queue'[i] \in Payload
        BY <2>2
      <3>2. DOMAIN queue' = 1..Len(queue')
        BY <2>2
      <3> QED
        BY <3>1, <3>2 DEF Range
    <2>4. Queued \/ queued' = queued
      BY DEF HttpNext, Posting, Deciding, SubmitPost, SubmitRefused, PostRequest, RequestSent,
             RequestRejected, RequestRetryLater, Unpostable, Underneath, Reboot, httpVars, httpSeen
    <2> QED
      BY <2>3, <2>4 DEF Queued, StoredInv
  <1>2. ASSUME NEW r \in Requests, SubmitPost(r) PROVE StoredInv'
    <2>1. /\ next \in Payload /\ Encodable(r) /\ r \in Request /\ r # None
          /\ record' = [record EXCEPT ![next] = Encode(r)]
          /\ request' = [request EXCEPT ![next] = r]
      BY <1>2, HttpConstants, RequestIsSome DEF SubmitPost, Submit
    <2>2. ASSUME NEW p \in Payload PROVE RecordOf(p)'
      <3>1. CASE p = next
        <4>1. record'[p] = Encode(r) /\ request'[p] = r
          BY <2>1, <3>1 DEF StoredInv
        <4> QED
          BY <2>1, <4>1 DEF RecordOf, IsOf
      <3>2. CASE p # next
        <4>1. record'[p] = record[p] /\ request'[p] = request[p]
          BY <2>1, <3>2 DEF StoredInv
        <4> QED
          BY <4>1 DEF StoredInv, RecordOf
      <3> QED
        BY <3>1, <3>2
    <2>3. DOMAIN record' = Payload /\ DOMAIN request' = Payload
      BY <2>1 DEF StoredInv
    <2> QED
      BY <1>1, <2>2, <2>3 DEF StoredInv
  <1>3. CASE UNCHANGED <<record, request>>
    BY <1>1, <1>3 DEF StoredInv, RecordOf
  <1> QED
    BY <1>2, <1>3 DEF HttpNext, Posting, Deciding, SubmitRefused, PostRequest, RequestSent,
       RequestRejected, RequestRetryLater, Unpostable, Underneath, Reboot, Over, httpVars, httpSeen

\* Whatever submitPost() and submitCompactPost() accepted is decoded again, by this and
\* by a later firmware (encodeRequestEnvelope(), decodeRequestEnvelope()).
THEOREM AcceptedIsDecoded == HttpSpec => []StoredDecodes
  <1>1. StoredInv => StoredDecodes
    BY RoundTrip DEF StoredInv, RecordOf, StoredDecodes
  <1> QED
    BY <1>1, HttpStart, HttpStep, StoredStart, StoredStep, PTL DEF HttpSpec

\* A path is its first byte and the rest, a base URL its last byte and what precedes it.
LEMMA HeadFirst ==
  ASSUME NEW S, NEW s \in Seq(S), s # <<>>
  PROVE  s = <<Head(s)>> \o Tail(s) /\ Tail(s) \in Seq(S)
  <1>1. Len(s) \in Nat /\ Len(s) >= 1 /\ Head(s) = s[1] /\ Tail(s) \in Seq(S)
    OBVIOUS
  <1>2. 1 \in 1..Len(s) /\ Len(s) \in 1..Len(s) /\ 1 + 1 = 2
    BY ONLY <1>1
  <1>3. SubSeq(s, 1, Len(s)) = <<s[1]>> \o SubSeq(s, 1 + 1, Len(s))
    BY ONLY <1>2, s \in Seq(S), SubSeqRecursiveFirst
  <1>4. Tail(s) = SubSeq(s, 2, Len(s)) /\ SubSeq(s, 1, Len(s)) = s
    BY ONLY s \in Seq(S), s # <<>>, TailIsSubSeq, SubSeqFull
  <1> QED
    BY ONLY <1>1, <1>2, <1>3, <1>4

LEMMA LastLast ==
  ASSUME NEW S, NEW s \in Seq(S), s # <<>>
  PROVE  s = Front(s) \o <<Last(s)>> /\ Front(s) \in Seq(S)
  <1>1. Len(s) \in Nat /\ Len(s) >= 1
    OBVIOUS
  <1>2. 1 \in 1..Len(s) /\ Len(s) \in 1..Len(s)
    BY ONLY <1>1
  <1>3. SubSeq(s, 1, Len(s)) = SubSeq(s, 1, Len(s) - 1) \o <<s[Len(s)]>>
    BY ONLY <1>2, s \in Seq(S), SubSeqRecursiveSecond
  <1>4. SubSeq(s, 1, Len(s)) = s
    BY ONLY s \in Seq(S), SubSeqFull
  <1>5. SubSeq(s, 1, Len(s) - 1) \in Seq(S)
    BY <1>1
  <1> QED
    BY ONLY <1>3, <1>4, <1>5 DEF Front, Last

\* buildUrl() puts exactly one slash between the base URL and the path.
LEMMA OneSlash == ASSUME NEW path \in Seq(Byte) PROVE BuildUrl(path) = UrlOf(path)
  <1>1. CASE BaseUrl = <<>> \/ path = <<>>
    BY <1>1 DEF BuildUrl, UrlOf
  <1>2. CASE BaseUrl # <<>> /\ path # <<>>
    <2>1. /\ path = <<Head(path)>> \o Tail(path) /\ Tail(path) \in Seq(Byte)
      BY <1>2, HeadFirst
    <2>2. BaseUrl \in Seq(Byte)
      BY HttpConstants
    <2>3. /\ BaseUrl = Front(BaseUrl) \o <<Last(BaseUrl)>> /\ Front(BaseUrl) \in Seq(Byte)
      BY <1>2, <2>2, LastLast
    <2>4. <<Slash>> \in Seq(Byte)
      BY Constants DEF Slash
    <2>5. CASE Last(BaseUrl) = Slash /\ Head(path) = Slash
      BY <1>2, <2>3, <2>5 DEF BuildUrl, UrlOf, WithoutSlash, Relative
    <2>6. CASE Last(BaseUrl) # Slash /\ Head(path) # Slash
      BY <1>2, <2>6 DEF BuildUrl, UrlOf, WithoutSlash, Relative
    <2>7. CASE Last(BaseUrl) = Slash /\ Head(path) # Slash
      BY <1>2, <2>3, <2>7 DEF BuildUrl, UrlOf, WithoutSlash, Relative
    <2>8. CASE Last(BaseUrl) # Slash /\ Head(path) = Slash
      <3>1. BaseUrl \o (<<Slash>> \o Tail(path)) = (BaseUrl \o <<Slash>>) \o Tail(path)
        BY <2>1, <2>2, <2>4
      <3> QED
        BY <1>2, <2>1, <2>8, <3>1 DEF BuildUrl, UrlOf, WithoutSlash, Relative
    <2> QED
      BY <2>5, <2>6, <2>7, <2>8
  <1> QED
    BY <1>1, <1>2

\* What was posted is what decoding gave, in terms of what was submitted.
PostedInv ==
    Answered => /\ request[sending] # None
                /\ posted = [url |-> BuildUrl(request[sending].path), body |-> Content(request[sending])]

\* Bytes an earlier firmware left that count as no request are no envelope of one.
JunkIsNoRequest ==
    \A old \in Inherited : old.request = None => \A r \in Request : Encodable(r) => ~IsOf(old.bytes, r)

LEMMA PostedStep == JunkIsNoRequest /\ HttpInv /\ StoredInv /\ PostedInv /\ [HttpNext]_httpVars => PostedInv'
  <1> SUFFICES ASSUME JunkIsNoRequest, HttpInv, StoredInv, PostedInv, [HttpNext]_httpVars PROVE PostedInv'
    OBVIOUS
  <1>1. OrderInv /\ AnswerInv
    BY OutboxOrder DEF HttpInv
  <1>2. ASSUME NEW r \in Requests, SubmitPost(r) PROVE ~Answered'
    BY <1>1, <1>2 DEF SubmitPost, Submit, AnswerInv, Sending, Answered
  <1>3. ASSUME NEW a \in Answers, PostRequest(a) PROVE PostedInv'
    <2>1. /\ Sending /\ Decodes(Stored) /\ UNCHANGED <<request, sending>>
          /\ posted' = [url |-> BuildUrl(Decode(Stored).path), body |-> Content(Decode(Stored))]
      BY <1>3 DEF PostRequest, Postable, vars
    <2>2. sending \in Payload
      BY <1>1, <2>1 DEF Sending, OrderInv, DeliveryInv, QueueTypes, FrontIsSent
    <2>3. request[sending] # None
      <3>1. SUFFICES ASSUME request[sending] = None PROVE FALSE
        OBVIOUS
      <3>2. record[sending] = <<>> \/ \E old \in Inherited : old.request = None /\ record[sending] = old.bytes
        BY <2>2, <3>1 DEF StoredInv, RecordOf
      <3>3. ~Decodes(<<>>)
        BY DEF Decodes, Headed
      <3>4. \A old \in Inherited : old.request = None => ~Decodes(old.bytes)
        BY HttpConstants, OnlyEnvelopesDecode DEF JunkIsNoRequest
      <3> QED
        BY <2>1, <3>2, <3>3, <3>4 DEF Stored
    <2>4. Decode(Stored) = request[sending]
      BY <2>2, <2>3, RoundTrip DEF StoredInv, RecordOf, Stored
    <2>5. Content(request[sending])' = Content(request[sending])
      BY <2>1 DEF Content, Expanded
    <2>6. BuildUrl(request[sending].path)' = BuildUrl(request[sending].path)
      BY <2>1 DEF BuildUrl
    <2> QED
      BY <2>1, <2>3, <2>4, <2>5, <2>6 DEF PostedInv
  <1>4. CASE Deciding \/ Reboot
    BY <1>4 DEF Deciding, RequestSent, RequestRejected, RequestRetryLater, Unpostable, Reboot,
                Over, PostedInv, Answered
  <1>5. CASE UNCHANGED <<posted, request>> /\ (Sending => sending' = sending)
    <2>1. SUFFICES ASSUME Answered' PROVE PostedInv'
      BY DEF PostedInv
    <2>2. Answered /\ sending' = sending /\ request' = request /\ posted' = posted
      BY <1>1, <1>5, <2>1 DEF Answered, AnswerInv
    <2> QED
      BY <2>2 DEF PostedInv, BuildUrl, Content, Expanded
  <1>6. Underneath => UNCHANGED <<posted, request>> /\ (Sending => sending' = sending)
    BY DEF Underneath, Drain, DrainUpTo, Return, QueueEmpty, PeekFails, NotDue, Sending,
           DropCorruptFrontRecord, DrainSendStart, Tick, Damage
  <1>7. (UNCHANGED httpVars \/ \E r \in Requests : SubmitRefused(r)) => UNCHANGED <<posted, request, sending>>
    BY DEF SubmitRefused, httpVars, httpSeen, vars
  <1> QED
    BY <1>2, <1>3, <1>4, <1>5, <1>6, <1>7 DEF HttpNext, Posting, PostedInv

\* The transport is given nothing but what the application submitted, at the URL it asked
\* for, whichever firmware stored it (sendStoredRequest(), buildUrl()).
THEOREM OnlySubmittedIsPosted == ASSUME JunkIsNoRequest PROVE HttpSpec => []PostedAsSubmitted
  <1>1. StoredInv /\ PostedInv /\ HttpInv => PostedAsSubmitted
    <2> SUFFICES ASSUME StoredInv, PostedInv, HttpInv, Answered PROVE PostedAsSubmitted
      BY DEF PostedAsSubmitted
    <2>1. OrderInv /\ Sending
      BY OutboxOrder DEF HttpInv, AnswerInv
    <2>2. sending \in Payload
      BY <2>1 DEF Sending, OrderInv, DeliveryInv, QueueTypes, FrontIsSent
    <2>3. request[sending] \in Request
      BY <2>2 DEF StoredInv, RecordOf, PostedInv
    <2>4. request[sending].path \in Seq(Byte)
      BY <2>3 DEF Request
    <2> QED
      BY <2>4, OneSlash DEF PostedInv, PostedAsSubmitted
  <1>2. HttpInit => PostedInv
    BY DEF HttpInit, PostedInv, Answered
  <1> QED
    BY <1>1, <1>2, HttpStart, HttpStep, StoredStart, StoredStep, PostedStep, PTL DEF HttpSpec
=============================================================================
