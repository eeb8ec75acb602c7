------------------------------- MODULE Outbox -------------------------------
(***************************************************************************)
(* pqueue::Outbox (outbox.cpp) over pqueue::Queue (queue.cpp): submit()      *)
(* sends at once when nothing is queued and queues otherwise; drainUpTo()    *)
(* retries the front under a cooldown and a rate limit, all of it kept in    *)
(* RAM.  The store below is the durable FIFO the other modules are about; a  *)
(* call on it that reports an error leaves the queue as it was.  Payloads    *)
(* are numbered in the order they are submitted.                             *)
(*                                                                           *)
(* Time is kept as what is left of each delay, so that no clock bounds a     *)
(* run: Tick is one unit of the monotonic clock.                             *)
(***************************************************************************)
EXTENDS Integers, FiniteSets, Functions, Sequences

CONSTANTS
    Policies,           \* values of config_.fullQueuePolicy to start with
    Capacity,           \* records the store has room for
    InitialRetryDelay,  \* config_.initialRetryDelayMs
    MaxRetryDelay,      \* config_.maxRetryDelayMs
    JitterPct,          \* config_.jitterPct, 0 also for no RandCallback
    Hints,              \* SendResult::retryAfterMs, 0 for none
    Window,             \* the 1000 ms of the rate limit
    MaxDrainAttempts,   \* maxDrainAttemptsPerSecond()
    MaxCorruptDrops,    \* config_.maxCorruptDropsPerLifetime
    AttemptsLimit,      \* the uint8_t maximum at which frontAttempts_ stays
    Faults,             \* what may fail: "stats", "peek", "pop", "enqueue", "power", "flash"
    MaxPayloads,        \* bound: submissions
    MaxTrouble,         \* bound: failures of any kind
    MaxSendTime,        \* bound: clock units one send takes
    MaxDrain            \* bound: the argument of drainUpTo()

ASSUME OutboxConstants ==
    /\ Policies \subseteq {"RejectNewest", "DropOldest"}
    /\ InitialRetryDelay \in Nat /\ MaxRetryDelay \in Nat /\ JitterPct \in 0..255
    /\ Hints \subseteq Nat /\ MaxCorruptDrops \in Nat
    /\ {Capacity, Window, MaxDrainAttempts, AttemptsLimit} \subseteq Nat \ {0}
    /\ {MaxPayloads, MaxTrouble, MaxSendTime, MaxDrain} \subseteq Nat

VARIABLES
    policy,         \* config_.fullQueuePolicy
    queue,          \* the durable records, oldest first
    damaged,        \* those whose record no longer reads back
    frontAttempts,  \* frontAttempts_
    cooldown,       \* frontNextAttemptMs_ less now, 0 when none is set
    windowLeft,     \* what is left of the drain window
    windowUsed,     \* drainAttemptsInWindow_, 0 when hasDrainWindow_ is not set
    corruptDrops,   \* corruptDropsThisLifetime_
    pc,             \* "app", "drain" or the callback that runs: "live", "retry"
    sending,        \* the payload the callback was given
    left,           \* drainOne() calls left in drainUpTo()
    age,            \* clock units since drainOne() read the clock
    trouble,        \* failures so far
    \* Observers, which no action reads:
    next,           \* the next payload to submit
    owed,           \* payloads reported as Queued and not settled since
    fellBack,       \* a payload was sent live although others were queued
    failures,       \* how often this boot's callback answered RetryLater
    wait,           \* what is left of the delay that answer asked for
    recent          \* drain attempts by age, in the last Window units

ram  == <<frontAttempts, cooldown, windowLeft, windowUsed, corruptDrops>>
seen == <<next, owed, fellBack, failures, wait, recent>>
vars == <<policy, queue, damaged, ram, pc, sending, left, age, trouble, seen>>

Payload     == 1..MaxPayloads
Least(a, b) == IF a < b THEN a ELSE b
Less(a, b)  == IF a < b THEN 0 ELSE a - b
Rest(k)     == SubSeq(queue, k + 1, Len(queue))
First(k)    == {queue[i] : i \in 1..k}
Fault(f)    == f \in Faults /\ trouble < MaxTrouble /\ trouble' = trouble + 1

-----------------------------------------------------------------------------
(* computeRetryDelay(). *)

\* The doubling loop, which stops once it has reached the maximum.
Doubled[n \in Nat] ==
    IF n = 0 THEN InitialRetryDelay
    ELSE IF Doubled[n - 1] < MaxRetryDelay THEN 2 * Doubled[n - 1] ELSE Doubled[n - 1]

Base(exponent, hint) ==
    Least(IF hint > 0 THEN hint ELSE Doubled[exponent], MaxRetryDelay)

Jittered(base, range, sample) ==
    IF sample < range THEN Less(base, sample)
    ELSE Least(base + (sample - range), MaxRetryDelay)

\* Every delay rand_() may lead to.
RetryDelays(exponent, hint) ==
    LET base  == Base(exponent, hint)
        range == (base * JitterPct) \div 100
    IN  IF range = 0 THEN {base}
        ELSE {Jittered(base, range, sample) : sample \in 0..(2 * range - 1)}

-----------------------------------------------------------------------------
(* Queue::enqueue(), with the eviction of DropOldest. *)

Full == Len(queue) >= Capacity

\* One eviction need not free room: it leaves a dead record behind.
Evictions == IF Full THEN IF policy = "DropOldest" THEN 1..Len(queue) ELSE {} ELSE {0}

\* Variant: one record more than was accounted for is evicted.
EvictsOneMore(p) ==
    \E k \in Evictions :
        /\ queue' = Append(SubSeq(queue, k + 2, Len(queue)), p)
        /\ owed' = (owed \ First(k)) \cup {p}
EnqueueOk(p) ==
    \E k \in Evictions :
        /\ queue' = Append(Rest(k), p)
        /\ owed' = (owed \ First(k)) \cup {p}

\* QueueFull under RejectNewest; an error, perhaps after some evictions.
EnqueueFails ==
    \/ Full /\ policy = "RejectNewest" /\ UNCHANGED <<queue, owed, trouble>>
    \/ /\ Fault("enqueue")
       /\ \E k \in Evictions \cup {0} : queue' = Rest(k) /\ owed' = owed \ First(k)

Enqueue(p) == (EnqueueOk(p) /\ UNCHANGED trouble) \/ EnqueueFails

-----------------------------------------------------------------------------
\* The first boot over a store that holds the payloads q.
InitWith(q) ==
    /\ policy \in Policies
    /\ queue = q /\ damaged = {}
    /\ frontAttempts = 0 /\ cooldown = 0 /\ corruptDrops = 0
    /\ windowLeft = 0 /\ windowUsed = 0
    /\ pc = "app" /\ sending = 0 /\ left = 0 /\ age = 0 /\ trouble = 0
    /\ next = Len(q) + 1 /\ owed = {} /\ fellBack = FALSE
    /\ failures = [p \in Payload |-> 0] /\ wait = [p \in Payload |-> 0] /\ recent = [a \in 0..(Window - 1) |-> 0]
Init == InitWith(<<>>)

\* Variant: one queued record is no backlog.
LiveBesideOne == Len(queue) <= 1
\* statsResult() reports an empty queue, or fails.
LiveAllowed == queue = <<>>

Submit ==
    /\ pc = "app" /\ next \in Payload
    /\ next' = next + 1
    /\ \/ ~LiveAllowed /\ Enqueue(next) /\ UNCHANGED <<pc, sending, fellBack>>
       \/ /\ \/ LiveAllowed /\ UNCHANGED <<trouble, fellBack>>
             \/ Fault("stats") /\ fellBack' = (fellBack \/ queue # <<>>)
          /\ pc' = "live" /\ sending' = next /\ UNCHANGED <<queue, owed>>
    /\ UNCHANGED <<policy, damaged, ram, left, age, failures, wait, recent>>

ToApp == pc' = "app" /\ sending' = 0 /\ left' = 0 /\ age' = 0

LiveSettled ==
    /\ pc = "live" /\ ToApp
    /\ UNCHANGED <<policy, queue, damaged, ram, trouble, seen>>

\* submit() arms the cooldown of a record that became the front.
ArmFirst(delay) == cooldown' = delay /\ frontAttempts' = 1

LiveRetryLater(hint) ==
    /\ pc = "live" /\ ToApp
    /\ failures' = [failures EXCEPT ![sending] = 1]
    /\ \E delay \in RetryDelays(0, hint) :
        \/ /\ EnqueueOk(sending)
           /\ wait' = [wait EXCEPT ![sending] = delay]
           /\ \/ queue = <<>> /\ UNCHANGED trouble /\ ArmFirst(delay)
              \/ queue # <<>> /\ UNCHANGED trouble /\ UNCHANGED <<cooldown, frontAttempts>>
              \/ queue # <<>> /\ Fault("stats") /\ ArmFirst(delay)
        \/ EnqueueFails /\ UNCHANGED <<cooldown, frontAttempts, wait>>
    /\ UNCHANGED <<policy, damaged, windowLeft, windowUsed, corruptDrops, next, fellBack, recent>>

-----------------------------------------------------------------------------
(* drainUpTo() and drainOne(). *)

DrainUpTo(n) ==
    /\ pc = "app" /\ pc' = "drain" /\ left' = n
    /\ UNCHANGED <<policy, queue, damaged, ram, sending, age, trouble, seen>>

\* Variant: the attempts of the record that is gone are kept.
ClearCooldownOnly == cooldown' = 0 /\ UNCHANGED frontAttempts
ClearFrontCooldown == cooldown' = 0 /\ frontAttempts' = 0

\* The loop of drainUpTo() goes on after progress only.
Continue == left' = left - 1 /\ pc' = (IF left > 1 THEN "drain" ELSE "app") /\ age' = 0 /\ sending' = 0

QueueEmpty ==
    /\ pc = "drain" /\ queue = <<>>
    /\ ClearFrontCooldown /\ ToApp
    /\ UNCHANGED <<policy, queue, damaged, windowLeft, windowUsed, corruptDrops, trouble, seen>>

PeekFails ==
    /\ pc = "drain" /\ Fault("peek") /\ ToApp
    /\ UNCHANGED <<policy, queue, damaged, ram, seen>>

FrontReads   == queue # <<>> /\ Head(queue) \notin damaged
FrontCorrupt == queue # <<>> /\ Head(queue) \in damaged

\* Variant: the last drop that is allowed is not made.
OneDropFewer == corruptDrops + 1 < MaxCorruptDrops
CanDropCorruptFrontRecord == corruptDrops < MaxCorruptDrops

DropCorruptFrontRecord ==
    /\ pc = "drain" /\ FrontCorrupt
    /\ IF CanDropCorruptFrontRecord
       THEN \/ /\ queue' = Rest(1) /\ owed' = owed \ First(1)
               /\ ClearFrontCooldown /\ corruptDrops' = corruptDrops + 1
               /\ Continue /\ UNCHANGED trouble
            \/ Fault("pop") /\ ToApp /\ UNCHANGED <<queue, owed, frontAttempts, cooldown, corruptDrops>>
       ELSE ToApp /\ UNCHANGED <<queue, owed, frontAttempts, cooldown, corruptDrops, trouble>>
    /\ UNCHANGED <<policy, damaged, windowLeft, windowUsed, next, fellBack, failures, wait, recent>>

\* Variant: the limit itself still allows one more.
RateAllowsOneMore ==
    windowUsed = 0 \/ windowLeft = 0 \/ windowUsed <= MaxDrainAttempts
DrainRateAllows ==
    windowUsed = 0 \/ windowLeft = 0 \/ windowUsed < MaxDrainAttempts

\* Variant: due one clock unit early.
CoolingButOne == cooldown > 1
FrontIsCoolingDown == cooldown > 0

NotDue ==
    /\ pc = "drain" /\ FrontReads
    /\ FrontIsCoolingDown \/ ~DrainRateAllows
    /\ ToApp
    /\ UNCHANGED <<policy, queue, damaged, ram, trouble, seen>>

RecordDrainAttempt ==
    IF windowUsed = 0 \/ windowLeft = 0
    THEN windowLeft' = Window /\ windowUsed' = 1
    ELSE windowUsed' = windowUsed + 1 /\ UNCHANGED windowLeft

DrainSendStart ==
    /\ pc = "drain" /\ FrontReads /\ ~FrontIsCoolingDown /\ DrainRateAllows
    /\ RecordDrainAttempt
    /\ pc' = "retry" /\ sending' = Head(queue)
    /\ recent' = [recent EXCEPT ![0] = @ + 1]
    /\ UNCHANGED <<policy, queue, damaged, frontAttempts, cooldown, corruptDrops,
                   left, age, trouble, next, owed, fellBack, failures, wait>>

\* Sent or Drop: the record is popped, unless pop() fails; a retry follows at once then.
DrainSettled ==
    /\ pc = "retry"
    /\ owed' = owed \ {sending}
    /\ \/ queue' = Rest(1) /\ ClearFrontCooldown /\ Continue /\ UNCHANGED trouble
       \/ Fault("pop") /\ ToApp /\ UNCHANGED <<queue, frontAttempts, cooldown>>
    /\ UNCHANGED <<policy, damaged, windowLeft, windowUsed, corruptDrops,
                   next, fellBack, failures, wait, recent>>

CountAttempt(n) == IF n < AttemptsLimit THEN n + 1 ELSE n

\* The cooldown counts from the clock read before the callback.
CooldownFrom(delay) == Less(delay, age)

DrainRetryLater(hint) ==
    /\ pc = "retry" /\ ToApp
    /\ frontAttempts' = CountAttempt(frontAttempts)
    /\ failures' = [failures EXCEPT ![sending] = Least(@ + 1, AttemptsLimit)]
    /\ \E delay \in RetryDelays(frontAttempts' - 1, hint) :
        cooldown' = CooldownFrom(delay) /\ wait' = [wait EXCEPT ![sending] = Less(delay, age)]
    /\ UNCHANGED <<policy, queue, damaged, windowLeft, windowUsed, corruptDrops, trouble,
                   next, owed, fellBack, recent>>

-----------------------------------------------------------------------------
(* The clock, the flash and the power. *)

Tick ==
    /\ pc = "retry" => age < MaxSendTime
    /\ age' = IF pc = "retry" THEN age + 1 ELSE 0
    /\ cooldown' = Less(cooldown, 1) /\ windowLeft' = Less(windowLeft, 1)
    /\ wait' = [p \in Payload |-> Less(wait[p], 1)]
    /\ recent' = [a \in DOMAIN recent |-> IF a = 0 THEN 0 ELSE recent[a - 1]]
    /\ UNCHANGED <<policy, queue, damaged, frontAttempts, windowUsed, corruptDrops,
                   pc, sending, left, trouble, next, owed, fellBack, failures>>

Damage ==
    /\ Fault("flash")
    /\ \E p \in Range(queue) \ damaged : damaged' = damaged \cup {p}
    /\ UNCHANGED <<policy, queue, ram, pc, sending, left, age, seen>>

\* A live payload may have been queued by then; submit() never says so.
PowerLoss ==
    /\ Fault("power") /\ ToApp
    /\ queue' \in {queue} \cup (IF pc = "live" /\ ~Full THEN {Append(queue, sending)} ELSE {})
    /\ frontAttempts' = 0 /\ cooldown' = 0 /\ corruptDrops' = 0
    /\ windowLeft' = 0 /\ windowUsed' = 0
    /\ failures' = [p \in Payload |-> 0] /\ wait' = [p \in Payload |-> 0]
    /\ recent' = [a \in DOMAIN recent |-> 0]
    /\ UNCHANGED <<policy, damaged, next, owed, fellBack>>

RetryLater == \E hint \in Hints : LiveRetryLater(hint) \/ DrainRetryLater(hint)
Settled    == LiveSettled \/ DrainSettled
Return     == QueueEmpty \/ PeekFails \/ DropCorruptFrontRecord \/ NotDue
Drain      == \E n \in 1..MaxDrain : DrainUpTo(n)

Next == \/ Submit \/ Settled \/ RetryLater
        \/ Drain \/ Return \/ DrainSendStart
        \/ Tick \/ Damage \/ PowerLoss
Spec == Init /\ [][Next]_vars

\* The application keeps calling drainUpTo(), the clock goes on, a call runs to
\* its end, and the callback does not answer RetryLater for ever.
FairSpec == Spec /\ WF_vars(Tick) /\ WF_vars(Drain) /\ WF_vars(Return \/ DrainSendStart)
                 /\ WF_vars(Settled \/ RetryLater) /\ SF_vars(Settled)

-----------------------------------------------------------------------------
\* The types; the attempts stop at the counter's width and the rate window at its limit.
TypeOK ==
    /\ policy \in Policies /\ queue \in Seq(Payload) /\ damaged \subseteq Payload
    /\ frontAttempts \in 0..AttemptsLimit /\ cooldown \in 0..MaxRetryDelay
    /\ windowLeft \in 0..Window /\ windowUsed \in 0..MaxDrainAttempts
    /\ corruptDrops \in 0..MaxCorruptDrops
    /\ pc \in {"app", "drain", "live", "retry"} /\ sending \in 0..MaxPayloads
    /\ left \in 0..MaxDrain /\ age \in 0..MaxSendTime /\ trouble \in 0..MaxTrouble

\* A payload submit() reported as Queued stays in the queue until the callback
\* settles it, eviction takes it or it is dropped as corrupt: no pop() ever
\* removes another record than the one that was sent.
OwedIsQueued == owed \subseteq Range(queue)

\* No payload is handed to the callback while an older one is queued (usage.md:144-146,
\* FIFO order), live sends included; where statsResult() never failed on a backlog.
NothingOvertakes == ~fellBack /\ sending # 0 => \A p \in Range(queue) : p >= sending

\* frontAttempts_ is what outbox.h:164-165 calls front-local: the failures of
\* the record that is at the front now.
AttemptsAreFronts ==
    frontAttempts = IF queue = <<>> THEN 0 ELSE failures[Head(queue)]
\* So it is where nothing is evicted and no payload overtook the backlog.
AttemptsKeptByRejection == policy = "RejectNewest" /\ ~fellBack => AttemptsAreFronts

\* drain never sends a record before the delay its last RetryLater asked for.
RetryNotEarly == ~fellBack /\ pc = "retry" => wait[sending] = 0

\* Two drain windows may meet: any Window units hold that many attempts, no more.
RateBounded == SumFunction(recent) <= 2 * MaxDrainAttempts - 1

\* Only a corrupt front that may not be dropped any more stops the backlog.
Blocked       == FrontCorrupt /\ corruptDrops = MaxCorruptDrops
BacklogDrains == []<>(queue = <<>> \/ Blocked)
=============================================================================
