--------------------------- MODULE ThreadSafeQueue --------------------------
(***************************************************************************)
(* ThreadSafeQueue (thread_safe_queue.hpp) at the grain of its mutex, its  *)
(* condition variable and the atomic flag stopping_.                       *)
(*                                                                         *)
(* Producers push: the executor threads of the client handler nodes, two   *)
(* of them while spawn_client replaces one node by another.  One consumer, *)
(* the loop of Agent::run, asks size() and then calls wait_and_pop; it may *)
(* also call wait_and_pop straight away, as the class allows.              *)
(*                                                                         *)
(* push and size touch nothing but the queue and hold mtx_ throughout, so  *)
(* what they do under it is one step, taken when the mutex is free.        *)
(* wait_and_pop also reads stopping_, which no lock protects: its steps    *)
(* under the mutex are told apart, and loopPc says whether it holds it.    *)
(***************************************************************************)
EXTENDS Naturals, Sequences

CONSTANTS Producers,      \* threads that push
          QueueMax,       \* max_queue_size_, 100 in the code
          MaxPush         \* bound: items pushed

ASSUME QueueAssumption == QueueMax \in Nat \ {0} /\ MaxPush \in Nat

VARIABLES queue,          \* queue_; items are numbered as they come in
          pushed,         \* how many have come in
          popped,         \* history: what wait_and_pop returned
          stopping,       \* stopping_
          loopPc,         \* where the consumer is
          polled,         \* it has seen size() > 0 before wait_and_pop
          pushPc,         \* pushPc[p]: idle, or notify after the push
          stopPc          \* idle, or notify after stopping_ is set

consumer == <<loopPc, polled>>
vars == <<queue, pushed, popped, stopping, consumer, pushPc, stopPc>>

Init ==
    /\ queue = <<>> /\ pushed = 0 /\ popped = <<>>
    /\ stopping = FALSE
    /\ loopPc = "idle" /\ polled = FALSE
    /\ pushPc = [p \in Producers |-> "idle"]
    /\ stopPc = "idle"

\* A name that ends in an underscore and a remark is a mutated form of the
\* definition after it, and unused.

Holding_NotWhileDozing == {"holding", "popping"}

\* Where the consumer holds the mutex.  cv_.wait gives it up in the step in
\* which it falls asleep.
Holding == {"holding", "dozing", "popping"}

MutexIsFree == loopPc \notin Holding

-----------------------------------------------------------------------------
(* push                                                                    *)

Pushed_LateDrop(q, x) == Append(IF Len(q) > QueueMax THEN Tail(q) ELSE q, x)

Pushed_DropsNewest(q, x) == IF Len(q) >= QueueMax THEN q ELSE Append(q, x)

Pushed(q, x) == Append(IF Len(q) >= QueueMax THEN Tail(q) ELSE q, x)

Push(p) ==
    /\ pushPc[p] = "idle" /\ pushed < MaxPush
    /\ MutexIsFree
    /\ pushed' = pushed + 1
    /\ queue' = Pushed(queue, pushed')
    /\ pushPc' = [pushPc EXCEPT ![p] = "notify"]
    /\ UNCHANGED <<popped, stopping, consumer, stopPc>>

\* What a notification does to the only thread that can be waiting for one.
Notified == IF loopPc = "asleep" THEN "woken" ELSE loopPc

\* cv_.notify_one, after the mutex has been given up.
NotifyOne(p) ==
    /\ pushPc[p] = "notify"
    /\ pushPc' = [pushPc EXCEPT ![p] = "idle"]
    /\ loopPc' = Notified
    /\ UNCHANGED <<queue, pushed, popped, stopping, polled, stopPc>>

-----------------------------------------------------------------------------
(* size and wait_and_pop                                                   *)

SizeAllowsPop_OffByOne == Len(queue) >= 0

SizeAllowsPop == Len(queue) > 0

Consume(from, to) ==
    /\ loopPc = from
    /\ loopPc' = to
    /\ UNCHANGED <<pushed, stopping, pushPc, stopPc>>

\* The loop finds size() > 0 and calls wait_and_pop.
Poll ==
    /\ Consume("idle", "calling") /\ SizeAllowsPop
    /\ polled' = TRUE
    /\ UNCHANGED <<queue, popped>>

\* wait_and_pop without asking first.
Block == Consume("idle", "calling") /\ UNCHANGED <<queue, popped, polled>>

AfterWake_NoRecheck == "popping"

\* wait evaluates its predicate again each time it is woken.
AfterWake == "holding"

Lock ==
    /\ Consume("calling", "holding") \/ Consume("woken", AfterWake)
    /\ UNCHANGED <<queue, popped, polled>>

\* The predicate of cv_.wait.
MayPop == queue # <<>> \/ stopping

Evaluate ==
    /\ Consume("holding", IF MayPop THEN "popping" ELSE "dozing")
    /\ UNCHANGED <<queue, popped, polled>>

FallAsleep == Consume("dozing", "asleep") /\ UNCHANGED <<queue, popped, polled>>

\* A condition variable may wake a thread without a notification.
WakeSpuriously ==
    Consume("asleep", "woken") /\ UNCHANGED <<queue, popped, polled>>

Pop ==
    /\ Consume("popping", "idle") /\ queue # <<>>
    /\ queue' = Tail(queue)
    /\ popped' = Append(popped, Head(queue))
    /\ polled' = FALSE

\* front and pop_front of an empty deque: undefined, and the end of what is
\* modelled of the consumer.
PopNothing ==
    /\ Consume("popping", "undefined") /\ queue = <<>>
    /\ UNCHANGED <<queue, popped, polled>>

WaitAndPop == Lock \/ Evaluate \/ FallAsleep \/ Pop \/ PopNothing

-----------------------------------------------------------------------------
(* stop takes no lock                                                      *)

SetStopping ==
    /\ stopPc = "idle"
    /\ stopping' = TRUE
    /\ stopPc' = "notify"
    /\ UNCHANGED <<queue, pushed, popped, consumer, pushPc>>

NotifyAll ==
    /\ stopPc = "notify"
    /\ stopPc' = "idle"
    /\ loopPc' = Notified
    /\ UNCHANGED <<queue, pushed, popped, stopping, polled, pushPc>>

-----------------------------------------------------------------------------
Next ==
    \/ \E p \in Producers : Push(p) \/ NotifyOne(p)
    \/ Poll \/ Block \/ WaitAndPop \/ WakeSpuriously
    \/ SetStopping \/ NotifyAll

Spec == Init /\ [][Next]_vars

\* Agent::run polls for ever, a thread inside push comes to its end, and who
\* asks for the mutex gets it in time.
Fairness ==
    /\ WF_vars(Poll \/ WaitAndPop)
    /\ \A p \in Producers : WF_vars(NotifyOne(p))

FairSpec == Spec /\ Fairness

-----------------------------------------------------------------------------
TypeOK ==
    /\ pushed \in 0 .. MaxPush
    /\ queue \in Seq(1 .. MaxPush) /\ Len(queue) <= QueueMax
    /\ popped \in Seq(1 .. MaxPush)
    /\ stopping \in BOOLEAN
    /\ loopPc \in {"idle", "calling", "holding", "dozing", "asleep", "woken",
                   "popping", "undefined"}
    /\ polled \in BOOLEAN
    /\ pushPc \in [Producers -> {"idle", "notify"}]
    /\ stopPc \in {"idle", "notify"}

\* Agent::run must not be held up: size() and wait_and_pop are two critical
\* sections, but what the first has seen is still there in the second, even
\* though producers drop items of a full queue in between.
PolledNeverSleeps == polled => loopPc \notin {"dozing", "asleep", "undefined"}

\* No wakeup is lost: when the consumer of wait_and_pop sleeps beside an item,
\* the notification of a push is still to come.
SleeperIsNotified ==
    loopPc = "asleep" /\ queue # <<>> => \E p \in Producers : pushPc[p] = "notify"

\* wait_and_pop takes the front of an empty queue only after stop.
EmptyPopNeedsStop == loopPc = "undefined" => stopping

\* push, wait_and_pop and stop, interleaved in any way, are a queue that drops
\* its oldest item and gives out the others in order.
Abstract == INSTANCE DropOldest WITH Capacity <- QueueMax, puts <- pushed,
                                     items <- queue, taken <- popped
QueueDropsOldest == Abstract!DropOldestSpec

\* Every item is popped or dropped in the end, unless stop has led the
\* consumer to an empty queue.
EveryItemLeaves ==
    \A n \in 1 .. MaxPush :
        (\E i \in DOMAIN queue : queue[i] = n) ~>
            (\A i \in DOMAIN queue : queue[i] # n) \/ loopPc = "undefined"
=============================================================================
