----------------------- MODULE ThreadSafeQueue_proofs -----------------------
(***************************************************************************)
(* Theorems about ThreadSafeQueue, for any number of producers, any        *)
(* max_queue_size_ and any number of items.                                *)
(***************************************************************************)
EXTENDS ThreadSafeQueue, SequenceTheorems, TLAPS

\* What push leaves of the queue: never more than QueueMax items, and never
\* none.
LEMMA PushedType ==
    ASSUME TypeOK, NEW x \in 1 .. MaxPush
    PROVE  /\ Pushed(queue, x) \in Seq(1 .. MaxPush)
           /\ Len(Pushed(queue, x)) <= QueueMax
           /\ Pushed(queue, x) # <<>>
  <1>1. CASE Len(queue) >= QueueMax
    <2>1. queue \in Seq(1 .. MaxPush) /\ queue # <<>> /\ Len(queue) = QueueMax
      BY <1>1, QueueAssumption DEF TypeOK
    <2>2. Tail(queue) \in Seq(1 .. MaxPush) /\ Len(Tail(queue)) = QueueMax - 1
      BY <2>1, HeadTailProperties
    <2> QED
      BY <1>1, <2>2, AppendProperties, QueueAssumption DEF Pushed
  <1>2. CASE ~(Len(queue) >= QueueMax)
    BY <1>2, AppendProperties, QueueAssumption DEF Pushed, TypeOK
  <1> QED  BY <1>1, <1>2

-----------------------------------------------------------------------------
(* Type correctness                                                        *)

\* The types hold at first.
LEMMA InitType == Init => TypeOK
  <1> SUFFICES ASSUME Init PROVE TypeOK
    OBVIOUS
  <1>1. pushPc \in [Producers -> {"idle", "notify"}]
    BY DEF Init
  <1>2. /\ queue \in Seq(1 .. MaxPush) /\ Len(queue) <= QueueMax
        /\ popped \in Seq(1 .. MaxPush)
    BY QueueAssumption DEF Init
  <1>3. pushed \in 0 .. MaxPush
    BY QueueAssumption DEF Init
  <1> QED  BY <1>1, <1>2, <1>3 DEF Init, TypeOK

\* A push keeps them.
LEMMA PushType ==
    ASSUME TypeOK, NEW p \in Producers, Push(p)
    PROVE  TypeOK'
  <1>1. pushed' \in 1 .. MaxPush
    BY QueueAssumption DEF TypeOK, Push
  <1>2. queue' \in Seq(1 .. MaxPush) /\ Len(queue') <= QueueMax
    BY <1>1, PushedType DEF Push
  <1>3. pushPc' \in [Producers -> {"idle", "notify"}]
    BY DEF Push, TypeOK
  <1> QED
    BY <1>1, <1>2, <1>3 DEF TypeOK, Push, consumer

\* A pop keeps them.
LEMMA PopType ==
    ASSUME TypeOK, Pop
    PROVE  TypeOK'
  <1>1. queue \in Seq(1 .. MaxPush) /\ queue # <<>>
    BY DEF TypeOK, Pop
  <1>2. /\ Head(queue) \in 1 .. MaxPush
        /\ Tail(queue) \in Seq(1 .. MaxPush) /\ Len(Tail(queue)) = Len(queue) - 1
    BY <1>1, HeadTailProperties
  <1>3. Append(popped, Head(queue)) \in Seq(1 .. MaxPush)
    BY <1>2, AppendProperties DEF TypeOK
  <1>4. Len(queue') <= QueueMax
    BY <1>1, <1>2, QueueAssumption, LenProperties DEF TypeOK, Pop
  <1> QED  BY <1>2, <1>3, <1>4 DEF TypeOK, Pop, Consume

\* A notification and the flag of stop keep them.
LEMMA NotifyType ==
    ASSUME TypeOK, (\E p \in Producers : NotifyOne(p)) \/ NotifyAll \/ SetStopping
    PROVE  TypeOK'
  <1>1. CASE \E p \in Producers : NotifyOne(p)
    BY <1>1 DEF TypeOK, NotifyOne, Notified
  <1>2. CASE NotifyAll
    BY <1>2 DEF TypeOK, NotifyAll, Notified
  <1>3. CASE SetStopping
    BY <1>3 DEF TypeOK, SetStopping, consumer
  <1> QED  BY <1>1, <1>2, <1>3

\* What else the consumer does keeps them.
LEMMA ConsumerType ==
    ASSUME TypeOK,
           \/ Poll \/ Block \/ Lock \/ Evaluate
           \/ FallAsleep \/ WakeSpuriously \/ PopNothing
    PROVE  TypeOK'
  BY DEF TypeOK, Poll, Block, Lock, AfterWake, Evaluate, FallAsleep,
         WakeSpuriously, PopNothing, Consume

\* Any step keeps them.
LEMMA NextType == TypeOK /\ [Next]_vars => TypeOK'
  <1> SUFFICES ASSUME TypeOK, [Next]_vars PROVE TypeOK'
    OBVIOUS
  <1>1. CASE UNCHANGED vars
    BY <1>1 DEF TypeOK, vars, consumer
  <1> QED
    BY <1>1, PushType, PopType, NotifyType, ConsumerType DEF Next, WaitAndPop

\* Whatever the threads do, the queue holds no more than max_queue_size_ items.
THEOREM TypeCorrect == Spec => []TypeOK
  BY InitType, NextType, PTL DEF Spec

-----------------------------------------------------------------------------
(* The inductive invariant                                                 *)

\* What the loop has seen with size() is still there when it pops.
PolledHasItem ==
    polled => queue # <<>> /\ loopPc \in {"calling", "holding", "popping"}

\* From the predicate to falling asleep the mutex keeps the queue empty.
DozerHasNoItem == loopPc = "dozing" => queue = <<>>

\* From the predicate to the pop it keeps it as the predicate found it.
PopperMayPop == loopPc = "popping" => MayPop

IInv ==
    /\ TypeOK
    /\ PolledHasItem
    /\ DozerHasNoItem
    /\ PopperMayPop
    /\ SleeperIsNotified
    /\ EmptyPopNeedsStop

\* The invariant holds at first.
LEMMA InitIInv == Init => IInv
  BY InitType
     DEF Init, IInv, PolledHasItem, DozerHasNoItem, PopperMayPop,
         SleeperIsNotified, EmptyPopNeedsStop

\* A push finds the mutex free, so it disturbs no consumer that holds it, and
\* owes a notification to one that sleeps.
LEMMA PushKeepsIInv ==
    ASSUME IInv, NEW p \in Producers, Push(p)
    PROVE  IInv'
  <1>1. TypeOK'
    BY PushType DEF IInv
  <1>2. queue' # <<>>
    <2>1. pushed' \in 1 .. MaxPush
      BY QueueAssumption DEF IInv, TypeOK, Push
    <2> QED  BY <2>1, PushedType DEF IInv, Push
  <1>3. loopPc \notin Holding
    BY DEF Push, MutexIsFree
  <1>4. PolledHasItem'
    BY <1>2 DEF IInv, PolledHasItem, Push, consumer
  <1>5. DozerHasNoItem' /\ PopperMayPop'
    BY <1>3 DEF DozerHasNoItem, PopperMayPop, Push, Holding, consumer
  <1>6. SleeperIsNotified'
    <2>1. pushPc'[p] = "notify"
      BY DEF IInv, TypeOK, Push
    <2> QED  BY <2>1 DEF SleeperIsNotified
  <1>7. EmptyPopNeedsStop'
    BY DEF IInv, EmptyPopNeedsStop, Push, consumer
  <1> QED  BY <1>1, <1>4, <1>5, <1>6, <1>7 DEF IInv

\* After a notification nobody sleeps.
LEMMA NotifyKeepsIInv ==
    ASSUME IInv, (\E p \in Producers : NotifyOne(p)) \/ NotifyAll
    PROVE  IInv'
  <1>1. TypeOK'
    BY NotifyType DEF IInv
  <1>2. loopPc' = Notified /\ UNCHANGED <<queue, stopping, polled>>
    BY DEF NotifyOne, NotifyAll
  <1>3. loopPc' # "asleep"
    BY <1>2 DEF Notified
  <1>4. loopPc' = "woken" \/ loopPc' = loopPc
    BY <1>2 DEF Notified
  <1>5. PolledHasItem' /\ DozerHasNoItem' /\ PopperMayPop' /\ EmptyPopNeedsStop'
    BY <1>2, <1>4
       DEF IInv, PolledHasItem, DozerHasNoItem, PopperMayPop, MayPop,
           EmptyPopNeedsStop, Notified
  <1>6. SleeperIsNotified'
    BY <1>3 DEF SleeperIsNotified
  <1> QED  BY <1>1, <1>5, <1>6 DEF IInv

\* The flag of stop keeps it.
LEMMA StopKeepsIInv ==
    ASSUME IInv, SetStopping
    PROVE  IInv'
  <1>1. TypeOK'
    BY NotifyType DEF IInv
  <1> QED
    BY <1>1
       DEF IInv, SetStopping, PolledHasItem, DozerHasNoItem, PopperMayPop,
           MayPop, SleeperIsNotified, EmptyPopNeedsStop, consumer

\* The steps of the consumer up to the pop: each goes on only with what the
\* predicate, or size(), has found.
LEMMA ConsumerKeepsIInv ==
    ASSUME IInv,
           Poll \/ Block \/ Lock \/ Evaluate \/ FallAsleep \/ WakeSpuriously
    PROVE  IInv'
  <1>1. TypeOK'
    BY ConsumerType DEF IInv
  <1>2. queue \in Seq(1 .. MaxPush)
    BY DEF IInv, TypeOK
  <1>3. UNCHANGED <<queue, stopping, pushPc>>
    BY DEF Poll, Block, Lock, Evaluate, FallAsleep, WakeSpuriously, Consume
  <1>4. PolledHasItem'
    <2>1. CASE Poll
      <3>1. queue # <<>>
        BY <1>2, <2>1 DEF Poll, SizeAllowsPop
      <3> QED  BY <1>3, <2>1, <3>1 DEF PolledHasItem, Poll, Consume
    <2>2. CASE Block \/ Lock \/ Evaluate \/ FallAsleep \/ WakeSpuriously
      BY <1>3, <2>2
         DEF IInv, PolledHasItem, Block, Lock, AfterWake, Evaluate, MayPop,
             FallAsleep, WakeSpuriously, Consume
    <2> QED  BY <2>1, <2>2
  <1>5. DozerHasNoItem' /\ PopperMayPop' /\ EmptyPopNeedsStop'
    BY <1>3
       DEF IInv, DozerHasNoItem, PopperMayPop, EmptyPopNeedsStop, MayPop, Poll,
           Block, Lock, AfterWake, Evaluate, FallAsleep, WakeSpuriously, Consume
  <1>6. SleeperIsNotified'
    BY <1>3
       DEF IInv, SleeperIsNotified, DozerHasNoItem, Poll, Block, Lock, AfterWake,
           Evaluate, FallAsleep, WakeSpuriously, Consume
  <1> QED  BY <1>1, <1>4, <1>5, <1>6 DEF IInv

\* A pop keeps it, of an item or of nothing.
LEMMA PopKeepsIInv ==
    ASSUME IInv, Pop \/ PopNothing
    PROVE  IInv'
  <1>1. TypeOK'
    BY PopType, ConsumerType DEF IInv
  <1>2. CASE Pop
    <2>1. loopPc' = "idle" /\ ~polled' /\ UNCHANGED <<stopping, pushPc>>
      BY <1>2 DEF Pop, Consume
    <2> QED
      BY <1>1, <2>1
         DEF IInv, PolledHasItem, DozerHasNoItem, PopperMayPop,
             SleeperIsNotified, EmptyPopNeedsStop
  <1>3. CASE PopNothing
    BY <1>1, <1>3
       DEF IInv, PopNothing, Consume, PolledHasItem, DozerHasNoItem,
           PopperMayPop, MayPop, SleeperIsNotified, EmptyPopNeedsStop
  <1> QED  BY <1>2, <1>3

\* Any step keeps it.
LEMMA NextKeepsIInv == IInv /\ [Next]_vars => IInv'
  <1> SUFFICES ASSUME IInv, [Next]_vars PROVE IInv'
    OBVIOUS
  <1>1. CASE UNCHANGED vars
    <2>1. TypeOK'
      BY <1>1, NextType DEF IInv
    <2> QED
      BY <1>1, <2>1
         DEF vars, consumer, IInv, PolledHasItem, DozerHasNoItem, PopperMayPop,
             MayPop, SleeperIsNotified, EmptyPopNeedsStop
  <1> QED
    BY <1>1, PushKeepsIInv, NotifyKeepsIInv, StopKeepsIInv, ConsumerKeepsIInv,
       PopKeepsIInv
       DEF Next, WaitAndPop

\* The invariant behind the three theorems that follow.
THEOREM Invariance == Spec => []IInv
  BY InitIInv, NextKeepsIInv, PTL DEF Spec

\* The loop of Agent::run, which calls wait_and_pop only after size() > 0,
\* never sleeps in it, however producers and stop interleave.
THEOREM LoopNeverSleeps == Spec => []PolledNeverSleeps
  <1>1. IInv => PolledNeverSleeps
    BY DEF IInv, PolledHasItem, PolledNeverSleeps
  <1> QED  BY <1>1, Invariance, PTL

\* A consumer that sleeps beside an item has its notification still to come.
THEOREM NoWakeupIsLost == Spec => []SleeperIsNotified
  <1>1. IInv => SleeperIsNotified
    BY DEF IInv
  <1> QED  BY <1>1, Invariance, PTL

\* The front of an empty queue is only taken after stop.
THEOREM FrontNeedsItemOrStop == Spec => []EmptyPopNeedsStop
  <1>1. IInv => EmptyPopNeedsStop
    BY DEF IInv
  <1> QED  BY <1>1, Invariance, PTL

-----------------------------------------------------------------------------
(* Refinement                                                              *)

\* push puts one item in and drops the oldest when there are too many.
LEMMA PushPuts ==
    ASSUME TypeOK, NEW p \in Producers, Push(p)
    PROVE  Abstract!Put
  <1>1. pushed' \in 1 .. MaxPush
    BY QueueAssumption DEF TypeOK, Push
  <1>2. /\ pushed' = pushed + 1 /\ queue' = Pushed(queue, pushed')
        /\ UNCHANGED popped
    BY DEF Push
  <1>3. queue \in Seq(1 .. MaxPush) /\ Len(queue) \in Nat /\ Len(queue) <= QueueMax
    BY LenProperties DEF TypeOK
  <1>4. Len(Append(queue, pushed')) = Len(queue) + 1
    BY <1>1, <1>3, AppendProperties
  <1>5. Pushed(queue, pushed') = Abstract!Newest(Append(queue, pushed'))
    <2>1. CASE Len(queue) >= QueueMax
      <3>1. queue # <<>>
        BY <1>3, <2>1, QueueAssumption
      <3>2. Tail(Append(queue, pushed')) = Append(Tail(queue), pushed')
        BY <1>1, <1>3, <3>1, HeadTailAppend
      <3> QED
        BY <1>3, <1>4, <2>1, <3>2, QueueAssumption DEF Pushed, Abstract!Newest
    <2>2. CASE ~(Len(queue) >= QueueMax)
      BY <1>3, <1>4, <2>2, QueueAssumption DEF Pushed, Abstract!Newest
    <2> QED  BY <2>1, <2>2
  <1> QED  BY <1>1, <1>2, <1>5 DEF Abstract!Put

\* Every step is one of the abstract queue or leaves it alone.
LEMMA StepRefines ==
    TypeOK /\ [Next]_vars =>
        [Abstract!DropOldestNext]_(Abstract!dropOldestVars)
  <1> SUFFICES ASSUME TypeOK, [Next]_vars
               PROVE  \/ Abstract!DropOldestNext
                      \/ UNCHANGED <<pushed, queue, popped>>
    BY DEF Abstract!dropOldestVars
  <1>1. ASSUME NEW p \in Producers, Push(p) PROVE Abstract!DropOldestNext
    BY <1>1, PushPuts DEF Abstract!DropOldestNext
  <1>2. CASE Pop
    BY <1>2 DEF Pop, Consume, Abstract!DropOldestNext, Abstract!Take
  <1>3. CASE \E p \in Producers : NotifyOne(p)
    BY <1>3 DEF NotifyOne
  <1>4. CASE \/ Poll \/ Block \/ Lock \/ Evaluate \/ FallAsleep
             \/ WakeSpuriously \/ PopNothing
    BY <1>4 DEF Poll, Block, Lock, Evaluate, FallAsleep, WakeSpuriously,
                PopNothing, Consume
  <1>5. CASE SetStopping \/ NotifyAll \/ UNCHANGED vars
    BY <1>5 DEF SetStopping, NotifyAll, vars
  <1> QED
    BY <1>1, <1>2, <1>3, <1>4, <1>5 DEF Next, WaitAndPop

\* ThreadSafeQueue implements a queue that drops its oldest item.
THEOREM ImplementsDropOldest == Spec => QueueDropsOldest
  <1>1. Init => Abstract!DropOldestInit
    BY DEF Init, Abstract!DropOldestInit
  <1> QED
    BY <1>1, TypeCorrect, StepRefines, PTL
       DEF Spec, QueueDropsOldest, Abstract!DropOldestSpec
=============================================================================
