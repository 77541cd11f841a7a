-------------------------- MODULE FrameBufferProofs --------------------------
(***************************************************************************)
(* Proofs about FrameBuffer, for any threads, buffers, frames, capacity    *)
(* and number of spurious wakeups.  The inductive invariant is             *)
(*   TypeOK /\ MutualExclusion /\ MoveIsSafe /\ WithinCapacity             *)
(* and, on top of it, NoLostWakeup.  MutualExclusion is what makes         *)
(* MoveIsSafe inductive: while a thread is at "move" nobody else can be at *)
(* "move" and change the deque its predicate was evaluated on.             *)
(***************************************************************************)
EXTENDS FrameBuffer, TLAPS

USE BufferAssumption

\* The buffer of a thread is a buffer, and a thread has one role.
LEMMA ThreadFacts ==
    ASSUME NEW t \in Threads
    PROVE  /\ bufferOf[t] \in Buffers
           /\ t \in Producers \/ t \in Consumers
           /\ ~(t \in Producers /\ t \in Consumers)
           /\ t # NoThread
BY DEF Threads, Buffers

\* What sequences do under the three operations of the deque.
LEMMA SeqFacts ==
    ASSUME NEW S, NEW s \in Seq(S), NEW x \in S
    PROVE  /\ Append(s, x) \in Seq(S)
           /\ Len(Append(s, x)) = Len(s) + 1
           /\ Len(s) \in Nat
           /\ Len(s) > 0 <=> s # <<>>
           /\ s # <<>> => /\ Head(s) \in S
                          /\ Tail(s) \in Seq(S)
                          /\ Len(Tail(s)) = Len(s) - 1
OBVIOUS

\* A producer inside a call, before it has pushed, holds a frame.
ArgumentOK == \A t \in Producers : pc[t] # "idle" => frame[t] \in Frames

\* The part of the invariant about types, the lock and the deques.
IInv == TypeOK /\ ArgumentOK /\ MutualExclusion /\ MoveIsSafe /\ WithinCapacity

LEMMA InitIInv == Init => IInv
<1> SUFFICES ASSUME Init PROVE IInv
    OBVIOUS
<1>1. TypeOK
    BY DEF Init, TypeOK, Labels
<1>2. MutualExclusion /\ MoveIsSafe /\ ArgumentOK
    BY ThreadFacts DEF Init, MutualExclusion, MoveIsSafe, ArgumentOK, Holding, Threads
<1>3. WithinCapacity
    BY DEF Init, WithinCapacity
<1>4. QED
    BY <1>1, <1>2, <1>3 DEF IInv

\* Every step of the threads preserves IInv.
LEMMA NextIInv == IInv /\ [Next]_vars => IInv'
<1> SUFFICES ASSUME IInv, [Next]_vars PROVE IInv'
    OBVIOUS
<1> USE DEF IInv
<1>1. ASSUME NEW t \in Threads, Call(t) PROVE IInv'
  <2>1. TypeOK'
      BY <1>1 DEF Call, Goto, TypeOK, Labels
  <2>2. (MutualExclusion /\ MoveIsSafe /\ WithinCapacity)'
      BY <1>1 DEF Call, Goto, TypeOK, MutualExclusion, MoveIsSafe, WithinCapacity, Holding
  <2>3. ArgumentOK'
      BY <1>1, ThreadFacts DEF Call, Goto, TypeOK, ArgumentOK, Threads
  <2>4. QED
      BY <2>1, <2>2, <2>3
<1>2. ASSUME NEW t \in Threads, Lock(t) PROVE IInv'
  <2>1. TypeOK'
      BY <1>2 DEF Lock, Goto, TypeOK, Labels
  <2>2. (MutualExclusion /\ MoveIsSafe /\ WithinCapacity)'
      BY <1>2, ThreadFacts DEF Lock, Goto, TypeOK, MutualExclusion, MoveIsSafe, WithinCapacity, Holding
  <2>3. ArgumentOK'
      BY <1>2 DEF Lock, Goto, TypeOK, ArgumentOK, Threads
  <2>4. QED
      BY <2>1, <2>2, <2>3
<1>3. ASSUME NEW t \in Threads, Proceed(t) PROVE IInv'
  <2>1. TypeOK'
      BY <1>3 DEF Proceed, Goto, TypeOK, Labels
  <2>2. (MutualExclusion /\ WithinCapacity /\ ArgumentOK)'
      BY <1>3 DEF Proceed, Goto, TypeOK, MutualExclusion, WithinCapacity, Holding, ArgumentOK, Threads
  <2>3. buffer_[bufferOf[t]] \in Seq(Frames)
      BY ThreadFacts DEF TypeOK
  <2>4. MoveIsSafe'
      BY <1>3, <2>3 DEF Proceed, Goto, TypeOK, MoveIsSafe, Ready
  <2>5. QED
      BY <2>1, <2>2, <2>4
<1>4. ASSUME NEW t \in Threads, Sleep(t) PROVE IInv'
  <2>1. TypeOK'
      BY <1>4 DEF Sleep, Goto, TypeOK, Labels
  <2>2. (MutualExclusion /\ MoveIsSafe /\ WithinCapacity)'
      BY <1>4, ThreadFacts DEF Sleep, Goto, TypeOK, MutualExclusion, MoveIsSafe, WithinCapacity, Holding
  <2>3. ArgumentOK'
      BY <1>4 DEF Sleep, Goto, TypeOK, ArgumentOK, Threads
  <2>4. QED
      BY <2>1, <2>2, <2>3
<1>5. ASSUME NEW t \in Threads, PushBack(t) PROVE IInv'
  <2> DEFINE b == bufferOf[t]
  <2>1. frame[t] \in Frames /\ b \in Buffers /\ buffer_[b] \in Seq(Frames) /\ Len(buffer_[b]) < size_
      BY <1>5, ThreadFacts DEF PushBack, ArgumentOK, MoveIsSafe, TypeOK
  <2>2. /\ Append(buffer_[b], frame[t]) \in Seq(Frames)
        /\ Len(Append(buffer_[b], frame[t])) = Len(buffer_[b]) + 1
        /\ Len(buffer_[b]) \in Nat
      BY <2>1, SeqFacts
  <2>3. TypeOK'
      BY <1>5, <2>1, <2>2 DEF PushBack, Goto, TypeOK, Labels
  <2>4. (MutualExclusion /\ ArgumentOK)'
      BY <1>5 DEF PushBack, Goto, TypeOK, MutualExclusion, Holding, ArgumentOK, Threads
  <2>5. \A u \in Threads : pc'[u] # "move"
      BY <1>5 DEF PushBack, Goto, TypeOK, MutualExclusion, Holding
  <2>6. MoveIsSafe'
      BY <2>5 DEF MoveIsSafe
  <2>7. WithinCapacity'
      BY <1>5, <2>1, <2>2 DEF PushBack, TypeOK, WithinCapacity
  <2>8. QED
      BY <2>3, <2>4, <2>6, <2>7
<1>6. ASSUME NEW t \in Threads, PopFront(t) PROVE IInv'
  <2> DEFINE b == bufferOf[t]
  <2>1. t \in Consumers /\ t \notin Producers /\ b \in Buffers /\ buffer_[b] \in Seq(Frames) /\ buffer_[b] # <<>>
      BY <1>6, ThreadFacts DEF PopFront, MoveIsSafe, TypeOK
  <2>2. /\ Head(buffer_[b]) \in Frames
        /\ Tail(buffer_[b]) \in Seq(Frames)
        /\ Len(Tail(buffer_[b])) = Len(buffer_[b]) - 1
        /\ Len(buffer_[b]) \in Nat
      BY <2>1
  <2>3. TypeOK'
      BY <1>6, <2>1, <2>2 DEF PopFront, Goto, TypeOK, Labels
  <2>4. (MutualExclusion /\ ArgumentOK)'
      BY <1>6, <2>1 DEF PopFront, Goto, TypeOK, MutualExclusion, Holding, ArgumentOK, Threads
  <2>5. \A u \in Threads : pc'[u] # "move"
      BY <1>6 DEF PopFront, Goto, TypeOK, MutualExclusion, Holding
  <2>6. MoveIsSafe'
      BY <2>5 DEF MoveIsSafe
  <2>7. WithinCapacity'
      BY <1>6, <2>1, <2>2 DEF PopFront, TypeOK, WithinCapacity
  <2>8. QED
      BY <2>3, <2>4, <2>6, <2>7
<1>7. ASSUME NEW t \in Threads, Unlock(t) PROVE IInv'
  <2>1. TypeOK'
      BY <1>7 DEF Unlock, Goto, TypeOK, Labels
  <2>2. (MutualExclusion /\ MoveIsSafe /\ WithinCapacity)'
      BY <1>7, ThreadFacts DEF Unlock, Goto, TypeOK, MutualExclusion, MoveIsSafe, WithinCapacity, Holding
  <2>3. ArgumentOK'
      BY <1>7 DEF Unlock, Goto, TypeOK, ArgumentOK, Threads
  <2>4. QED
      BY <2>1, <2>2, <2>3
<1>8. ASSUME NEW t \in Threads, NotifyAll(t) PROVE IInv'
  <2>1. TypeOK'
      BY <1>8 DEF NotifyAll, Woken, TypeOK, Labels
  <2>2. \A u \in Threads : pc'[u] # pc[u] => pc[u] \in {"notify", "waiting"} /\ pc'[u] \in {"idle", "lock"}
      BY <1>8 DEF NotifyAll, Woken, TypeOK
  <2>3. (MutualExclusion /\ MoveIsSafe /\ WithinCapacity)'
      BY <1>8, <2>2 DEF NotifyAll, TypeOK, MutualExclusion, MoveIsSafe, WithinCapacity, Holding
  <2>4. ArgumentOK'
      BY <1>8, <2>2 DEF NotifyAll, TypeOK, ArgumentOK, Threads
  <2>5. QED
      BY <2>1, <2>3, <2>4
<1>9. ASSUME NEW t \in Threads, SpuriousWakeup(t) PROVE IInv'
  <2>1. TypeOK'
      BY <1>9 DEF SpuriousWakeup, Goto, TypeOK, Labels
  <2>2. (MutualExclusion /\ MoveIsSafe /\ WithinCapacity)'
      BY <1>9 DEF SpuriousWakeup, Goto, TypeOK, MutualExclusion, MoveIsSafe, WithinCapacity, Holding
  <2>3. ArgumentOK'
      BY <1>9 DEF SpuriousWakeup, Goto, TypeOK, ArgumentOK, Threads
  <2>4. QED
      BY <2>1, <2>2, <2>3
<1>10. CASE UNCHANGED vars
    BY <1>10 DEF vars, TypeOK, ArgumentOK, MutualExclusion, MoveIsSafe, WithinCapacity, Holding
<1>11. QED
    BY <1>1, <1>2, <1>3, <1>4, <1>5, <1>6, <1>7, <1>8, <1>9, <1>10 DEF Next, Step
-----------------------------------------------------------------------------
\* The invariant holds of the specification.
THEOREM Invariance == Spec => []IInv
BY InitIInv, NextIInv, PTL DEF Spec

\* Type correctness, which includes that no NULL frame is ever queued.
THEOREM TypeCorrect == Spec => []TypeOK
<1>1. IInv => TypeOK
    BY DEF IInv
<1>2. QED
    BY Invariance, <1>1, PTL

\* One mutex guards the deques of all buffers (buffer.cpp:12-15, 23-27).
THEOREM DequesAreGuarded == Spec => []MutualExclusion
<1>1. IInv => MutualExclusion
    BY DEF IInv
<1>2. QED
    BY Invariance, <1>1, PTL

\* No deque outgrows size_ and no pop sees an empty deque (buffer.cpp:13-14,
\* 24-26).
THEOREM DequesAreBounded == Spec => [](MoveIsSafe /\ WithinCapacity)
<1>1. IInv => MoveIsSafe /\ WithinCapacity
    BY DEF IInv
<1>2. QED
    BY Invariance, <1>1, PTL
-----------------------------------------------------------------------------
\* A sleeping thread whose predicate becomes true does so by another thread's
\* update, and that thread is at "unlock" or "notify" until its notify_all
\* empties the wait set.
LEMMA NextNoLostWakeup ==
    IInv /\ NoLostWakeup /\ [Next]_vars => NoLostWakeup'
<1> SUFFICES ASSUME IInv, NoLostWakeup, [Next]_vars,
                    NEW s \in Threads, pc'[s] = "waiting", Ready(s)'
             PROVE  \E u \in Threads : pc'[u] \in {"unlock", "notify"}
    BY DEF NoLostWakeup
<1> USE DEF IInv, TypeOK
<1>1. ASSUME NEW t \in Threads, Call(t) \/ Lock(t) \/ Proceed(t) \/ SpuriousWakeup(t)
      PROVE  \E u \in Threads : pc'[u] \in {"unlock", "notify"}
  <2>1. pc[s] = "waiting" /\ Ready(s)
      BY <1>1 DEF Call, Lock, Proceed, SpuriousWakeup, Goto, Ready
  <2>2. PICK u \in Threads : pc[u] \in {"unlock", "notify"}
      BY <2>1 DEF NoLostWakeup
  <2>3. pc'[u] = pc[u]
      BY <1>1, <2>2 DEF Call, Lock, Proceed, SpuriousWakeup, Goto
  <2>4. QED
      BY <2>2, <2>3
<1>2. ASSUME NEW t \in Threads, Sleep(t)
      PROVE  \E u \in Threads : pc'[u] \in {"unlock", "notify"}
  <2>1. Ready(s)
      BY <1>2 DEF Sleep, Ready
  <2>2. s # t /\ pc[s] = "waiting"
      BY <1>2, <2>1 DEF Sleep, Goto
  <2>3. PICK u \in Threads : pc[u] \in {"unlock", "notify"}
      BY <2>1, <2>2 DEF NoLostWakeup
  <2>4. pc'[u] = pc[u]
      BY <1>2, <2>3 DEF Sleep, Goto
  <2>5. QED
      BY <2>3, <2>4
<1>3. ASSUME NEW t \in Threads, PushBack(t) \/ PopFront(t) \/ Unlock(t)
      PROVE  \E u \in Threads : pc'[u] \in {"unlock", "notify"}
  <2>1. pc'[t] \in {"unlock", "notify"}
      BY <1>3 DEF PushBack, PopFront, Unlock, Goto
  <2>2. QED
      BY <2>1
<1>4. ASSUME NEW t \in Threads, NotifyAll(t)
      PROVE  FALSE
  <2>1. pc'[s] # "waiting"
      BY <1>4 DEF NotifyAll, Woken
  <2>2. QED
      BY <2>1
<1>5. CASE UNCHANGED vars
  <2>1. pc[s] = "waiting" /\ Ready(s)
      BY <1>5 DEF vars, Ready
  <2>2. QED
      BY <1>5, <2>1 DEF NoLostWakeup, vars
<1>6. QED
    BY <1>1, <1>2, <1>3, <1>4, <1>5 DEF Next, Step

\* No wakeup is lost although one condition variable serves the readers and
\* the processors of every Buffer (buffer.cpp:13-16, 24-28).
THEOREM WakeupsAreNotLost == Spec => []NoLostWakeup
<1>1. Init => NoLostWakeup
    BY DEF Init, NoLostWakeup
<1>2. QED
    BY Invariance, <1>1, NextNoLostWakeup, PTL DEF Spec
-----------------------------------------------------------------------------
\* Refinement: each step of the threads is a step of BoundedQueue or a
\* stutter; a call takes effect at PushBack or PopFront.
LEMMA InitRefines == Init => BQ!Init
BY DEF Init, BQ!Init, callOf, BQ!Threads, BQ!Buffers, Threads, Buffers

LEMMA NextRefines == IInv /\ IInv' /\ [Next]_vars => [BQ!Next]_BQ!vars
<1> SUFFICES ASSUME IInv, IInv', [Next]_vars PROVE [BQ!Next]_BQ!vars
    OBVIOUS
<1> USE DEF IInv, TypeOK
<1>0. BQ!Threads = Threads /\ BQ!Buffers = Buffers
    BY DEF BQ!Threads, BQ!Buffers, Threads, Buffers
<1>1. ASSUME NEW t \in Threads, Call(t) PROVE BQ!Next
  <2>1. callOf[t] = "idle" /\ callOf' = [callOf EXCEPT ![t] = "pending"]
      BY <1>1 DEF Call, Goto, callOf
  <2>2. BQ!Invoke(t)
      BY <1>1, <2>1 DEF Call, BQ!Invoke
  <2>3. QED
      BY <1>0, <2>2 DEF BQ!Next
<1>2. ASSUME NEW t \in Threads,
             Lock(t) \/ Proceed(t) \/ Sleep(t) \/ Unlock(t) \/ SpuriousWakeup(t)
      PROVE  UNCHANGED BQ!vars
  <2>1. callOf' = callOf
      BY <1>2 DEF Lock, Proceed, Sleep, Unlock, SpuriousWakeup, Goto, callOf
  <2>2. QED
      BY <1>2, <2>1 DEF BQ!vars, Lock, Proceed, Sleep, Unlock, SpuriousWakeup
<1>3. ASSUME NEW t \in Threads, PushBack(t) PROVE BQ!Next
  <2>1. callOf[t] = "pending" /\ callOf' = [callOf EXCEPT ![t] = "done"]
      BY <1>3 DEF PushBack, Goto, callOf
  <2>2. t \in Producers /\ Len(buffer_[bufferOf[t]]) < size_
      BY <1>3 DEF PushBack, MoveIsSafe
  <2>3. BQ!Add(t)
      BY <1>3, <2>1, <2>2 DEF PushBack, BQ!Add
  <2>4. QED
      BY <1>0, <2>3 DEF BQ!Next
<1>4. ASSUME NEW t \in Threads, PopFront(t) PROVE BQ!Next
  <2>1. callOf[t] = "pending" /\ callOf' = [callOf EXCEPT ![t] = "done"]
      BY <1>4 DEF PopFront, Goto, callOf
  <2>2. t \in Consumers /\ buffer_[bufferOf[t]] # <<>>
      BY <1>4, ThreadFacts DEF PopFront, MoveIsSafe
  <2>3. BQ!Remove(t)
      BY <1>4, <2>1, <2>2 DEF PopFront, BQ!Remove
  <2>4. QED
      BY <1>0, <2>3 DEF BQ!Next
<1>5. ASSUME NEW t \in Threads, NotifyAll(t) PROVE BQ!Next
  <2>1. callOf[t] = "done" /\ callOf' = [callOf EXCEPT ![t] = "idle"]
      BY <1>5 DEF NotifyAll, Woken, callOf
  <2>2. BQ!Return(t)
      BY <1>5, <2>1 DEF NotifyAll, BQ!Return
  <2>3. QED
      BY <1>0, <2>2 DEF BQ!Next
<1>6. CASE UNCHANGED vars
    BY <1>6 DEF vars, BQ!vars, callOf
<1>7. QED
    BY <1>1, <1>2, <1>3, <1>4, <1>5, <1>6 DEF Next, Step

\* For its callers, class Buffer is an atomic bounded FIFO queue.
THEOREM Refinement == Spec => ImplementsQueue
<1>1. Spec => BQ!Init /\ [][BQ!Next]_BQ!vars
    BY InitRefines, NextRefines, Invariance, PTL DEF Spec
<1>2. QED
    BY <1>1 DEF ImplementsQueue, BQ!Spec
=============================================================================
