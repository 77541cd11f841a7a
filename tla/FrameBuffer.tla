----------------------------- MODULE FrameBuffer -----------------------------
(***************************************************************************)
(* class Buffer of src/src/buffer.h and buffer.cpp: the bounded queue that *)
(* hands frames from the reader to the processor.  Every Buffer object has *)
(* its own deque, but the mutex mu and the condition variable cond are     *)
(* globals of buffer.cpp (lines 8-9), so the GridEye's and the MLX's       *)
(* buffers, their readers and their processors all share one lock and one  *)
(* wait set.  The model takes one step per operation on shared state:      *)
(* lock, evaluate the predicate of wait(), push or pop, unlock, notify.    *)
(*                                                                         *)
(* pc values:  idle     not in a call                                      *)
(*             lock     about to acquire mu, first time or after a wakeup  *)
(*             test     holds mu, evaluates the predicate of cond.wait     *)
(*             move     holds mu, the predicate was true                   *)
(*             unlock   holds mu, the deque is updated                     *)
(*             notify   released mu, has not called notify_all yet         *)
(*             waiting  released mu inside cond.wait                       *)
(***************************************************************************)
EXTENDS Naturals, Sequences

CONSTANTS
    Producers,   \* threads that call add(): the sensor and file readers
    Consumers,   \* threads that call remove(): the frame processors
    bufferOf,    \* the Buffer object each thread calls
    size_,       \* Buffer::size_
    Frames,      \* the int** values passed through
    NoFrame,     \* no frame held
    NoThread,    \* mu is free
    MaxSpurious  \* bound: spurious wakeups in a behaviour

Threads == Producers \cup Consumers
Buffers == {bufferOf[t] : t \in Threads}

ASSUME BufferAssumption ==
    /\ Producers \cap Consumers = {}
    /\ NoThread \notin Threads
    /\ NoFrame \notin Frames
    /\ size_ \in Nat \ {0}
    /\ MaxSpurious \in Nat

VARIABLES
    buffer_,     \* the deque of each Buffer
    mu,          \* the thread that holds the mutex, or NoThread
    pc,          \* where each thread is
    frame,       \* the frame each thread passes or was given
    spurious     \* spurious wakeups so far

vars == <<buffer_, mu, pc, frame, spurious>>

Init ==
    /\ buffer_ = [b \in Buffers |-> <<>>]
    /\ mu = NoThread
    /\ pc = [t \in Threads |-> "idle"]
    /\ frame = [t \in Threads |-> NoFrame]
    /\ spurious = 0

\* The predicates given to cond.wait by add() and remove().
Ready(t) ==
    IF t \in Producers
    THEN Len(buffer_[bufferOf[t]]) < size_
    ELSE Len(buffer_[bufferOf[t]]) > 0

Goto(t, l) == pc' = [pc EXCEPT ![t] = l]

\* The reader calls add(frame), the processor calls remove().
Call(t) ==
    /\ pc[t] = "idle"
    /\ IF t \in Producers
       THEN \E f \in Frames : frame' = [frame EXCEPT ![t] = f]
       ELSE frame' = [frame EXCEPT ![t] = NoFrame]
    /\ Goto(t, "lock")
    /\ UNCHANGED <<buffer_, mu, spurious>>

\* Mutant of Lock: no mutual exclusion.
M_LockNoMutex(t) ==
    /\ pc[t] = "lock"
    /\ mu' = t
    /\ Goto(t, "test")
    /\ UNCHANGED <<buffer_, frame, spurious>>

\* std::unique_lock locker(mu), and the lock that wait() takes on waking.
Lock(t) ==
    /\ pc[t] = "lock"
    /\ mu = NoThread
    /\ mu' = t
    /\ Goto(t, "test")
    /\ UNCHANGED <<buffer_, frame, spurious>>

\* cond.wait(locker, pred): pred() holds and wait returns.
Proceed(t) ==
    /\ pc[t] = "test"
    /\ Ready(t)
    /\ Goto(t, "move")
    /\ UNCHANGED <<buffer_, mu, frame, spurious>>

\* Mutant of Sleep: the thread spins on its predicate.
M_SleepSpinning(t) ==
    /\ pc[t] = "test"
    /\ ~Ready(t)
    /\ UNCHANGED vars

\* cond.wait(locker, pred): pred() is false; release mu and sleep at once.
Sleep(t) ==
    /\ pc[t] = "test"
    /\ ~Ready(t)
    /\ mu' = NoThread
    /\ Goto(t, "waiting")
    /\ UNCHANGED <<buffer_, frame, spurious>>

\* Mutant of PushBack: push_front.
M_PushFront(t) ==
    /\ pc[t] = "move"
    /\ t \in Producers
    /\ buffer_' = [buffer_ EXCEPT ![bufferOf[t]] = <<frame[t]>> \o @]
    /\ Goto(t, "unlock")
    /\ UNCHANGED <<mu, frame, spurious>>

\* buffer_.push_back(frame)
PushBack(t) ==
    /\ pc[t] = "move"
    /\ t \in Producers
    /\ buffer_' = [buffer_ EXCEPT ![bufferOf[t]] = Append(@, frame[t])]
    /\ Goto(t, "unlock")
    /\ UNCHANGED <<mu, frame, spurious>>

\* back_frame = buffer_.front(); buffer_.pop_front()
PopFront(t) ==
    /\ pc[t] = "move"
    /\ t \in Consumers
    /\ frame' = [frame EXCEPT ![t] = Head(buffer_[bufferOf[t]])]
    /\ buffer_' = [buffer_ EXCEPT ![bufferOf[t]] = Tail(@)]
    /\ Goto(t, "unlock")
    /\ UNCHANGED <<mu, spurious>>

\* locker.unlock()
Unlock(t) ==
    /\ pc[t] = "unlock"
    /\ mu' = NoThread
    /\ Goto(t, "notify")
    /\ UNCHANGED <<buffer_, frame, spurious>>

\* Mutant of Woken: notify_one, which may pick a thread that cannot go on.
M_NotifyOne(t) ==
    LET asleep == {u \in Threads : pc[u] = "waiting"}
    IN IF asleep = {} THEN {}
       ELSE {CHOOSE u \in asleep : \A v \in asleep : Ready(u) => Ready(v)}

\* The threads that leave the wait set when thread t calls notify_all.
Woken(t) == {u \in Threads : pc[u] = "waiting"}

\* cond.notify_all(), and the call returns.
NotifyAll(t) ==
    /\ pc[t] = "notify"
    /\ pc' = [u \in Threads |-> IF u = t THEN "idle"
                                ELSE IF u \in Woken(t) THEN "lock" ELSE pc[u]]
    /\ UNCHANGED <<buffer_, mu, frame, spurious>>

\* A condition variable may wake a sleeper that nobody notified.
SpuriousWakeup(t) ==
    /\ pc[t] = "waiting"
    /\ spurious < MaxSpurious
    /\ spurious' = spurious + 1
    /\ Goto(t, "lock")
    /\ UNCHANGED <<buffer_, mu, frame>>

\* A step of a thread inside a call.
Step(t) ==
    \/ Lock(t) \/ Proceed(t) \/ Sleep(t) \/ PushBack(t) \/ PopFront(t)
    \/ Unlock(t) \/ NotifyAll(t)

Next == \E t \in Threads : Call(t) \/ Step(t) \/ SpuriousWakeup(t)

Spec == Init /\ [][Next]_vars

(***************************************************************************)
(* Threads that can run do run, and the processor always asks for the next *)
(* frame (the loop of init_processing_frame).  Nothing obliges a reader to *)
(* call add() again: a sensor may fall silent and a file ends.             *)
(***************************************************************************)
Fairness ==
    /\ \A t \in Threads : WF_vars(Step(t))
    /\ \A t \in Consumers : WF_vars(Call(t))

FairSpec == Spec /\ Fairness
-----------------------------------------------------------------------------
Labels == {"idle", "lock", "test", "move", "unlock", "notify", "waiting"}

TypeOK ==
    /\ buffer_ \in [Buffers -> Seq(Frames)]
    /\ mu \in Threads \cup {NoThread}
    /\ pc \in [Threads -> Labels]
    /\ frame \in [Threads -> Frames \cup {NoFrame}]
    /\ spurious \in 0..MaxSpurious

\* The threads between lock() and unlock().
Holding(t) == pc[t] \in {"test", "move", "unlock"}

\* The deque is touched by one thread at a time, whichever Buffer it is of,
\* and a thread that sleeps in cond.wait does not keep the mutex
\* (buffer.cpp:12-15 and 23-27).
MutualExclusion == \A t \in Threads : Holding(t) <=> mu = t

\* What the predicate established is still true when the deque is updated:
\* push_back never exceeds size_, front() and pop_front() never see an empty
\* deque, although the predicate was evaluated in an earlier step and other
\* threads share the lock and the wait set (buffer.cpp:13-14, 24-26).
MoveIsSafe ==
    \A t \in Threads :
        pc[t] = "move" =>
            IF t \in Producers THEN Len(buffer_[bufferOf[t]]) < size_
                               ELSE buffer_[bufferOf[t]] # <<>>

\* add() waits while size_ frames are queued (buffer.cpp:13).
WithinCapacity == \A b \in Buffers : Len(buffer_[b]) <= size_

\* A thread asleep although its predicate holds is owed a wakeup: some thread
\* is between its update and its notify_all.  Because one condition variable
\* serves producers and consumers of every Buffer, this is what notify_all
\* (buffer.cpp:16, 28) buys and notify_one would lose.
NoLostWakeup ==
    \A t \in Threads : pc[t] = "waiting" /\ Ready(t)
                         => \E u \in Threads : pc[u] \in {"unlock", "notify"}

\* The readers of b that are in add(), and those about to return from it.
Adding(b) == {t \in Producers : bufferOf[t] = b /\ pc[t] # "idle"}
Added(b) == {t \in Adding(b) : pc[t] = "notify"}

\* Nobody waits for ever while the other side runs: of the readers that are
\* adding to a buffer one gets through (a mutex need not be fair), and a
\* processor in remove() whose buffer holds a frame gets one (buffer.cpp:10-31).
CallsReturn ==
    /\ \A b \in Buffers : Adding(b) # {} ~> Added(b) # {}
    /\ \A t \in Consumers : pc[t] # "idle" /\ Ready(t) ~> pc[t] = "idle"
-----------------------------------------------------------------------------
\* Refinement: a call takes effect when the deque is updated.
callOf ==
    [t \in Threads |->
        IF pc[t] = "idle" THEN "idle"
        ELSE IF pc[t] \in {"unlock", "notify"} THEN "done" ELSE "pending"]

BQ == INSTANCE BoundedQueue WITH queue <- buffer_, call <- callOf

\* add() and remove() are atomic and first-in first-out for their callers.
ImplementsQueue == BQ!Spec
=============================================================================
