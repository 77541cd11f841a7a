---------------------------- MODULE BoundedQueue ----------------------------
(***************************************************************************)
(* What class Buffer (src/src/buffer.h) promises its callers: each buffer  *)
(* is a bounded queue of frames, a call of add() or remove() takes effect  *)
(* in one indivisible step between its invocation and its return, add()    *)
(* takes effect only while the queue has room and remove() only while it   *)
(* holds a frame, and remove() returns the oldest frame.  No lock, wait or *)
(* wakeup appears here: FrameBuffer.tla shows that the code's use of one   *)
(* mutex and one condition variable implements this.                       *)
(***************************************************************************)
EXTENDS Naturals, Sequences

CONSTANTS
    Producers,   \* threads that call add()
    Consumers,   \* threads that call remove()
    bufferOf,    \* the buffer each thread calls
    size_,       \* capacity of every buffer
    Frames,      \* the frames passed through
    NoFrame      \* the frame field of a thread that holds none

VARIABLES
    queue,       \* the frames in each buffer, oldest first
    call,        \* progress of the call each thread is in
    frame        \* the argument of add(), then the result of remove()

vars == <<queue, call, frame>>
Threads == Producers \cup Consumers
Buffers == {bufferOf[t] : t \in Threads}

Init ==
    /\ queue = [b \in Buffers |-> <<>>]
    /\ call = [t \in Threads |-> "idle"]
    /\ frame = [t \in Threads |-> NoFrame]

\* A thread invokes add(f) or remove().
Invoke(t) ==
    /\ call[t] = "idle"
    /\ call' = [call EXCEPT ![t] = "pending"]
    /\ IF t \in Producers
       THEN \E f \in Frames : frame' = [frame EXCEPT ![t] = f]
       ELSE frame' = [frame EXCEPT ![t] = NoFrame]
    /\ UNCHANGED queue

\* add() takes effect.
Add(t) ==
    /\ t \in Producers
    /\ call[t] = "pending"
    /\ Len(queue[bufferOf[t]]) < size_
    /\ queue' = [queue EXCEPT ![bufferOf[t]] = Append(@, frame[t])]
    /\ call' = [call EXCEPT ![t] = "done"]
    /\ UNCHANGED frame

\* remove() takes effect.
Remove(t) ==
    /\ t \in Consumers
    /\ call[t] = "pending"
    /\ queue[bufferOf[t]] # <<>>
    /\ frame' = [frame EXCEPT ![t] = Head(queue[bufferOf[t]])]
    /\ queue' = [queue EXCEPT ![bufferOf[t]] = Tail(@)]
    /\ call' = [call EXCEPT ![t] = "done"]

Return(t) ==
    /\ call[t] = "done"
    /\ call' = [call EXCEPT ![t] = "idle"]
    /\ UNCHANGED <<queue, frame>>

Next == \E t \in Threads : Invoke(t) \/ Add(t) \/ Remove(t) \/ Return(t)

Spec == Init /\ [][Next]_vars
=============================================================================
