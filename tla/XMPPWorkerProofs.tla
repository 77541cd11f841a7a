-------------------------- MODULE XMPPWorkerProofs --------------------------
(***************************************************************************)
(* The safety of XMPPWorker, for every set of transactions and any number  *)
(* of starts and spurious wakeups: what stop() leaves behind, that what    *)
(* was drained is sent, and that the worker is an Outbox.                  *)
(*                                                                         *)
(* All three rest on one invariant that ties the two threads together: at  *)
(* which steps of the user thread a worker thread exists, and at which     *)
(* steps of the worker there is a connection.                              *)
(***************************************************************************)
EXTENDS XMPPWorker, TLAPS

\* When a worker thread exists.
ThreadExists ==
    /\ ~isStarted => upc = "idle" /\ wpc = "none"
    /\ upc = "create" => wpc = "none"
    /\ isStarted /\ upc # "create" => wpc # "none"

\* What the worker thread has at each of its steps.
WorkerHas ==
    /\ wpc \in {"none", "announce", "exited"} => ~isWorkerRunning
    /\ wpc \in {"none", "announce", "connect", "leave", "exited"} => link = "down"
    /\ wpc \in {"dequeue", "send"} => link = "up"
    /\ isConnReady = (link = "up")

\* The inductive invariant.
ThreadInv == TypeOK /\ ThreadExists /\ WorkerHas

LEMMA ThreadInit == Init => ThreadInv
<1> SUFFICES ASSUME Init PROVE ThreadInv
    OBVIOUS
<1>1. starts \in 0..MaxStarts /\ spurious \in 0..MaxSpurious
    BY WorkerAssumption DEF Init
<1>2. TypeOK
    <2>1. {locked, isStarted, doExit, isWorkerRunning, isConnReady} \subseteq BOOLEAN
        BY DEF Init
    <2>2. queue \in Seq(Transactions) /\ sent \in Seq(Transactions)
        BY DEF Init
    <2>3. /\ upc = "idle" /\ wpc = "none" /\ link = "down" /\ trans = NoTransaction
          /\ unqueued \subseteq Transactions /\ due \subseteq Transactions
        BY DEF Init
    <2> QED
        BY <1>1, <2>1, <2>2, <2>3 DEF TypeOK
<1>3. ThreadExists /\ WorkerHas
    BY DEF Init, ThreadExists, WorkerHas
<1> QED
    BY <1>2, <1>3 DEF ThreadInv

LEMMA TypeStep ==
    ASSUME ThreadInv, [Next]_vars
    PROVE  TypeOK'
<1> USE WorkerAssumption DEF ThreadInv, TypeOK, cvars, qvars, uvars
<1>1. CASE UNCHANGED vars
    BY <1>1 DEF vars
<1>2. ASSUME NEW t \in Transactions, Send(t) PROVE TypeOK'
    BY <1>2 DEF Send
<1>3. CASE SpuriousWakeup
    BY <1>3 DEF SpuriousWakeup
<1>4. CASE User
    <2>1. CASE Start
        <3>1. starts' \in 0..MaxStarts
            BY <2>1 DEF Start
        <3> QED
            BY <2>1, <3>1 DEF Start
    <2>2. CASE Create
        BY <2>2 DEF Create, ThreadExists
    <2>3. CASE CreateFails
        BY <2>3 DEF CreateFails
    <2>4. CASE Wait
        BY <2>4 DEF Wait
    <2>5. CASE Wake
        BY <2>5 DEF Wake
    <2>6. CASE Stop
        BY <2>6 DEF Stop
    <2>7. CASE Drain
        BY <2>7 DEF Drain
    <2>8. CASE DrainRunning
        BY <2>8 DEF DrainRunning
    <2>9. CASE DrainPending
        BY <2>9 DEF DrainPending
    <2>10. CASE Join
        BY <2>10 DEF Join
    <2> QED
        BY <1>4, <2>1, <2>2, <2>3, <2>4, <2>5, <2>6, <2>7, <2>8, <2>9, <2>10 DEF User
<1>5. CASE Worker
    <2>1. CASE Announce
        BY <2>1 DEF Announce
    <2>2. CASE Connect
        BY <2>2 DEF Connect
    <2>3. CASE Loop
        BY <2>3 DEF Loop
    <2>4. CASE Dequeue
        BY <2>4 DEF Dequeue
    <2>5. CASE Transmit
        BY <2>5 DEF Transmit
    <2>6. CASE RunIdle
        BY <2>6 DEF RunIdle
    <2>7. CASE Connected
        BY <2>7 DEF Connected
    <2>8. CASE Disconnected
        BY <2>8 DEF Disconnected
    <2>9. CASE Close
        BY <2>9 DEF Close
    <2>10. CASE Leave
        BY <2>10 DEF Leave
    <2> QED
        BY <1>5, <2>1, <2>2, <2>3, <2>4, <2>5, <2>6, <2>7, <2>8, <2>9, <2>10 DEF Worker
<1> QED
    BY <1>1, <1>2, <1>3, <1>4, <1>5 DEF Next

LEMMA ThreadStep ==
    ASSUME ThreadInv, [Next]_vars
    PROVE  ThreadExists' /\ WorkerHas'
<1> USE DEF ThreadInv, ThreadExists, WorkerHas, cvars, qvars, uvars
<1>1. CASE UNCHANGED vars
    BY <1>1 DEF vars
<1>2. ASSUME NEW t \in Transactions, Send(t) PROVE ThreadExists' /\ WorkerHas'
    BY <1>2 DEF Send
<1>3. CASE SpuriousWakeup
    BY <1>3 DEF SpuriousWakeup
<1>4. CASE User
    <2>1. CASE Start \/ Create \/ CreateFails
        BY <2>1 DEF Start, Create, CreateFails, TypeOK
    <2>2. CASE Wait \/ Wake
        BY <2>2 DEF Wait, Wake
    <2>3. CASE Stop \/ Drain \/ DrainRunning \/ DrainPending \/ Join
        BY <2>3 DEF Stop, Drain, DrainRunning, DrainPending, Join
    <2> QED
        BY <1>4, <2>1, <2>2, <2>3 DEF User
<1>5. CASE Worker
    <2>1. CASE Announce \/ Connect \/ Loop
        BY <2>1 DEF Announce, Connect, Loop, TypeOK
    <2>2. CASE Dequeue \/ Transmit \/ RunIdle
        BY <2>2 DEF Dequeue, Transmit, RunIdle
    <2>3. CASE Connected \/ Disconnected
        BY <2>3 DEF Connected, Disconnected
    <2>4. CASE Close \/ Leave
        BY <2>4 DEF Close, Leave
    <2> QED
        BY <1>5, <2>1, <2>2, <2>3, <2>4 DEF Worker
<1> QED
    BY <1>1, <1>2, <1>3, <1>4, <1>5 DEF Next

THEOREM ThreadInvariance == Spec => []ThreadInv
<1>1. ThreadInv /\ [Next]_vars => ThreadInv'
    BY TypeStep, ThreadStep DEF ThreadInv
<1> QED
    BY ThreadInit, <1>1, PTL DEF Spec

\* Every transaction that is queued, on its way or sent is one that was handed
\* to queueTransaction(), and the worker holds one just while it is sending.
THEOREM TypeCorrect == Spec => []TypeOK
<1>1. ThreadInv => TypeOK
    BY DEF ThreadInv
<1> QED
    BY ThreadInvariance, <1>1, PTL

\* When stop() has returned no thread is left, no connection and no
\* transaction half way (XMPPWorker.cc:212-232).
THEOREM StoppedStaysQuiet == Spec => []StoppedIsQuiet
<1>1. ThreadInv => StoppedIsQuiet
    BY DEF ThreadInv, TypeOK, ThreadExists, WorkerHas, StoppedIsQuiet
<1> QED
    BY ThreadInvariance, <1>1, PTL
-----------------------------------------------------------------------------
(* What was drained is sent.                                               *)

Contents(s) == {s[i] : i \in 1..Len(s)}

\* Whatever was queued is still in the queue, with the worker, or sent; what
\* was queued when the drain loop ended is with the worker or sent, and it is
\* sent except while stop() still waits for the worker.
DrainInv ==
    /\ Transactions \ unqueued \subseteq Contents(queue) \cup {trans} \cup Contents(sent)
    /\ due \subseteq {trans} \cup Contents(sent)
    /\ upc # "join" => due \subseteq Contents(sent)

LEMMA ContentsOfAppend ==
    ASSUME NEW S, NEW s \in Seq(S), NEW x \in S
    PROVE  Contents(Append(s, x)) = Contents(s) \cup {x}
<1>1. /\ Len(s) \in Nat /\ Len(Append(s, x)) = Len(s) + 1
      /\ \A i \in 1..Len(s) : Append(s, x)[i] = s[i]
      /\ Append(s, x)[Len(s) + 1] = x
    OBVIOUS
<1> QED
    BY <1>1 DEF Contents

LEMMA ContentsOfTail ==
    ASSUME NEW S, NEW s \in Seq(S), s # <<>>
    PROVE  Contents(s) = {Head(s)} \cup Contents(Tail(s))
<1>1. /\ Len(s) \in Nat \ {0} /\ Len(Tail(s)) = Len(s) - 1
      /\ \A i \in 1..Len(Tail(s)) : Tail(s)[i] = s[i + 1]
      /\ Head(s) = s[1]
    OBVIOUS
<1>2. ASSUME NEW i \in 1..Len(s), i # 1
      PROVE  i - 1 \in 1..Len(Tail(s)) /\ s[i] = Tail(s)[i - 1]
    <2>1. i - 1 \in 1..Len(Tail(s)) /\ (i - 1) + 1 = i
        BY <1>1, <1>2
    <2> QED
        BY <1>1, <2>1
<1>3. \A i \in 1..Len(Tail(s)) : i + 1 \in 1..Len(s)
    BY <1>1
<1>4. Contents(s) \subseteq {Head(s)} \cup Contents(Tail(s))
    BY <1>1, <1>2 DEF Contents
<1>5. {Head(s)} \cup Contents(Tail(s)) \subseteq Contents(s)
    BY <1>1, <1>3 DEF Contents
<1> QED
    BY <1>4, <1>5

LEMMA DrainInit == Init => DrainInv
BY DEF Init, DrainInv, Contents

LEMMA DrainStep ==
    ASSUME ThreadInv, DrainInv, [Next]_vars
    PROVE  DrainInv'
<1> USE DEF DrainInv, cvars, qvars, uvars
<1>1. CASE UNCHANGED vars
    BY <1>1 DEF vars
<1>2. ASSUME NEW t \in Transactions, Send(t) PROVE DrainInv'
    <2>1. Contents(queue') = Contents(queue) \cup {t}
        BY <1>2, ContentsOfAppend DEF Send, ThreadInv, TypeOK
    <2> QED
        BY <1>2, <2>1 DEF Send
<1>3. CASE SpuriousWakeup
    BY <1>3 DEF SpuriousWakeup
<1>4. CASE User
    <2>1. CASE Start \/ Create \/ CreateFails \/ Wait \/ Wake
        BY <1>4, <2>1 DEF Start, Create, CreateFails, Wait, Wake
    <2>2. CASE Stop \/ Drain \/ DrainRunning
        BY <2>2 DEF Stop, Drain, DrainRunning
    <2>3. CASE DrainPending
        <3>1. queue = <<>> => Contents(queue) = {}
            BY DEF Contents
        <3> QED
            BY <2>3, <3>1 DEF DrainPending
    <2>4. CASE Join
        <3>1. trans = NoTransaction /\ NoTransaction \notin due
            BY <2>4, WorkerAssumption DEF Join, ThreadInv, TypeOK
        <3> QED
            BY <2>4, <3>1 DEF Join
    <2> QED
        BY <1>4, <2>1, <2>2, <2>3, <2>4 DEF User
<1>5. CASE Worker
    <2>1. CASE Dequeue
        <3>1. trans = NoTransaction /\ NoTransaction \notin due
            BY <2>1, WorkerAssumption DEF Dequeue, ThreadInv, TypeOK
        <3>2. queue # <<>> => Contents(queue) = {Head(queue)} \cup Contents(Tail(queue))
            BY ContentsOfTail DEF ThreadInv, TypeOK
        <3>3. NoTransaction \notin Transactions
            BY WorkerAssumption
        <3> QED
            BY <2>1, <3>1, <3>2, <3>3 DEF Dequeue
    <2>2. CASE Transmit
        <3>1. trans \in Transactions
            BY <2>2 DEF Transmit, ThreadInv, TypeOK
        <3>2. Contents(sent') = Contents(sent) \cup {trans}
            BY <2>2, <3>1, ContentsOfAppend DEF Transmit, ThreadInv, TypeOK
        <3> QED
            BY <2>2, <3>2 DEF Transmit
    <2>3. CASE Announce \/ Connect \/ Loop \/ RunIdle \/ Connected \/ Disconnected \/ Close \/ Leave
        BY <2>3 DEF Announce, Connect, Loop, RunIdle, Connected, Disconnected, Close, Leave
    <2> QED
        BY <1>5, <2>1, <2>2, <2>3 DEF Worker
<1> QED
    BY <1>1, <1>2, <1>3, <1>4, <1>5 DEF Next

\* What had been queued when the drain loop saw an empty queue is sent when
\* stop() returns (XMPPInterface.cpp:196-199).
THEOREM DrainedGetsSent == Spec => []DrainedIsSent
<1>1. ThreadInv /\ DrainInv /\ [Next]_vars => DrainInv'
    BY DrainStep
<1>2. DrainInv => DrainedIsSent
    BY DEF DrainInv, DrainedIsSent, Contents
<1> QED
    BY ThreadInvariance, DrainInit, <1>1, <1>2, PTL DEF Spec
-----------------------------------------------------------------------------
(* The refinement of Outbox.                                               *)

LEMMA OutboxInit == Init => OB!Init
BY DEF Init, OB!Init

LEMMA OutboxStep ==
    ASSUME ThreadInv, [Next]_vars
    PROVE  [OB!Next]_OB!vars
<1> USE DEF cvars, qvars, uvars
<1> DEFINE pending == IF trans = NoTransaction THEN queue ELSE <<trans>> \o queue
<1>1. CASE UNCHANGED vars
    BY <1>1 DEF vars, OB!vars
<1>2. ASSUME NEW t \in Transactions, Send(t) PROVE OB!Enqueue(t)
    <2>1. queue \in Seq(Transactions) /\ trans \in Transactions \cup {NoTransaction}
        BY DEF ThreadInv, TypeOK
    <2>2. queue' = Append(queue, t) /\ UNCHANGED <<trans, sent, isConnReady>>
        BY <1>2 DEF Send
    <2>3. pending' = Append(pending, t)
        <3>1. CASE trans = NoTransaction
            BY <2>2, <3>1
        <3>2. CASE trans \in Transactions /\ trans # NoTransaction
            <4>1. <<trans>> \o Append(queue, t) = Append(<<trans>> \o queue, t)
                BY <2>1, <3>2
            <4> QED
                BY <2>2, <3>2, <4>1
        <3> QED
            BY <2>1, <3>1, <3>2
    <2> QED
        BY <2>2, <2>3 DEF OB!Enqueue
<1>3. CASE SpuriousWakeup \/ User
    <2>1. UNCHANGED <<queue, trans, sent, isConnReady>>
        BY <1>3 DEF SpuriousWakeup, User, Start, Create, CreateFails, Wait, Wake, Stop, Drain,
            DrainRunning, DrainPending, Join
    <2> QED
        BY <2>1 DEF OB!vars
<1>4. CASE Worker
    <2>1. CASE Dequeue
        <3>1. trans = NoTransaction /\ queue \in Seq(Transactions) /\ NoTransaction \notin Transactions
            BY <2>1, WorkerAssumption DEF Dequeue, ThreadInv, TypeOK
        <3>2. UNCHANGED <<sent, isConnReady>>
            BY <2>1 DEF Dequeue
        <3>3. CASE queue = <<>>
            BY <2>1, <3>2, <3>3 DEF Dequeue, OB!vars
        <3>4. CASE queue # <<>>
            <4>1. trans' = Head(queue) /\ queue' = Tail(queue) /\ Head(queue) \in Transactions
                BY <2>1, <3>1, <3>4 DEF Dequeue
            <4>2. <<Head(queue)>> \o Tail(queue) = queue
                BY <3>1, <3>4
            <4> QED
                BY <3>1, <3>2, <4>1, <4>2 DEF OB!vars
        <3> QED
            BY <3>3, <3>4
    <2>2. CASE Transmit
        <3>1. /\ trans \in Transactions /\ trans # NoTransaction
              /\ queue \in Seq(Transactions) /\ isConnReady
            BY <2>2 DEF Transmit, ThreadInv, TypeOK, WorkerHas
        <3>2. /\ <<trans>> \o queue # <<>> /\ Head(<<trans>> \o queue) = trans
              /\ Tail(<<trans>> \o queue) = queue
            BY <3>1
        <3>3. /\ sent' = Append(sent, trans) /\ trans' = NoTransaction
              /\ UNCHANGED <<queue, isConnReady>>
            BY <2>2 DEF Transmit
        <3>4. OB!Transmit
            BY <3>1, <3>2, <3>3 DEF OB!Transmit
        <3> QED
            BY <3>4 DEF OB!Next
    <2>3. CASE Announce \/ Loop \/ RunIdle \/ Leave
        BY <2>3 DEF Announce, Loop, RunIdle, Leave, OB!vars
    <2>4. CASE Connect \/ Connected \/ Disconnected \/ Close
        <3>1. UNCHANGED <<queue, trans, sent>>
            BY <2>4 DEF Connect, Connected, Disconnected, Close
        <3>2. isConnReady \in BOOLEAN /\ isConnReady' \in BOOLEAN
            BY <2>4 DEF Connect, Connected, Disconnected, Close, ThreadInv, TypeOK
        <3>3. isConnReady' = isConnReady \/ isConnReady' = ~isConnReady
            BY <3>2
        <3> QED
            BY <3>1, <3>3 DEF OB!vars, OB!Next, OB!Switch
    <2> QED
        BY <1>4, <2>1, <2>2, <2>3, <2>4 DEF Worker
<1> QED
    BY <1>1, <1>2, <1>3, <1>4 DEF Next, OB!Next

\* Whatever the two threads and the connection do, the worker transmits what
\* was queued, in order, at most once and only over a connection that is up
\* (XMPPWorker.cc:432-500).
THEOREM WorkerIsAnOutbox == Spec => ImplementsOutbox
<1>1. ThreadInv /\ [Next]_vars => [OB!Next]_OB!vars
    BY OutboxStep
<1> QED
    BY ThreadInvariance, OutboxInit, <1>1, PTL DEF Spec, ImplementsOutbox, OB!Spec
=============================================================================
