----------------------------- MODULE XMPPWorker -----------------------------
(***************************************************************************)
(* class XMPPWorker of libextendxmpp/XMPPWorker.cc: a thread that owns the *)
(* XMPP connection and sends queued transactions.  The user thread starts  *)
(* it, stops it and waits for its queue to drain (as XMPPInterface does in *)
(* its destructor); any thread may send().  One action is one step between *)
(* two operations on shared state: the section of worker_routine under     *)
(* worker_status_lock is one step, so is each section under queue_lock.    *)
(*                                                                         *)
(* upc, the user thread:  idle  outside start() and stop()                 *)
(*     create   in start(), holds worker_status_lock                       *)
(*     cond     the worker thread exists, about to wait                    *)
(*     wait     released the lock inside pthread_cond_wait                 *)
(*     wake     woken, about to take the lock again                        *)
(*     aborted  assert(isWorkerRunning) failed, the process is dead        *)
(*     drain, pending   in the wait loop of ~XMPPInterface                 *)
(*     join     in stop(), waits for the worker thread                     *)
(* wpc, the worker thread:  none  does not exist                           *)
(*     announce, connect  before the loop                                  *)
(*     loop, dequeue, send, run  in the loop                               *)
(*     close, leave, exited  after the loop                                *)
(***************************************************************************)
EXTENDS Naturals, Sequences

CONSTANTS
    Transactions,   \* what callers of send() send, each once
    NoTransaction,  \* the worker holds none
    MaxStarts,      \* bound: calls of start()
    MaxSpurious     \* bound: spurious wakeups of pthread_cond_wait

ASSUME WorkerAssumption ==
    /\ NoTransaction \notin Transactions
    /\ MaxStarts \in Nat /\ MaxSpurious \in Nat

VARIABLES
    upc, wpc,
    locked,             \* the user thread holds worker_status_lock
    isStarted, doExit, isWorkerRunning, isConnReady,
    link,               \* libstrophe's connection: down, connecting, up
    queue,              \* the transaction queue
    trans,              \* the transaction worker_routine holds
    sent,               \* history: the transactions passed to libstrophe
    unqueued,           \* transactions nobody has sent yet
    due,                \* history: what was queued when the drain loop ended
    starts, spurious    \* bounded counters

uvars == <<upc, locked, isStarted, due, starts, spurious>>
cvars == <<isConnReady, link>>
qvars == <<queue, trans, sent, unqueued>>
vars == <<uvars, wpc, doExit, isWorkerRunning, cvars, qvars>>

\* The constructor.
Init ==
    /\ upc = "idle" /\ wpc = "none" /\ locked = FALSE
    /\ isStarted = FALSE /\ doExit = FALSE
    /\ isWorkerRunning = FALSE /\ isConnReady = FALSE
    /\ link = "down"
    /\ queue = <<>> /\ trans = NoTransaction /\ sent = <<>>
    /\ unqueued = Transactions
    /\ due = {}
    /\ starts = 0 /\ spurious = 0

Alive == upc # "aborted"
-----------------------------------------------------------------------------
(* Any thread.                                                             *)

\* send(t)
Send(t) ==
    /\ Alive
    /\ t \in unqueued
    /\ queue' = Append(queue, t)
    /\ unqueued' = unqueued \ {t}
    /\ UNCHANGED <<uvars, wpc, doExit, isWorkerRunning, cvars, trans, sent>>
-----------------------------------------------------------------------------
(* The user thread.                                                        *)

\* start(), up to the creation of the thread.
Start ==
    /\ upc = "idle" /\ ~isStarted
    /\ starts < MaxStarts
    /\ starts' = starts + 1
    /\ isStarted' = TRUE
    /\ doExit' = FALSE
    /\ locked' = TRUE
    /\ upc' = "create"
    /\ UNCHANGED <<due, spurious, wpc, isWorkerRunning, cvars, qvars>>

\* pthread_create succeeds.
Create ==
    /\ upc = "create"
    /\ wpc' = "announce"
    /\ upc' = "cond"
    /\ UNCHANGED <<locked, isStarted, due, starts, spurious, doExit, isWorkerRunning, cvars, qvars>>

\* pthread_create fails and start() returns 1.
CreateFails ==
    /\ upc = "create"
    /\ isStarted' = FALSE
    /\ locked' = FALSE
    /\ upc' = "idle"
    /\ UNCHANGED <<wpc, due, starts, spurious, doExit, isWorkerRunning, cvars, qvars>>

\* pthread_cond_wait releases the lock and sleeps at once.
Wait ==
    /\ upc = "cond"
    /\ locked' = FALSE
    /\ upc' = "wait"
    /\ UNCHANGED <<wpc, isStarted, due, starts, spurious, doExit, isWorkerRunning, cvars, qvars>>

SpuriousWakeup ==
    /\ upc = "wait"
    /\ spurious < MaxSpurious
    /\ spurious' = spurious + 1
    /\ upc' = "wake"
    /\ UNCHANGED <<wpc, locked, isStarted, due, starts, doExit, isWorkerRunning, cvars, qvars>>

\* pthread_cond_wait returns with the lock; assert; unlock; return 0.
Wake ==
    /\ upc = "wake"
    /\ upc' = IF isWorkerRunning THEN "idle" ELSE "aborted"
    /\ UNCHANGED <<wpc, locked, isStarted, due, starts, spurious, doExit, isWorkerRunning,
                   cvars, qvars>>

\* Mutant of Stop: the worker is not told to exit.
M_StopUntold ==
    /\ upc = "idle" /\ isStarted
    /\ upc' = "join"
    /\ UNCHANGED <<wpc, locked, isStarted, due, starts, spurious, doExit, isWorkerRunning,
                   cvars, qvars>>

\* stop(), up to the join.
Stop ==
    /\ upc = "idle" /\ isStarted
    /\ doExit' = TRUE
    /\ upc' = "join"
    /\ UNCHANGED <<wpc, locked, isStarted, due, starts, spurious, isWorkerRunning, cvars, qvars>>

\* ~XMPPInterface waits: while (isRunning() && getPending() > 0).
Drain ==
    /\ upc = "idle" /\ isStarted
    /\ upc' = "drain"
    /\ UNCHANGED <<wpc, locked, isStarted, due, starts, spurious, doExit, isWorkerRunning,
                   cvars, qvars>>

\* isRunning(): when it is false the loop ends and stop() begins.
DrainRunning ==
    /\ upc = "drain"
    /\ upc' = IF isWorkerRunning THEN "pending" ELSE "join"
    /\ doExit' = (doExit \/ ~isWorkerRunning)
    /\ UNCHANGED <<wpc, locked, isStarted, due, starts, spurious, isWorkerRunning, cvars, qvars>>

\* getPending(): when it is 0 the loop ends and stop() begins.
DrainPending ==
    /\ upc = "pending"
    /\ upc' = IF queue = <<>> THEN "join" ELSE "drain"
    /\ doExit' = (doExit \/ queue = <<>>)
    /\ due' = IF queue = <<>> THEN Transactions \ unqueued ELSE due
    /\ UNCHANGED <<wpc, locked, isStarted, starts, spurious, isWorkerRunning, cvars, qvars>>

\* Mutant of Join: stop() does not wait for the thread.
M_JoinAtOnce ==
    /\ upc = "join"
    /\ isStarted' = FALSE
    /\ upc' = "idle"
    /\ UNCHANGED <<wpc, locked, due, starts, spurious, doExit, isWorkerRunning, cvars, qvars>>

\* pthread_join returns, and stop().
Join ==
    /\ upc = "join"
    /\ wpc = "exited"
    /\ wpc' = "none"
    /\ isStarted' = FALSE
    /\ upc' = "idle"
    /\ UNCHANGED <<locked, due, starts, spurious, doExit, isWorkerRunning, cvars, qvars>>

User ==
    \/ Start \/ Create \/ CreateFails \/ Wait \/ Wake \/ Stop
    \/ Drain \/ DrainRunning \/ DrainPending \/ Join
-----------------------------------------------------------------------------
(* The worker thread.                                                      *)

\* The first section under worker_status_lock.
Announce ==
    /\ wpc = "announce" /\ Alive
    /\ ~locked
    /\ isWorkerRunning' = TRUE
    /\ upc' = IF upc = "wait" THEN "wake" ELSE upc
    /\ wpc' = "connect"
    /\ UNCHANGED <<locked, isStarted, due, starts, spurious, doExit, cvars, qvars>>

\* conn_start(): it fails, or the connection is being set up.
Connect ==
    /\ wpc = "connect" /\ Alive
    /\ isConnReady' = FALSE
    /\ \/ link' = "connecting" /\ UNCHANGED doExit
       \/ doExit' = TRUE /\ UNCHANGED link
    /\ wpc' = "loop"
    /\ UNCHANGED <<uvars, isWorkerRunning, qvars>>

\* while (!doExit) { if (isConnReady) ...
Loop ==
    /\ wpc = "loop" /\ Alive
    /\ wpc' = IF doExit THEN "close" ELSE IF isConnReady THEN "dequeue" ELSE "run"
    /\ UNCHANGED <<uvars, doExit, isWorkerRunning, cvars, qvars>>

\* Mutant of Dequeue: front() without pop_front().
M_DequeuePeek ==
    /\ wpc = "dequeue" /\ Alive
    /\ trans' = IF queue = <<>> THEN NoTransaction ELSE Head(queue)
    /\ wpc' = IF queue = <<>> THEN "run" ELSE "send"
    /\ UNCHANGED <<uvars, doExit, isWorkerRunning, cvars, queue, sent, unqueued>>

\* trans = queue.dequeue()
Dequeue ==
    /\ wpc = "dequeue" /\ Alive
    /\ IF queue = <<>>
       THEN wpc' = "run" /\ UNCHANGED <<queue, trans>>
       ELSE /\ wpc' = "send"
            /\ trans' = Head(queue)
            /\ queue' = Tail(queue)
    /\ UNCHANGED <<uvars, doExit, isWorkerRunning, cvars, sent, unqueued>>

\* Mutant of Transmit: the worker gives the transaction up when it is to exit.
M_TransmitUnlessExit ==
    /\ wpc = "send" /\ Alive
    /\ sent' = IF doExit THEN sent ELSE Append(sent, trans)
    /\ trans' = NoTransaction
    /\ wpc' = "run"
    /\ UNCHANGED <<uvars, doExit, isWorkerRunning, cvars, queue, unqueued>>

\* trans->send(conn)
Transmit ==
    /\ wpc = "send" /\ Alive
    /\ sent' = Append(sent, trans)
    /\ trans' = NoTransaction
    /\ wpc' = "run"
    /\ UNCHANGED <<uvars, doExit, isWorkerRunning, cvars, queue, unqueued>>

\* xmpp_run_once returns after its timeout without an event.
RunIdle ==
    /\ wpc = "run" /\ Alive
    /\ wpc' = "loop"
    /\ UNCHANGED <<uvars, doExit, isWorkerRunning, cvars, qvars>>

\* Mutant of Connected: conn_handler does not set isConnReady.
M_ConnectedNotReady ==
    /\ wpc = "run" /\ Alive
    /\ link = "connecting"
    /\ link' = "up"
    /\ wpc' = "loop"
    /\ UNCHANGED <<uvars, doExit, isWorkerRunning, isConnReady, qvars>>

\* xmpp_run_once calls conn_handler: the connection is up.
Connected ==
    /\ wpc = "run" /\ Alive
    /\ link = "connecting"
    /\ link' = "up"
    /\ isConnReady' = TRUE
    /\ wpc' = "loop"
    /\ UNCHANGED <<uvars, doExit, isWorkerRunning, qvars>>

\* xmpp_run_once calls conn_handler: the connection failed or was lost.
Disconnected ==
    /\ wpc = "run" /\ Alive
    /\ link # "down"
    /\ link' = "down"
    /\ isConnReady' = FALSE
    /\ doExit' = TRUE
    /\ wpc' = "loop"
    /\ UNCHANGED <<uvars, isWorkerRunning, qvars>>

\* conn_stop()
Close ==
    /\ wpc = "close" /\ Alive
    /\ isConnReady' = FALSE
    /\ link' = "down"
    /\ wpc' = "leave"
    /\ UNCHANGED <<uvars, doExit, isWorkerRunning, qvars>>

\* The last section under worker_status_lock, and pthread_exit.
Leave ==
    /\ wpc = "leave" /\ Alive
    /\ ~locked
    /\ isWorkerRunning' = FALSE
    /\ wpc' = "exited"
    /\ UNCHANGED <<uvars, doExit, cvars, qvars>>

Worker ==
    \/ Announce \/ Connect \/ Loop \/ Dequeue \/ Transmit
    \/ RunIdle \/ Connected \/ Disconnected \/ Close \/ Leave

Next == (\E t \in Transactions : Send(t)) \/ User \/ SpuriousWakeup \/ Worker

Spec == Init /\ [][Next]_vars

(***************************************************************************)
(* The worker thread keeps running, a call the user thread is in goes on,  *)
(* and a connection attempt does not stay undecided for ever: libstrophe   *)
(* gives up after its connect timeout.  Nothing obliges the user to call,  *)
(* or a connection to break.                                               *)
(***************************************************************************)
Fairness ==
    /\ WF_vars(Worker)
    /\ WF_vars(Create \/ CreateFails \/ Wait \/ Wake \/ DrainRunning \/ DrainPending \/ Join)
    /\ SF_vars(link = "connecting" /\ (Connected \/ Disconnected))

FairSpec == Spec /\ Fairness
-----------------------------------------------------------------------------
TypeOK ==
    /\ upc \in {"idle", "create", "cond", "wait", "wake", "aborted", "drain", "pending", "join"}
    /\ wpc \in {"none", "announce", "connect", "loop", "dequeue", "send", "run",
                "close", "leave", "exited"}
    /\ {locked, isStarted, doExit, isWorkerRunning, isConnReady} \subseteq BOOLEAN
    /\ link \in {"down", "connecting", "up"}
    /\ queue \in Seq(Transactions) /\ sent \in Seq(Transactions)
    /\ trans \in Transactions \cup {NoTransaction}
    /\ (trans # NoTransaction) <=> (wpc = "send")
    /\ unqueued \subseteq Transactions /\ due \subseteq Transactions
    /\ starts \in 0..MaxStarts /\ spurious \in 0..MaxSpurious

\* After stop() there is no thread left that could touch the object, no
\* connection, and no transaction half way: this is what makes "delete xwork"
\* and a second start() safe (XMPPWorker.cc:212-232, XMPPInterface.cpp:387-392).
StoppedIsQuiet ==
    upc = "idle" /\ ~isStarted =>
        /\ wpc = "none" /\ trans = NoTransaction
        /\ ~isWorkerRunning /\ ~isConnReady /\ link = "down"

\* When the drain loop ended because nothing was pending, whatever had been
\* queued by then is sent by the time stop() returns, the transaction the
\* worker had just dequeued included (XMPPInterface.cpp:196-199).
DrainedIsSent ==
    upc = "idle" => due \subseteq {sent[i] : i \in 1..Len(sent)}

\* The calls return: start() is woken, as the signal cannot be sent before it
\* waits (181-201); stop() joins a thread that ends, whatever the connection
\* does (212-232); the destructor of XMPPInterface, which looks at the queue
\* again and again, does not do so for ever (XMPPInterface.cpp:195-199).
CallsReturn ==
    /\ upc = "create" ~> upc \in {"idle", "aborted"}
    /\ upc = "join" ~> upc = "idle"
    /\ upc = "drain" ~> upc = "idle"

\* What is queued while the worker runs is sent, or else the worker exits: the
\* worker does not go to sleep on a queue (464-490).
QueuedIsSentOrWorkerExits ==
    queue # <<>> /\ isWorkerRunning ~> queue = <<>> \/ ~isWorkerRunning \/ doExit

\* "This function sleeps until the worker thread has responded that it is
\* running(isWorkerRunning)" (176-178), and assert(isWorkerRunning) (198).
StartFindsWorkerRunning == upc # "aborted"
-----------------------------------------------------------------------------
\* Refinement: a transaction counts as pending until libstrophe has it.
OB == INSTANCE Outbox WITH
        pending <- IF trans = NoTransaction THEN queue ELSE <<trans>> \o queue,
        transmitted <- sent, up <- isConnReady

\* Transactions are sent in the order they were queued, each at most once,
\* none is lost when the worker stops and starts again, and none is sent
\* without a connection (432-500 with the queue of TransactionQueue.cc).
ImplementsOutbox == OB!Spec
=============================================================================
