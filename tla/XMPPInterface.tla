---------------------------- MODULE XMPPInterface ----------------------------
(***************************************************************************)
(* class XMPPInterface of src/src/XMPPInterface.cpp: it reports every      *)
(* change of the count to an XMPP node and reconnects when the connection  *)
(* is dead, by stopping and deleting its XMPPWorker and making a new one.  *)
(* The node is set up by a chain of transactions, each sent by the handler *)
(* of the previous one's answer: create, publish_meta, invite_respawn.     *)
(*                                                                         *)
(* Threads: the callers of occupancyChange (the main thread, and the timer *)
(* thread of XMPPWrapper::reset_occupancy_count) and the worker threads,   *)
(* which transmit and run the handlers.  One handler is a caller as well:  *)
(* an actuation request raises SIGUSR1 on the worker thread, and what the  *)
(* signal changes is reported from there, while the worker waits.  A       *)
(* worker is what XMPPWorker.tla describes, seen as the Outbox it          *)
(* implements.  The server is external.  The destructor is not modelled:   *)
(* the program never deletes its interface.                                *)
(***************************************************************************)
EXTENDS Naturals, Sequences, SequencesExt

CONSTANTS
    Callers,        \* who calls occupancyChange
    Actuation,      \* the caller that runs on the worker thread
    MaxCalls,       \* bound: calls in a behaviour
    MaxWorkers      \* bound: XMPPWorker objects in a behaviour

ASSUME InterfaceAssumption == MaxCalls \in Nat /\ MaxWorkers \in Nat \ {0}

Workers == 1..MaxWorkers

VARIABLES
    xwork,          \* the current XMPPWorker
    worker,         \* none, stopped, running, dead (the thread ended by itself), deleted
    up,             \* whether each worker's connection is ready
    queue,          \* the transactions queued in each worker
    inflight,       \* sent by each worker, not served yet
    replies,        \* answers on their way to each worker
    cpc,            \* where each caller is in occupancyChange
    arg,            \* the report each caller makes, numbered in the order of the calls
    calls,          \* calls so far
    actuating,      \* the worker whose thread runs Actuation, or 0
    together,       \* history: the pairs of calls that overlapped
    nodeExists,     \* the node exists on the server
    created,        \* history: it was created by this program
    published,      \* history: what the server accepted, in order
    dangling        \* history: a deleted worker was used

callerVars == <<cpc, arg, calls, actuating, together>>
serverVars == <<nodeExists, created, published>>
vars == <<xwork, worker, up, queue, inflight, replies, callerVars, serverVars, dangling>>

Message(kind, n) == [kind |-> kind, n |-> n]

\* The constructor: a worker is started and create() queued.
Init ==
    /\ xwork = 1
    /\ worker \in {[w \in Workers |-> IF w = 1 THEN s ELSE "none"] : s \in {"running", "stopped"}}
    /\ up = [w \in Workers |-> FALSE]
    /\ queue = [w \in Workers |-> IF w = 1 THEN <<Message("create", 0)>> ELSE <<>>]
    /\ inflight = [w \in Workers |-> <<>>]
    /\ replies = [w \in Workers |-> <<>>]
    /\ cpc = [c \in Callers |-> "idle"]
    /\ arg = [c \in Callers |-> 0]
    /\ calls = 0 /\ actuating = 0 /\ together = {}
    /\ nodeExists \in BOOLEAN
    /\ created = FALSE
    /\ published = <<>>
    /\ dangling = FALSE

\* xwork is dereferenced.
Deref == dangling' = (dangling \/ worker[xwork] = "deleted")

\* xwork->send(...) of two messages or one.
Queue(ms) == queue' = [queue EXCEPT ![xwork] = @ \o ms]
-----------------------------------------------------------------------------
(* occupancyChange                                                         *)

Goto(c, l) ==
    /\ cpc' = [cpc EXCEPT ![c] = l]
    /\ actuating' = IF c = Actuation /\ l = "idle" THEN 0 ELSE actuating

Call(c) ==
    /\ cpc[c] = "idle"
    /\ calls < MaxCalls
    /\ calls' = calls + 1
    /\ arg' = [arg EXCEPT ![c] = calls + 1]
    /\ cpc' = [cpc EXCEPT ![c] = "check"]
    /\ together' = together \cup {{calls + 1, arg[d]} : d \in {d \in Callers : cpc[d] # "idle"}}
    /\ IF c = Actuation
       THEN \E w \in Workers : worker[w] = "running" /\ up[w] /\ actuating' = w
       ELSE UNCHANGED actuating
    /\ UNCHANGED <<xwork, worker, up, queue, inflight, replies, serverVars, dangling>>

\* if (!xwork->isRunning())
Check(c) ==
    /\ cpc[c] = "check"
    /\ Deref
    /\ Goto(c, IF worker[xwork] = "running" THEN "mio" ELSE "stop")
    /\ UNCHANGED <<xwork, worker, up, queue, inflight, replies, arg, calls, together, serverVars>>

\* xwork->stop() waits for the worker thread.
Stop(c) ==
    /\ cpc[c] = "stop"
    /\ actuating # xwork
    /\ Deref
    /\ worker' = IF worker[xwork] = "deleted" THEN worker ELSE [worker EXCEPT ![xwork] = "stopped"]
    /\ up' = [up EXCEPT ![xwork] = FALSE]
    /\ Goto(c, "delete")
    /\ UNCHANGED <<xwork, queue, inflight, replies, arg, calls, together, serverVars>>

\* delete xwork: what it had queued is gone, and so are answers to it.
Delete(c) ==
    /\ cpc[c] = "delete"
    /\ Deref
    /\ worker' = [worker EXCEPT ![xwork] = "deleted"]
    /\ queue' = [queue EXCEPT ![xwork] = <<>>]
    /\ inflight' = [inflight EXCEPT ![xwork] = <<>>]
    /\ replies' = [replies EXCEPT ![xwork] = <<>>]
    /\ Goto(c, "new")
    /\ UNCHANGED <<xwork, up, arg, calls, together, serverVars>>

\* Mutant of New: the new worker is not assigned to xwork.
M_NewUnassigned(c) ==
    /\ cpc[c] = "new"
    /\ xwork < MaxWorkers
    /\ worker' = [worker EXCEPT ![xwork + 1] = "stopped"]
    /\ Goto(c, "start")
    /\ UNCHANGED <<xwork, up, queue, inflight, replies, arg, calls, together, serverVars, dangling>>

\* xwork = new XMPPWorker(...)
New(c) ==
    /\ cpc[c] = "new"
    /\ xwork < MaxWorkers
    /\ xwork' = xwork + 1
    /\ worker' = [worker EXCEPT ![xwork'] = "stopped"]
    /\ Goto(c, "start")
    /\ UNCHANGED <<up, queue, inflight, replies, arg, calls, together, serverVars, dangling>>

\* xwork->start(), which may fail.
Start(c) ==
    /\ cpc[c] = "start"
    /\ Deref
    /\ \/ worker[xwork] = "stopped" /\ worker' = [worker EXCEPT ![xwork] = "running"]
       \/ UNCHANGED worker
    /\ Goto(c, "mio")
    /\ UNCHANGED <<xwork, up, queue, inflight, replies, arg, calls, together, serverVars>>

\* Mutant of SendMIO: only sent when the connection is ready.
M_SendMIOIfUp(c) ==
    /\ cpc[c] = "mio"
    /\ Deref
    /\ IF up[xwork] THEN Queue(<<Message("mio", arg[c])>>) ELSE UNCHANGED queue
    /\ Goto(c, "json")
    /\ UNCHANGED <<xwork, worker, up, inflight, replies, arg, calls, together, serverVars>>

\* sendMIOMessage
SendMIO(c) ==
    /\ cpc[c] = "mio"
    /\ Deref
    /\ Queue(<<Message("mio", arg[c])>>)
    /\ Goto(c, "json")
    /\ UNCHANGED <<xwork, worker, up, inflight, replies, arg, calls, together, serverVars>>

\* sendJSONMessage
SendJSON(c) ==
    /\ cpc[c] = "json"
    /\ Deref
    /\ Queue(<<Message("json", arg[c])>>)
    /\ Goto(c, "idle")
    /\ UNCHANGED <<xwork, worker, up, inflight, replies, arg, calls, together, serverVars>>

OccupancyChange(c) ==
    \/ Check(c) \/ Stop(c) \/ Delete(c) \/ New(c) \/ Start(c) \/ SendMIO(c) \/ SendJSON(c)
-----------------------------------------------------------------------------
(* The worker threads.  A worker whose thread runs Actuation does nothing  *)
(* else.                                                                   *)

Free(w) == worker[w] = "running" /\ actuating # w

Connect(w) ==
    /\ worker[w] = "running" /\ ~up[w]
    /\ up' = [up EXCEPT ![w] = TRUE]
    /\ UNCHANGED <<xwork, worker, queue, inflight, replies, callerVars, serverVars, dangling>>

\* The connection fails or is lost and the thread ends; the last worker of a
\* behaviour keeps its connection.
Drop(w) ==
    /\ Free(w) /\ w < MaxWorkers
    /\ worker' = [worker EXCEPT ![w] = "dead"]
    /\ up' = [up EXCEPT ![w] = FALSE]
    /\ inflight' = [inflight EXCEPT ![w] = <<>>]
    /\ replies' = [replies EXCEPT ![w] = <<>>]
    /\ UNCHANGED <<xwork, queue, callerVars, serverVars, dangling>>

\* Mutant of Transmit: the last transaction queued goes first.
M_TransmitLast(w) ==
    /\ Free(w) /\ up[w]
    /\ queue[w] # <<>>
    /\ inflight' = [inflight EXCEPT ![w] = Append(@, Last(queue[w]))]
    /\ queue' = [queue EXCEPT ![w] = Front(@)]
    /\ UNCHANGED <<xwork, worker, up, replies, callerVars, serverVars, dangling>>

\* The Transmit of Outbox.
Transmit(w) ==
    /\ Free(w) /\ up[w]
    /\ queue[w] # <<>>
    /\ inflight' = [inflight EXCEPT ![w] = Append(@, Head(queue[w]))]
    /\ queue' = [queue EXCEPT ![w] = Tail(@)]
    /\ UNCHANGED <<xwork, worker, up, replies, callerVars, serverVars, dangling>>

\* Mutant of FollowUp: the type of the answer is not looked at.
M_FollowUpAlways(kind, ok) ==
    CASE kind = "create" -> <<Message("meta", 0)>>
      [] kind = "meta" -> <<Message("invite", 0)>>
      [] OTHER -> <<>>

\* handler_create, handler_publish, handler_invite: what they send.
FollowUp(kind, ok) ==
    CASE ok /\ kind = "create" -> <<Message("meta", 0)>>
      [] ok /\ kind = "meta" -> <<Message("invite", 0)>>
      [] OTHER -> <<>>

\* An answer arrives and its handler runs.
HandleReply(w) ==
    /\ Free(w)
    /\ replies[w] # <<>>
    /\ LET r == Head(replies[w])
           next == FollowUp(r.kind, r.ok)
       IN /\ Queue(next)
          /\ IF next # <<>> THEN Deref ELSE UNCHANGED dangling
    /\ replies' = [replies EXCEPT ![w] = Tail(@)]
    /\ UNCHANGED <<xwork, worker, up, inflight, callerVars, serverVars>>

\* The server: a node is created once, and accepts what is sent to it.
Serve(w) ==
    /\ worker[w] = "running"
    /\ inflight[w] # <<>>
    /\ LET m == Head(inflight[w])
           ok == (m.kind = "create") # nodeExists
       IN /\ replies' = [replies EXCEPT ![w] = Append(@, [kind |-> m.kind, ok |-> ok])]
          /\ nodeExists' = (nodeExists \/ m.kind = "create")
          /\ created' = (created \/ (ok /\ m.kind = "create"))
          /\ published' = IF ok /\ m.kind # "create" THEN Append(published, m) ELSE published
    /\ inflight' = [inflight EXCEPT ![w] = Tail(@)]
    /\ UNCHANGED <<xwork, worker, up, queue, callerVars, dangling>>

Working(w) == Connect(w) \/ Transmit(w) \/ HandleReply(w) \/ Serve(w)

Next ==
    \/ \E c \in Callers : Call(c) \/ OccupancyChange(c)
    \/ \E w \in Workers : Working(w) \/ Drop(w)

Spec == Init /\ [][Next]_vars

\* A call goes on, a worker goes on while its connection lasts.
Fairness ==
    /\ \A c \in Callers : WF_vars(OccupancyChange(c))
    /\ \A w \in Workers : /\ WF_vars(Connect(w)) /\ WF_vars(Transmit(w))
                          /\ WF_vars(Serve(w)) /\ WF_vars(HandleReply(w))

FairSpec == Spec /\ Fairness
-----------------------------------------------------------------------------
Kinds == {"create", "meta", "invite", "mio", "json"}

TypeOK ==
    /\ xwork \in Workers
    /\ worker \in [Workers -> {"none", "stopped", "running", "dead", "deleted"}]
    /\ up \in [Workers -> BOOLEAN]
    /\ \A w \in Workers :
          /\ queue[w] \in Seq([kind : Kinds, n : 0..MaxCalls])
          /\ inflight[w] \in Seq([kind : Kinds, n : 0..MaxCalls])
          /\ replies[w] \in Seq([kind : Kinds, ok : BOOLEAN])
          /\ up[w] => worker[w] = "running"
    /\ cpc \in [Callers -> {"idle", "check", "stop", "delete", "new", "start", "mio", "json"}]
    /\ arg \in [Callers -> 0..MaxCalls] /\ calls \in 0..MaxCalls
    /\ actuating \in {0} \cup Workers /\ together \subseteq SUBSET (1..MaxCalls)
    /\ {nodeExists, created, dangling} \subseteq BOOLEAN
    /\ published \in Seq([kind : Kinds \ {"create"}, n : 0..MaxCalls])

\* With one calling thread beside actuation no deleted worker is ever used,
\* neither by a caller nor by a handler that a worker thread runs through the
\* same pointer xwork (380-395, 594-621).
NoDanglingWorker == ~dangling

\* An older count that the server sees after a newer one.
Overtaken ==
    {ij \in (1..Len(published)) \X (1..Len(published)) :
        LET m == published[ij[1]]
            n == published[ij[2]]
        IN  ij[1] < ij[2] /\ m.kind = n.kind /\ m.kind \in {"mio", "json"} /\ m.n >= n.n}

\* The server never sees an older count after a newer one, although counts
\* survive in the queue while the connection is down, unless the two were
\* reported by calls that overlapped (398-400).
CountsArriveInOrder ==
    \A ij \in Overtaken : {published[ij[1]].n, published[ij[2]].n} \in together

\* The last count the server sees is the newest.
CountsNeverGoBack == Overtaken = {}

\* The steps of the node's setup happen in order and each only when the one
\* before was answered with success: meta data only for a node this program
\* created, an invitation only after the meta data (594-621).
SetupInOrder ==
    \A i \in 1..Len(published) :
        /\ published[i].kind = "meta" => created
        /\ published[i].kind = "invite" => \E j \in 1..i-1 : published[j].kind = "meta"

\* A count that was reported reaches an existing node, or else the worker it
\* was queued in is gone (375-411).
Reporting(n, w) ==
    xwork = w /\ nodeExists /\ \E c \in Callers : cpc[c] = "mio" /\ arg[c] = n
ReportArrives ==
    \A n \in 1..MaxCalls, w \in Workers :
        Reporting(n, w) ~> Message("mio", n) \in ToSet(published) \/ worker[w] # "running"

\* "after the node is created, publish the meta data" (600): once everything
\* under way has settled, a node this program created has its meta data.
CreatedNodeHasMeta ==
    /\ created
    /\ \A c \in Callers : cpc[c] = "idle"
    /\ worker[xwork] = "running" /\ up[xwork]
    /\ queue[xwork] = <<>> /\ inflight[xwork] = <<>> /\ replies[xwork] = <<>>
    => \E i \in 1..Len(published) : published[i].kind = "meta"
=============================================================================
