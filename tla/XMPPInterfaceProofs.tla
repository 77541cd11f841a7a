------------------------ MODULE XMPPInterfaceProofs ------------------------
(***************************************************************************)
(* Properties of XMPPInterface, for every number of calls and workers.     *)
(*                                                                         *)
(* No deleted XMPPWorker is used while at most one thread besides the      *)
(* actuation handler calls occupancyChange.  (With two,                    *)
(* XMPPInterface_midnight.cfg shows one used.)  The property itself says   *)
(* nothing of where the callers are.  What makes it inductive is who may   *)
(* find the current worker in which state: the caller that replaces it has *)
(* seen it stopped, and until the replacement is there, no other worker    *)
(* runs whose handlers could use the pointer.                              *)
(*                                                                         *)
(* The node is set up in order, whoever calls.  Here the invariant says    *)
(* which messages may be on their way at all: everything that is queued or *)
(* sent belongs to Sendable, every answer to Answers, and these sets only  *)
(* grow.                                                                   *)
(***************************************************************************)
EXTENDS XMPPInterface, TLAPS

WorkerStates == {"none", "stopped", "running", "dead", "deleted"}
Places == {"idle", "check", "stop", "delete", "new", "start", "mio", "json"}

\* The callers that do not run on a worker thread.
Outside == Callers \ {Actuation}

Types ==
    /\ xwork \in Workers
    /\ worker \in [Workers -> WorkerStates]
    /\ cpc \in [Callers -> Places]

\* Only the current worker runs.
OnlyCurrentRuns == \A w \in Workers : w # xwork => worker[w] \in {"none", "deleted"}

\* What the caller that replaces the worker has made of it so far.
Replacement ==
    \A c \in Outside :
        /\ cpc[c] \in {"stop", "delete"} => worker[xwork] \notin {"running", "deleted"}
        /\ cpc[c] = "new" => worker[xwork] = "deleted"
        /\ cpc[c] = "start" => worker[xwork] = "stopped"

\* The current worker is deleted only while a caller makes a new one.
DeletedIsReplaced == worker[xwork] = "deleted" => \E c \in Outside : cpc[c] = "new"

\* The handler runs on the thread of the current worker, which it finds running.
HandlerIsInside ==
    /\ actuating # 0 => actuating = xwork /\ worker[xwork] = "running"
    /\ Actuation \in Callers =>
          /\ cpc[Actuation] \in {"idle", "check", "mio", "json"}
          /\ cpc[Actuation] # "idle" => actuating = xwork

\* The inductive invariant.
PointerInv ==
    /\ Types /\ OnlyCurrentRuns /\ Replacement /\ DeletedIsReplaced /\ HandlerIsInside
    /\ ~dangling

\* At most one thread calls from outside.
OneOutside == \A c, d \in Outside : c = d

LEMMA PointerInit == Init => PointerInv
<1> SUFFICES ASSUME Init PROVE PointerInv
    OBVIOUS
<1>1. xwork = 1 /\ xwork \in Workers
    BY InterfaceAssumption DEF Init, Workers
<1>2. PICK s \in {"running", "stopped"} : worker = [w \in Workers |-> IF w = 1 THEN s ELSE "none"]
    BY DEF Init
<1>3. cpc = [c \in Callers |-> "idle"] /\ actuating = 0 /\ dangling = FALSE
    BY DEF Init
<1> USE DEF Outside, WorkerStates, Places
<1>4. Types
    BY <1>1, <1>2, <1>3 DEF Types
<1>5. OnlyCurrentRuns /\ DeletedIsReplaced
    BY <1>1, <1>2 DEF OnlyCurrentRuns, DeletedIsReplaced
<1>6. Replacement
    BY <1>3 DEF Replacement
<1>7. HandlerIsInside
    BY <1>3 DEF HandlerIsInside
<1> QED
    BY <1>3, <1>4, <1>5, <1>6, <1>7 DEF PointerInv

\* A caller that is not in the middle of a replacement finds a worker to use.
LEMMA PointerIsValid ==
    ASSUME PointerInv, OneOutside, NEW c \in Callers, cpc[c] \notin {"idle", "new"}
    PROVE  worker[xwork] # "deleted"
<1>1. CASE c = Actuation
    BY <1>1 DEF PointerInv, HandlerIsInside, Workers, Types
<1>2. CASE c # Actuation
    BY <1>2 DEF PointerInv, DeletedIsReplaced, OneOutside, Outside
<1> QED
    BY <1>1, <1>2

LEMMA CallStep ==
    ASSUME PointerInv, OneOutside, NEW c \in Callers, Call(c)
    PROVE  PointerInv'
<1> USE DEF PointerInv, Call, Outside
<1>1. Types' /\ OnlyCurrentRuns'
    BY DEF Types, OnlyCurrentRuns, Places
<1>2. Replacement'
    BY DEF Types, Replacement
<1>3. DeletedIsReplaced'
    BY DEF Types, DeletedIsReplaced
<1>4. HandlerIsInside'
    <2>1. CASE c = Actuation
        <3>1. PICK w \in Workers : worker[w] = "running" /\ actuating' = w
            BY <2>1
        <3>2. w = xwork
            BY <3>1 DEF OnlyCurrentRuns
        <3> QED
            BY <2>1, <3>1, <3>2 DEF HandlerIsInside, Types
    <2>2. CASE c # Actuation
        BY <2>2 DEF HandlerIsInside, Types
    <2> QED
        BY <2>1, <2>2
<1> QED
    BY <1>1, <1>2, <1>3, <1>4

\* Whatever a step of occupancyChange dereferences is there.
LEMMA CallerIsSafe ==
    ASSUME PointerInv, OneOutside, NEW c \in Callers, OccupancyChange(c)
    PROVE  ~dangling'
<1>1. ~dangling
    BY DEF PointerInv
<1>2. CASE New(c)
    BY <1>1, <1>2 DEF New
<1>3. CASE ~New(c)
    <2>1. cpc[c] \notin {"idle", "new"} /\ Deref
        BY <1>3 DEF OccupancyChange, Check, Stop, Delete, Start, SendMIO, SendJSON
    <2>2. worker[xwork] # "deleted"
        BY <2>1, PointerIsValid
    <2> QED
        BY <1>1, <2>1, <2>2 DEF Deref
<1> QED
    BY <1>2, <1>3

\* A step of occupancyChange.
LEMMA CallerStep ==
    ASSUME PointerInv, OneOutside, NEW c \in Callers, OccupancyChange(c)
    PROVE  PointerInv'
<1> USE DEF PointerInv, Outside
<1>1. ~dangling'
    BY CallerIsSafe
<1>2. CASE (Check(c) /\ worker[xwork] = "running") \/ SendMIO(c) \/ SendJSON(c)
    <2> DEFINE l == IF cpc[c] = "check" THEN "mio" ELSE IF cpc[c] = "mio" THEN "json" ELSE "idle"
    <2>1. Goto(c, l) /\ UNCHANGED <<xwork, worker>> /\ cpc[c] \in {"check", "mio", "json"}
        BY <1>2 DEF Check, SendMIO, SendJSON
    <2>2. l \in {"mio", "json", "idle"} /\ l \in Places
        BY DEF Places
    <2> HIDE DEF l
    <2>3. Types' /\ OnlyCurrentRuns'
        BY <2>1, <2>2 DEF Types, Goto, OnlyCurrentRuns
    <2>4. Replacement'
        BY <2>1, <2>2 DEF Types, Goto, Replacement
    <2>5. DeletedIsReplaced'
        BY <2>1, <2>2 DEF Types, Goto, DeletedIsReplaced
    <2>6. HandlerIsInside'
        BY <2>1, <2>2 DEF Types, Goto, HandlerIsInside, Workers
    <2> QED
        BY <1>1, <2>3, <2>4, <2>5, <2>6
<1>3. CASE Check(c) /\ worker[xwork] # "running"
    <2>1. c # Actuation /\ worker[xwork] \notin {"deleted", "running"}
        BY <1>3, PointerIsValid DEF Check, HandlerIsInside, Workers, Types
    <2>2. cpc' = [cpc EXCEPT ![c] = "stop"] /\ UNCHANGED <<xwork, worker, actuating>>
        BY <1>3, <2>1 DEF Check, Goto
    <2>3. Types' /\ OnlyCurrentRuns'
        BY <2>1, <2>2 DEF Types, OnlyCurrentRuns, Places, WorkerStates
    <2>4. Replacement'
        BY <2>1, <2>2 DEF Types, Replacement, OneOutside
    <2>5. DeletedIsReplaced'
        BY <2>1, <2>2 DEF Types, DeletedIsReplaced, OneOutside
    <2>6. HandlerIsInside'
        BY <2>1, <2>2 DEF Types, HandlerIsInside, Workers
    <2> QED
        BY <1>1, <2>3, <2>4, <2>5, <2>6
<1>4. CASE Stop(c)
    <2>1. c # Actuation /\ worker[xwork] # "deleted" /\ worker[xwork] # "running"
        <3>1. c # Actuation
            BY <1>4 DEF Stop, HandlerIsInside
        <3> QED
            BY <1>4, <3>1 DEF Stop, Replacement
    <2>2. cpc' = [cpc EXCEPT ![c] = "delete"] /\ UNCHANGED <<xwork, actuating>>
        BY <1>4, <2>1 DEF Stop, Goto
    <2>3. worker' = [worker EXCEPT ![xwork] = "stopped"]
        BY <1>4, <2>1 DEF Stop
    <2>4. Types' /\ OnlyCurrentRuns'
        BY <2>1, <2>2, <2>3 DEF Types, OnlyCurrentRuns, Places, WorkerStates
    <2>5. Replacement'
        BY <2>1, <2>2, <2>3 DEF Types, Replacement, OneOutside
    <2>6. DeletedIsReplaced'
        BY <2>1, <2>2, <2>3 DEF Types, DeletedIsReplaced, OneOutside
    <2>7. HandlerIsInside'
        BY <2>1, <2>2, <2>3 DEF Types, HandlerIsInside, Workers
    <2> QED
        BY <1>1, <2>4, <2>5, <2>6, <2>7
<1>5. CASE Delete(c)
    <2>1. c # Actuation /\ worker[xwork] # "running"
        <3>1. c # Actuation
            BY <1>5 DEF Delete, HandlerIsInside
        <3> QED
            BY <1>5, <3>1 DEF Delete, Replacement
    <2>2. cpc' = [cpc EXCEPT ![c] = "new"] /\ UNCHANGED <<xwork, actuating>>
        BY <1>5, <2>1 DEF Delete, Goto
    <2>3. worker' = [worker EXCEPT ![xwork] = "deleted"]
        BY <1>5 DEF Delete
    <2>4. Types' /\ OnlyCurrentRuns'
        BY <2>1, <2>2, <2>3 DEF Types, OnlyCurrentRuns, Places, WorkerStates
    <2>5. Replacement'
        BY <2>1, <2>2, <2>3 DEF Types, Replacement, OneOutside
    <2>6. DeletedIsReplaced'
        BY <2>1, <2>2, <2>3 DEF Types, DeletedIsReplaced, OneOutside
    <2>7. HandlerIsInside'
        BY <2>1, <2>2, <2>3 DEF Types, HandlerIsInside, Workers
    <2> QED
        BY <1>1, <2>4, <2>5, <2>6, <2>7
<1>6. CASE New(c)
    <2>1. c # Actuation /\ worker[xwork] = "deleted"
        <3>1. c # Actuation
            BY <1>6 DEF New, HandlerIsInside
        <3> QED
            BY <1>6, <3>1 DEF New, Replacement
    <2>2. cpc' = [cpc EXCEPT ![c] = "start"] /\ UNCHANGED actuating
        BY <1>6, <2>1 DEF New, Goto
    <2>3. xwork' = xwork + 1 /\ xwork' \in Workers /\ worker' = [worker EXCEPT ![xwork'] = "stopped"]
        BY <1>6, InterfaceAssumption DEF New, Workers, Types
    <2>4. Types' /\ OnlyCurrentRuns'
        BY <2>1, <2>2, <2>3 DEF Types, OnlyCurrentRuns, Places, WorkerStates
    <2>5. worker'[xwork'] = "stopped"
        BY <2>3 DEF Types
    <2>6. Replacement' /\ DeletedIsReplaced'
        BY <2>1, <2>2, <2>5 DEF Types, Replacement, DeletedIsReplaced, OneOutside
    <2>7. HandlerIsInside'
        BY <2>1, <2>2 DEF Types, HandlerIsInside, Workers
    <2> QED
        BY <1>1, <2>4, <2>6, <2>7
<1>7. CASE Start(c)
    <2>1. c # Actuation /\ worker[xwork] = "stopped"
        <3>1. c # Actuation
            BY <1>7 DEF Start, HandlerIsInside
        <3> QED
            BY <1>7, <3>1 DEF Start, Replacement
    <2>2. cpc' = [cpc EXCEPT ![c] = "mio"] /\ UNCHANGED <<xwork, actuating>>
        BY <1>7, <2>1 DEF Start, Goto
    <2>3. worker' = [worker EXCEPT ![xwork] = "running"] \/ UNCHANGED worker
        BY <1>7 DEF Start
    <2>4. Types' /\ OnlyCurrentRuns'
        BY <2>1, <2>2, <2>3 DEF Types, OnlyCurrentRuns, Places, WorkerStates
    <2>5. Replacement'
        BY <2>1, <2>2, <2>3 DEF Types, Replacement, OneOutside
    <2>6. DeletedIsReplaced'
        BY <2>1, <2>2, <2>3 DEF Types, DeletedIsReplaced, OneOutside
    <2>7. HandlerIsInside'
        BY <2>1, <2>2, <2>3 DEF Types, HandlerIsInside, Workers
    <2> QED
        BY <1>1, <2>4, <2>5, <2>6, <2>7
<1> QED
    BY <1>2, <1>3, <1>4, <1>5, <1>6, <1>7 DEF OccupancyChange

\* A step of the threads of the workers, which never find the pointer between
\* a deleted worker and a new one.
LEMMA WorkerStep ==
    ASSUME PointerInv, OneOutside, NEW w \in Workers, Working(w) \/ Drop(w)
    PROVE  PointerInv'
<1> USE DEF PointerInv, Outside, callerVars, serverVars
<1>1. CASE Connect(w) \/ Transmit(w) \/ Serve(w)
    BY <1>1 DEF Connect, Transmit, Serve, Types, OnlyCurrentRuns, Replacement,
        DeletedIsReplaced, HandlerIsInside
<1>2. CASE HandleReply(w)
    <2>1. worker[w] = "running" /\ w = xwork
        BY <1>2 DEF HandleReply, Free, OnlyCurrentRuns
    <2>2. dangling' = dangling \/ (dangling' = (dangling \/ worker[xwork] = "deleted"))
        BY <1>2 DEF HandleReply, Deref
    <2>3. ~dangling'
        BY <2>1, <2>2
    <2> QED
        BY <1>2, <2>3 DEF HandleReply, Types, OnlyCurrentRuns, Replacement,
            DeletedIsReplaced, HandlerIsInside
<1>3. CASE Drop(w)
    <2>1. w = xwork /\ worker[xwork] = "running" /\ actuating = 0
        BY <1>3 DEF Drop, Free, OnlyCurrentRuns, HandlerIsInside
    <2>2. worker' = [worker EXCEPT ![w] = "dead"]
          /\ UNCHANGED <<xwork, cpc, actuating, dangling>>
        BY <1>3 DEF Drop
    <2> QED
        BY <2>1, <2>2 DEF Types, OnlyCurrentRuns, Replacement,
            DeletedIsReplaced, HandlerIsInside, WorkerStates
<1> QED
    BY <1>1, <1>2, <1>3 DEF Working

LEMMA PointerStep ==
    ASSUME OneOutside, PointerInv, [Next]_vars
    PROVE  PointerInv'
<1>1. CASE UNCHANGED vars
    BY <1>1 DEF vars, callerVars, PointerInv, Types, OnlyCurrentRuns, Replacement,
        DeletedIsReplaced, HandlerIsInside, Outside
<1>2. CASE Next
    BY <1>2, CallStep, CallerStep, WorkerStep DEF Next
<1> QED
    BY <1>1, <1>2

\* With at most one caller besides actuation, no caller and no handler ever
\* uses a deleted worker (XMPPInterface.cpp:380-395, 594-621).
THEOREM PointerIsSafe ==
    ASSUME OneOutside
    PROVE  Spec => []NoDanglingWorker
<1>1. PointerInv /\ [Next]_vars => PointerInv'
    BY PointerStep
<1>2. PointerInv => NoDanglingWorker
    BY DEF PointerInv, NoDanglingWorker
<1> QED
    BY PointerInit, <1>1, <1>2, PTL DEF Spec
-----------------------------------------------------------------------------
(* The order of the setup.                                                 *)

HasMeta == \E i \in 1..Len(published) : published[i].kind = "meta"

\* The messages that may be queued, sent or published.
Sendable ==
    {m \in [kind : Kinds, n : Nat] :
        /\ m.kind = "meta" => created
        /\ m.kind = "invite" => HasMeta}

\* The answers that may be on their way.
Answers ==
    {r \in [kind : Kinds, ok : BOOLEAN] :
        /\ r.ok /\ r.kind = "create" => created
        /\ r.ok /\ r.kind = "meta" => HasMeta}

\* The inductive invariant.
SetupInv ==
    /\ xwork \in Workers /\ arg \in [Callers -> Nat] /\ calls \in Nat
    /\ created \in BOOLEAN
    /\ queue \in [Workers -> Seq(Sendable)]
    /\ inflight \in [Workers -> Seq(Sendable)]
    /\ replies \in [Workers -> Seq(Answers)]
    /\ published \in Seq(Sendable)
    /\ SetupInOrder

LEMMA SetupInit == Init => SetupInv
<1> SUFFICES ASSUME Init PROVE SetupInv
    OBVIOUS
<1>1. 1 \in Workers
    BY InterfaceAssumption DEF Workers
<1>2. Message("create", 0) \in Sendable
    BY DEF Message, Sendable, Kinds
<1>3. queue \in [Workers -> Seq(Sendable)]
    BY <1>2 DEF Init
<1>4. /\ inflight \in [Workers -> Seq(Sendable)] /\ replies \in [Workers -> Seq(Answers)]
      /\ published \in Seq(Sendable)
    BY DEF Init
<1>5. created \in BOOLEAN /\ SetupInOrder
    <2>1. created = FALSE /\ published = <<>>
        BY DEF Init
    <2>2. 1..Len(published) = {}
        BY <2>1
    <2> QED
        BY <2>1, <2>2 DEF SetupInOrder
<1>6. xwork \in Workers /\ arg \in [Callers -> Nat] /\ calls \in Nat
    BY <1>1 DEF Init
<1> QED
    BY <1>3, <1>4, <1>5, <1>6 DEF SetupInv

\* A step that publishes nothing and keeps what is queued, sent and answered
\* within bounds.
LEMMA SetupSame ==
    ASSUME SetupInv, UNCHANGED <<created, published>>,
           xwork' \in Workers, arg' \in [Callers -> Nat], calls' \in Nat,
           queue' \in [Workers -> Seq(Sendable)],
           inflight' \in [Workers -> Seq(Sendable)],
           replies' \in [Workers -> Seq(Answers)]
    PROVE  SetupInv'
<1>1. HasMeta' = HasMeta
    BY DEF HasMeta
<1>2. Sendable' = Sendable /\ Answers' = Answers
    BY <1>1 DEF Sendable, Answers
<1>3. SetupInOrder'
    BY DEF SetupInv, SetupInOrder
<1> QED
    BY <1>2, <1>3 DEF SetupInv

LEMMA SetupCaller ==
    ASSUME SetupInv, NEW c \in Callers, Call(c) \/ OccupancyChange(c)
    PROVE  SetupInv'
<1> USE DEF SetupInv, serverVars
<1>1. CASE Call(c)
    <2>1. arg' \in [Callers -> Nat] /\ calls' \in Nat
        BY <1>1 DEF Call
    <2>2. UNCHANGED <<xwork, queue, inflight, replies, created, published>>
        BY <1>1 DEF Call
    <2> QED
        BY <2>1, <2>2, SetupSame
<1>2. CASE Check(c) \/ Stop(c) \/ Start(c)
    BY <1>2, SetupSame DEF Check, Stop, Start
<1>3. CASE Delete(c)
    BY <1>3, SetupSame DEF Delete
<1>4. CASE New(c)
    BY <1>4, SetupSame, InterfaceAssumption DEF New, Workers
<1>5. CASE SendMIO(c) \/ SendJSON(c)
    <2>1. PICK m \in Sendable : queue' = [queue EXCEPT ![xwork] = @ \o <<m>>]
        BY <1>5 DEF SendMIO, SendJSON, Queue, Message, Sendable, Kinds
    <2> QED
        BY <1>5, <2>1, SetupSame DEF SendMIO, SendJSON
<1> QED
    BY <1>1, <1>2, <1>3, <1>4, <1>5 DEF OccupancyChange

LEMMA SetupWorker ==
    ASSUME SetupInv, NEW w \in Workers, Working(w) \/ Drop(w)
    PROVE  SetupInv'
<1> USE DEF SetupInv, serverVars, callerVars
<1>1. CASE Connect(w)
    BY <1>1, SetupSame DEF Connect
<1>2. CASE Drop(w)
    <2>1. /\ inflight' = [inflight EXCEPT ![w] = <<>>]
          /\ replies' = [replies EXCEPT ![w] = <<>>]
          /\ UNCHANGED <<xwork, arg, calls, queue, created, published>>
        BY <1>2 DEF Drop
    <2> QED
        BY <2>1, SetupSame
<1>3. CASE Transmit(w)
    <2>1. /\ queue[w] \in Seq(Sendable) /\ queue[w] # <<>>
          /\ inflight' = [inflight EXCEPT ![w] = Append(@, Head(queue[w]))]
          /\ queue' = [queue EXCEPT ![w] = Tail(@)]
          /\ UNCHANGED <<xwork, arg, calls, replies, created, published>>
        BY <1>3 DEF Transmit
    <2>2. Head(queue[w]) \in Sendable /\ Tail(queue[w]) \in Seq(Sendable)
        BY <2>1
    <2>3. queue' \in [Workers -> Seq(Sendable)] /\ inflight' \in [Workers -> Seq(Sendable)]
        BY <2>1, <2>2
    <2> QED
        BY <2>1, <2>3, SetupSame
<1>4. CASE HandleReply(w)
    <2> DEFINE r == Head(replies[w])
    <2>1. r \in Answers /\ Tail(replies[w]) \in Seq(Answers)
        BY <1>4 DEF HandleReply
    <2> HIDE DEF r
    <2>2. FollowUp(r.kind, r.ok) \in Seq(Sendable)
        <3>1. CASE r.ok /\ r.kind = "create"
            BY <2>1, <3>1 DEF FollowUp, Answers, Sendable, Message, Kinds
        <3>2. CASE r.ok /\ r.kind = "meta"
            BY <2>1, <3>2 DEF FollowUp, Answers, Sendable, Message, Kinds
        <3>3. CASE ~(r.ok /\ r.kind = "create") /\ ~(r.ok /\ r.kind = "meta")
            BY <3>3 DEF FollowUp
        <3> QED
            BY <3>1, <3>2, <3>3
    <2>3. queue' = [queue EXCEPT ![xwork] = @ \o FollowUp(r.kind, r.ok)]
        BY <1>4 DEF HandleReply, Queue, r
    <2> QED
        BY <1>4, <2>1, <2>2, <2>3, SetupSame DEF HandleReply, r
<1>5. CASE Serve(w)
    <2> DEFINE m == Head(inflight[w])
               ok == (m.kind = "create") # nodeExists
    <2>1. m \in Sendable /\ Tail(inflight[w]) \in Seq(Sendable)
        BY <1>5 DEF Serve
    <2>2. /\ created' = (created \/ (ok /\ m.kind = "create"))
          /\ published' = IF ok /\ m.kind # "create" THEN Append(published, m) ELSE published
          /\ replies' = [replies EXCEPT ![w] = Append(@, [kind |-> m.kind, ok |-> ok])]
          /\ inflight' = [inflight EXCEPT ![w] = Tail(@)]
          /\ UNCHANGED <<xwork, arg, calls, queue>>
        BY <1>5 DEF Serve
    <2> HIDE DEF m
    <2>3. (HasMeta => HasMeta') /\ (ok /\ m.kind = "meta" => HasMeta')
        <3>1. CASE published' = published /\ ~(ok /\ m.kind = "meta")
            BY <3>1 DEF HasMeta
        <3>2. CASE published' = Append(published, m)
            <4>1. /\ Len(published) \in Nat /\ Len(published') = Len(published) + 1
                  /\ \A i \in 1..Len(published) : published'[i] = published[i]
                  /\ published'[Len(published) + 1] = m
                BY <2>1, <3>2
            <4>2. HasMeta => HasMeta'
                BY <4>1 DEF HasMeta
            <4>3. ASSUME m.kind = "meta" PROVE HasMeta'
                <5>1. Len(published) + 1 \in 1..Len(published')
                    BY <4>1
                <5> QED
                    BY <4>1, <4>3, <5>1 DEF HasMeta
            <4> QED
                BY <4>2, <4>3
        <3> QED
            BY <2>2, <3>1, <3>2
    <2>4. Sendable \subseteq Sendable' /\ Answers \subseteq Answers'
        BY <2>2, <2>3 DEF Sendable, Answers
    <2>5. [kind |-> m.kind, ok |-> ok] \in Answers'
        BY <2>1, <2>2, <2>3 DEF Sendable, Answers
    <2>6. published' \in Seq(Sendable')
        BY <2>1, <2>2, <2>4
    <2>7. SetupInOrder'
        <3>1. CASE published' = published
            BY <2>2, <3>1 DEF SetupInOrder
        <3>2. CASE published' = Append(published, m)
            <4>1. /\ Len(published) \in Nat /\ Len(published') = Len(published) + 1
                  /\ \A i \in 1..Len(published) : published'[i] = published[i]
                  /\ published'[Len(published) + 1] = m
                BY <2>1, <3>2
            <4>2. ASSUME NEW i \in 1..Len(published)
                  PROVE  /\ published'[i].kind = "meta" => created
                         /\ published'[i].kind = "invite" =>
                               \E j \in 1..i-1 : published'[j].kind = "meta"
                <5>1. /\ published[i].kind = "meta" => created
                      /\ published[i].kind = "invite" =>
                            \E j \in 1..i-1 : published[j].kind = "meta"
                    BY <4>2 DEF SetupInOrder
                <5>2. 1..i \subseteq 1..Len(published) /\ i \in 1..i
                    BY <4>1, <4>2
                <5>3. published'[i] = published[i]
                    BY <4>1, <5>2
                <5>4. \A j \in 1..i-1 : j \in 1..i
                    BY <4>2
                <5> QED
                    BY <4>1, <5>1, <5>2, <5>3, <5>4
            <4>3. m.kind = "meta" => created
                BY <2>1 DEF Sendable
            <4>4. ASSUME m.kind = "invite"
                  PROVE  \E j \in 1..Len(published) : published'[j].kind = "meta"
                BY <2>1, <4>1, <4>4 DEF Sendable, HasMeta
            <4>5. created => created'
                BY <2>2
            <4>6. ASSUME NEW i \in 1..Len(published')
                  PROVE  /\ published'[i].kind = "meta" => created'
                         /\ published'[i].kind = "invite" =>
                               \E j \in 1..i-1 : published'[j].kind = "meta"
                <5>1. CASE i \in 1..Len(published)
                    BY <4>2, <4>5, <5>1
                <5>2. CASE i = Len(published) + 1
                    BY <4>1, <4>3, <4>4, <4>5, <5>2
                <5> QED
                    BY <4>1, <4>6, <5>1, <5>2
            <4> QED
                BY <4>6 DEF SetupInOrder
        <3> QED
            BY <2>2, <3>1, <3>2
    <2>8. replies' \in [Workers -> Seq(Answers')]
        BY <2>2, <2>4, <2>5
    <2>9. inflight' \in [Workers -> Seq(Sendable')] /\ queue' \in [Workers -> Seq(Sendable')]
        BY <2>1, <2>2, <2>4 DEF m
    <2> QED
        BY <2>2, <2>6, <2>7, <2>8, <2>9
<1> QED
    BY <1>1, <1>2, <1>3, <1>4, <1>5 DEF Working

LEMMA SetupStep ==
    ASSUME SetupInv, [Next]_vars
    PROVE  SetupInv'
<1>1. CASE UNCHANGED vars
    BY <1>1, SetupSame DEF vars, callerVars, serverVars, SetupInv
<1>2. CASE Next
    BY <1>2, SetupCaller, SetupWorker DEF Next
<1> QED
    BY <1>1, <1>2

\* Whoever reports and however often the worker is replaced, meta data are
\* only published for a node this program created, and nobody is invited
\* before (XMPPInterface.cpp:594-621).
THEOREM SetupIsInOrder == Spec => []SetupInOrder
<1>1. SetupInv /\ [Next]_vars => SetupInv'
    BY SetupStep
<1>2. SetupInv => SetupInOrder
    BY DEF SetupInv
<1> QED
    BY SetupInit, <1>1, <1>2, PTL DEF Spec
-----------------------------------------------------------------------------
(***************************************************************************)
(* Counts reach the server in the order they were reported, except those   *)
(* of calls that overlapped, for every number of calls and workers, while  *)
(* at most one thread besides the actuation handler calls occupancyChange. *)
(*                                                                         *)
(* What is published, in flight and queued is one pipe, and a step only    *)
(* moves a message along it, loses some, or adds one at its end.  A count  *)
(* added behind a newer one belongs to a call that was not over when the   *)
(* newer one was reported.  Only the current worker holds anything: this   *)
(* is where the deletion of the others, and so the pointer, comes in.      *)
(***************************************************************************)

Counts == {"mio", "json"}
Messages == [kind : Kinds, n : Nat]

\* m may come before n when the calls of the pairs in T overlapped.
Fits(m, n, T) == m.kind = n.kind /\ m.kind \in Counts /\ m.n >= n.n => {m.n, n.n} \in T

InOrder(s, T) == \A i, j \in DOMAIN s : i < j => Fits(s[i], s[j], T)
Before(S, R, T) == \A m \in S, n \in R : Fits(m, n, T)

\* The pipe of the published p, the inflight f and the queued q.
PipeOK(p, f, q, T) ==
    /\ InOrder(p, T) /\ InOrder(f, T) /\ InOrder(q, T)
    /\ Before(ToSet(p), ToSet(f), T) /\ Before(ToSet(p), ToSet(q), T)
    /\ Before(ToSet(f), ToSet(q), T)

InPipe(p, f, q) == ToSet(p) \cup ToSet(f) \cup ToSet(q)
-----------------------------------------------------------------------------
(* Pipes.                                                                  *)

LEMMA EmptyFact == ToSet(<<>>) = {} /\ \A T : InOrder(<<>>, T)
BY DEF ToSet, InOrder

LEMMA TailFact ==
    ASSUME NEW s \in Seq(Messages), s # <<>>, NEW T, InOrder(s, T)
    PROVE  /\ Tail(s) \in Seq(Messages) /\ Head(s) \in Messages
           /\ InOrder(Tail(s), T)
           /\ ToSet(Tail(s)) \subseteq ToSet(s) /\ Head(s) \in ToSet(s)
           /\ Before({Head(s)}, ToSet(Tail(s)), T)
<1>1. /\ Len(s) \in Nat /\ Len(s) >= 1 /\ DOMAIN s = 1..Len(s)
      /\ Tail(s) \in Seq(Messages) /\ Head(s) \in Messages /\ Head(s) = s[1]
      /\ DOMAIN Tail(s) = 1..Len(s)-1
      /\ \A i \in 1..Len(s)-1 : Tail(s)[i] = s[i + 1]
    OBVIOUS
<1>2. \A i \in 1..Len(s)-1 : i + 1 \in 1..Len(s) /\ 1 < i + 1
    BY <1>1
<1>3. InOrder(Tail(s), T)
    BY <1>1, <1>2 DEF InOrder
<1>4. ToSet(Tail(s)) \subseteq ToSet(s) /\ Head(s) \in ToSet(s)
    BY <1>1, <1>2 DEF ToSet
<1>5. Before({Head(s)}, ToSet(Tail(s)), T)
    BY <1>1, <1>2 DEF Before, InOrder, ToSet
<1> QED
    BY <1>1, <1>3, <1>4, <1>5

LEMMA AddFact ==
    ASSUME NEW s \in Seq(Messages), NEW x \in Messages, NEW T, InOrder(s, T),
           Before(ToSet(s), {x}, T)
    PROVE  /\ Append(s, x) \in Seq(Messages)
           /\ InOrder(Append(s, x), T)
           /\ ToSet(Append(s, x)) = ToSet(s) \cup {x}
<1> DEFINE t == Append(s, x)
           l == Len(s)
<1>1. /\ l \in Nat /\ DOMAIN s = 1..l /\ t \in Seq(Messages) /\ DOMAIN t = 1..l+1
      /\ \A i \in 1..l : t[i] = s[i]
      /\ t[l + 1] = x
    OBVIOUS
<1> HIDE DEF t, l
<1>2. \A i \in 1..l+1 : i \in 1..l \/ i = l + 1
    BY <1>1
<1>3. InOrder(t, T)
  <2> SUFFICES ASSUME NEW i \in 1..l+1, NEW j \in 1..l+1, i < j PROVE Fits(t[i], t[j], T)
      BY <1>1 DEF InOrder
  <2>1. i \in 1..l
      BY <1>1
  <2>2. CASE j \in 1..l
      BY <1>1, <2>1, <2>2 DEF InOrder
  <2>3. CASE j = l + 1
      BY <1>1, <2>1, <2>3 DEF Before, ToSet
  <2> QED
      BY <1>2, <2>2, <2>3
<1>4. ToSet(t) = ToSet(s) \cup {x}
  <2>1. 1..l+1 = (1..l) \cup {l + 1}
      BY <1>1
  <2> QED
      BY <1>1, <2>1 DEF ToSet
<1> QED
    BY <1>1, <1>3, <1>4 DEF t

\* Moving a message along the pipe.
LEMMA SendFact ==
    ASSUME NEW p \in Seq(Messages), NEW f \in Seq(Messages), NEW q \in Seq(Messages), NEW T,
           PipeOK(p, f, q, T), q # <<>>
    PROVE  /\ PipeOK(p, Append(f, Head(q)), Tail(q), T)
           /\ InPipe(p, Append(f, Head(q)), Tail(q)) \subseteq InPipe(p, f, q)
<1>1. /\ Head(q) \in Messages /\ Head(q) \in ToSet(q) /\ ToSet(Tail(q)) \subseteq ToSet(q)
      /\ InOrder(Tail(q), T) /\ Before({Head(q)}, ToSet(Tail(q)), T)
    BY TailFact DEF PipeOK
<1>2. InOrder(f, T) /\ Before(ToSet(f), {Head(q)}, T)
    BY <1>1 DEF PipeOK, Before
<1>3. /\ InOrder(Append(f, Head(q)), T)
      /\ ToSet(Append(f, Head(q))) = ToSet(f) \cup {Head(q)}
    BY <1>1, <1>2, AddFact
<1> QED
    BY <1>1, <1>3 DEF PipeOK, Before, InPipe

LEMMA PublishFact ==
    ASSUME NEW p \in Seq(Messages), NEW f \in Seq(Messages), NEW q \in Seq(Messages), NEW T,
           PipeOK(p, f, q, T), f # <<>>, NEW r \in {p, Append(p, Head(f))}
    PROVE  /\ PipeOK(r, Tail(f), q, T)
           /\ InPipe(r, Tail(f), q) \subseteq InPipe(p, f, q)
<1>1. /\ Head(f) \in Messages /\ Head(f) \in ToSet(f) /\ ToSet(Tail(f)) \subseteq ToSet(f)
      /\ InOrder(Tail(f), T) /\ Before({Head(f)}, ToSet(Tail(f)), T)
    BY TailFact DEF PipeOK
<1>2. InOrder(p, T) /\ Before(ToSet(p), {Head(f)}, T)
    BY <1>1 DEF PipeOK, Before
<1>3. /\ InOrder(Append(p, Head(f)), T)
      /\ ToSet(Append(p, Head(f))) = ToSet(p) \cup {Head(f)}
    BY <1>1, <1>2, AddFact
<1>4. InOrder(r, T) /\ ToSet(r) \subseteq ToSet(p) \cup {Head(f)}
    BY <1>2, <1>3
<1> QED
    BY <1>1, <1>4 DEF PipeOK, Before, InPipe

\* Losing messages.
LEMMA LoseFact ==
    ASSUME NEW p, NEW f, NEW q, NEW T, PipeOK(p, f, q, T), NEW g \in {f, <<>>}, NEW r \in {q, <<>>}
    PROVE  PipeOK(p, g, r, T) /\ InPipe(p, g, r) \subseteq InPipe(p, f, q)
<1>1. InOrder(g, T) /\ ToSet(g) \subseteq ToSet(f) /\ InOrder(r, T) /\ ToSet(r) \subseteq ToSet(q)
    BY EmptyFact DEF PipeOK
<1> QED
    BY <1>1 DEF PipeOK, Before, InPipe

\* Adding a message at the end.
LEMMA QueueFact ==
    ASSUME NEW p \in Seq(Messages), NEW f \in Seq(Messages), NEW q \in Seq(Messages), NEW T,
           PipeOK(p, f, q, T), NEW x \in Messages, Before(InPipe(p, f, q), {x}, T)
    PROVE  /\ PipeOK(p, f, Append(q, x), T)
           /\ InPipe(p, f, Append(q, x)) = InPipe(p, f, q) \cup {x}
<1>1. Before(ToSet(p), {x}, T) /\ Before(ToSet(f), {x}, T) /\ Before(ToSet(q), {x}, T)
    BY DEF Before, InPipe
<1>2. /\ InOrder(Append(q, x), T)
      /\ ToSet(Append(q, x)) = ToSet(q) \cup {x}
    BY <1>1, AddFact DEF PipeOK
<1> QED
    BY <1>1, <1>2 DEF PipeOK, Before, InPipe
-----------------------------------------------------------------------------
(* The invariant.                                                          *)

\* Only the current worker holds anything, and a deleted one nothing.
HeldByCurrent ==
    \A w \in Workers :
        w # xwork \/ worker[w] = "deleted" => queue[w] = <<>> /\ inflight[w] = <<>>

\* Calls that are not over have different numbers, and overlap every later one.
CallsOverlap ==
    \A c \in Callers : cpc[c] # "idle" =>
        /\ arg[c] \in 1..calls
        /\ \A d \in Callers : cpc[d] # "idle" /\ arg[d] = arg[c] => c = d
        /\ \A n \in 1..calls : arg[c] < n => {n, arg[c]} \in together

\* None of the messages S is of a later call, or one that a call has yet to send.
NotYet(S) ==
    /\ \A m \in S : m.n <= calls
    /\ \A c \in Callers, m \in S : cpc[c] # "idle" /\ m.n = arg[c] =>
          m.kind # "json" /\ (m.kind = "mio" => cpc[c] = "json")

OrderInv ==
    /\ HeldByCurrent /\ CallsOverlap
    /\ NotYet(InPipe(published, inflight[xwork], queue[xwork]))
    /\ PipeOK(published, inflight[xwork], queue[xwork], together)

LEMMA PipeTypes ==
    ASSUME SetupInv
    PROVE  /\ xwork \in Workers /\ published \in Seq(Messages)
           /\ \A w \in Workers : inflight[w] \in Seq(Messages) /\ queue[w] \in Seq(Messages)
<1>1. Sendable \subseteq Messages
    BY DEF Sendable, Messages
<1> QED
    BY <1>1 DEF SetupInv

LEMMA OrderInit == Init => OrderInv
<1> SUFFICES ASSUME Init PROVE OrderInv
    OBVIOUS
<1> DEFINE m == Message("create", 0)
<1>1. /\ 1 \in Workers /\ xwork = 1
      /\ queue = [w \in Workers |-> IF w = 1 THEN <<m>> ELSE <<>>]
      /\ inflight = [w \in Workers |-> <<>>] /\ published = <<>>
      /\ cpc = [c \in Callers |-> "idle"] /\ calls = 0
    BY InterfaceAssumption DEF Init, Workers
<1>2. m \in Messages /\ m.n = 0 /\ m.kind = "create"
    BY DEF Message, Messages, Kinds
<1>3. PICK s \in {"running", "stopped"} : worker = [w \in Workers |-> IF w = 1 THEN s ELSE "none"]
    BY DEF Init
<1> HIDE DEF m
<1>4. HeldByCurrent /\ CallsOverlap
    BY <1>1, <1>3 DEF HeldByCurrent, CallsOverlap
<1>5. /\ PipeOK(published, published, published, together)
      /\ InPipe(published, published, published) = {}
    BY <1>1, EmptyFact DEF PipeOK, Before, InPipe
<1>6. PipeOK(published, published, <<m>>, together) /\ InPipe(published, published, <<m>>) = {m}
  <2>1. Before(InPipe(published, published, published), {m}, together)
      BY <1>5 DEF Before
  <2>2. InOrder(<<m>>, together) /\ ToSet(<<m>>) = {m}
    <3>1. DOMAIN <<m>> = {1} /\ (<<m>>)[1] = m
        OBVIOUS
    <3> QED
        BY <3>1 DEF InOrder, ToSet
  <2> QED
      BY <1>1, <1>5, <2>1, <2>2 DEF PipeOK, InPipe, Before
<1>7. queue[xwork] = <<m>> /\ inflight[xwork] = published
    BY <1>1
<1> QED
    BY <1>1, <1>2, <1>4, <1>6, <1>7 DEF OrderInv, NotYet
-----------------------------------------------------------------------------
(* The steps.                                                              *)

\* A call begins: it is newer than everything reported so far.
LEMMA OrderCall ==
    ASSUME SetupInv, OrderInv, NEW c \in Callers, Call(c)
    PROVE  OrderInv'
<1> DEFINE S == InPipe(published, inflight[xwork], queue[xwork])
<1>1. /\ UNCHANGED <<xwork, worker, queue, inflight, published>>
      /\ cpc[c] = "idle" /\ cpc' = [cpc EXCEPT ![c] = "check"]
      /\ calls' = calls + 1 /\ arg' = [arg EXCEPT ![c] = calls + 1]
      /\ together \subseteq together'
      /\ \A d \in Callers : cpc[d] # "idle" => {calls + 1, arg[d]} \in together'
    BY DEF Call, serverVars
<1>2. calls \in Nat /\ arg \in [Callers -> Nat]
    BY DEF SetupInv
<1>3. \A d \in Callers \ {c} : cpc'[d] = cpc[d] /\ arg'[d] = arg[d]
    BY <1>1, <1>2
<1>4. arg'[c] = calls + 1
    BY <1>1, <1>2
<1>5. HeldByCurrent'
    BY <1>1 DEF OrderInv, HeldByCurrent
<1>6. CallsOverlap'
  <2> SUFFICES ASSUME NEW d \in Callers, cpc'[d] # "idle"
               PROVE  /\ arg'[d] \in 1..calls'
                      /\ \A e \in Callers : cpc'[e] # "idle" /\ arg'[e] = arg'[d] => d = e
                      /\ \A n \in 1..calls' : arg'[d] < n => {n, arg'[d]} \in together'
      BY DEF CallsOverlap
  <2>1. \A e \in Callers \ {c} : cpc'[e] # "idle" => arg'[e] \in 1..calls
      BY <1>3 DEF OrderInv, CallsOverlap
  <2>2. \A e \in Callers \ {c} : cpc'[e] # "idle" => arg'[e] # calls + 1
      BY <2>1, <1>2
  <2>3. CASE d = c
      BY <1>1, <1>2, <1>4, <2>2, <2>3
  <2>4. CASE d # c
    <3>1. arg'[d] = arg[d] /\ cpc[d] # "idle" /\ arg[d] \in 1..calls
        BY <1>3, <2>1, <2>4
    <3>2. \A e \in Callers : cpc'[e] # "idle" /\ arg'[e] = arg'[d] => d = e
        BY <1>3, <1>4, <2>2, <2>4, <3>1 DEF OrderInv, CallsOverlap
    <3>3. ASSUME NEW n \in 1..calls', arg[d] < n PROVE {n, arg[d]} \in together'
      <4>1. CASE n = calls + 1
          BY <1>1, <3>1, <4>1
      <4>2. CASE n \in 1..calls
          BY <1>1, <3>1, <3>3, <4>2 DEF OrderInv, CallsOverlap
      <4> QED
          BY <1>1, <1>2, <4>1, <4>2
    <3> QED
        BY <1>1, <1>2, <3>1, <3>2, <3>3
  <2> QED
      BY <2>3, <2>4
<1>7. PipeOK(published, inflight[xwork], queue[xwork], together')
    BY <1>1 DEF OrderInv, PipeOK, InOrder, Before, Fits
<1>8. S \subseteq Messages
    BY PipeTypes DEF InPipe, ToSet
<1> HIDE DEF S
<1>9. NotYet(S)'
  <2>1. NotYet(S)
      BY DEF OrderInv, S
  <2>2. S' = S
      BY <1>1 DEF S
  <2>3. \A m \in S : m.n \in Nat /\ m.n <= calls
      BY <1>8, <2>1 DEF NotYet, Messages
  <2>4. \A m \in S : m.n <= calls' /\ m.n # calls + 1
      BY <1>1, <1>2, <2>3
  <2> QED
      BY <1>3, <1>4, <2>1, <2>2, <2>4 DEF NotYet
<1> QED
    BY <1>1, <1>5, <1>6, <1>7, <1>9 DEF OrderInv, S

\* Calls go on, and nothing new enters the pipe.
LEMMA OrderKept ==
    ASSUME SetupInv, OrderInv, UNCHANGED <<calls, arg, together>>,
           \A c \in Callers : \/ cpc'[c] = cpc[c]
                              \/ cpc[c] \notin {"idle", "json"}
                              \/ cpc'[c] = "idle",
           HeldByCurrent',
           PipeOK(published', inflight'[xwork'], queue'[xwork'], together),
           InPipe(published', inflight'[xwork'], queue'[xwork'])
               \subseteq InPipe(published, inflight[xwork], queue[xwork])
    PROVE  OrderInv'
<1>1. CallsOverlap'
    BY DEF OrderInv, CallsOverlap
<1>2. NotYet(InPipe(published, inflight[xwork], queue[xwork]))'
    BY DEF OrderInv, NotYet
<1> QED
    BY <1>1, <1>2 DEF OrderInv

\* A message is queued.
LEMMA OrderQueued ==
    ASSUME SetupInv, OrderInv, UNCHANGED <<calls, arg, together, xwork, worker, inflight, published>>,
           worker[xwork] # "deleted", NEW x \in Messages, Queue(<<x>>),
           Before(InPipe(published, inflight[xwork], queue[xwork]), {x}, together),
           x.n <= calls,
           \A c \in Callers : \/ cpc'[c] = cpc[c]
                              \/ cpc[c] \notin {"idle", "json"}
                              \/ cpc'[c] = "idle",
           \A c \in Callers : cpc'[c] # "idle" /\ x.n = arg[c] =>
               x.kind # "json" /\ (x.kind = "mio" => cpc'[c] = "json")
    PROVE  OrderInv'
<1> DEFINE q == queue[xwork]
           f == inflight[xwork]
<1>1. /\ xwork \in Workers /\ published \in Seq(Messages)
      /\ f \in Seq(Messages) /\ q \in Seq(Messages)
    BY PipeTypes
<1>2. queue' = [queue EXCEPT ![xwork] = Append(q, x)] /\ queue \in [Workers -> Seq(Sendable)]
  <2>1. q \o <<x>> = Append(q, x)
      BY <1>1
  <2> QED
      BY <2>1 DEF Queue, SetupInv
<1>3. queue'[xwork] = Append(q, x)
    BY <1>1, <1>2
<1>4. HeldByCurrent'
    BY <1>2 DEF OrderInv, HeldByCurrent
<1>5. CallsOverlap'
    BY DEF OrderInv, CallsOverlap
<1>6. PipeOK(published, f, q, together)
    BY DEF OrderInv
<1> HIDE DEF q, f
<1>7. /\ PipeOK(published, f, Append(q, x), together)
      /\ InPipe(published, f, Append(q, x)) = InPipe(published, f, q) \cup {x}
    BY <1>1, <1>6, QueueFact DEF q, f
<1>8. \A m \in InPipe(published, f, q) \cup {x} :
          /\ m.n <= calls
          /\ \A c \in Callers : cpc'[c] # "idle" /\ m.n = arg[c] =>
                m.kind # "json" /\ (m.kind = "mio" => cpc'[c] = "json")
    BY DEF OrderInv, NotYet, q, f
<1>9. NotYet(InPipe(published, inflight[xwork], queue[xwork]))'
    BY <1>3, <1>7, <1>8 DEF NotYet, f
<1> QED
    BY <1>3, <1>4, <1>5, <1>7, <1>9 DEF OrderInv, f

\* A step of a call.
LEMMA OrderCaller ==
    ASSUME OneOutside, PointerInv, SetupInv, OrderInv, NEW c \in Callers, OccupancyChange(c)
    PROVE  OrderInv'
<1> DEFINE S == InPipe(published, inflight[xwork], queue[xwork])
<1>1. cpc \in [Callers -> Places] /\ worker \in [Workers -> WorkerStates] /\ xwork \in Workers
    BY DEF PointerInv, Types
<1>2. PipeOK(published, inflight[xwork], queue[xwork], together)
    BY DEF OrderInv
<1>3. CASE Check(c) \/ Stop(c) \/ Start(c)
  <2>1. UNCHANGED <<xwork, calls, arg, together, queue, inflight, published>>
      BY <1>3 DEF Check, Stop, Start, serverVars
  <2>2. \A d \in Callers : cpc'[d] = cpc[d] \/ cpc[d] \notin {"idle", "json"}
      BY <1>1, <1>3 DEF Check, Stop, Start, Goto
  <2>3. worker[xwork] # "deleted"
      BY <1>3, PointerIsValid DEF Check, Stop, Start
  <2>4. HeldByCurrent'
      BY <1>1, <1>3, <2>1, <2>3 DEF Check, Stop, Start, OrderInv, HeldByCurrent
  <2> QED
      BY <1>2, <2>1, <2>2, <2>4, OrderKept
<1>4. CASE Delete(c)
  <2>1. /\ UNCHANGED <<xwork, calls, arg, together, published>>
        /\ queue' = [queue EXCEPT ![xwork] = <<>>]
        /\ inflight' = [inflight EXCEPT ![xwork] = <<>>]
        /\ worker' = [worker EXCEPT ![xwork] = "deleted"]
      BY <1>4 DEF Delete, serverVars
  <2>2. \A d \in Callers : cpc'[d] = cpc[d] \/ cpc[d] \notin {"idle", "json"}
      BY <1>1, <1>4 DEF Delete, Goto
  <2>3. queue'[xwork] = <<>> /\ inflight'[xwork] = <<>>
      BY <1>1, <2>1 DEF SetupInv
  <2>4. HeldByCurrent'
      BY <1>1, <2>1, <2>3 DEF OrderInv, HeldByCurrent, SetupInv
  <2>5. PipeOK(published, <<>>, <<>>, together) /\ InPipe(published, <<>>, <<>>) \subseteq S
      BY <1>2, LoseFact
  <2> QED
      BY <2>1, <2>2, <2>3, <2>4, <2>5, OrderKept
<1>5. CASE New(c)
  <2>1. /\ UNCHANGED <<calls, arg, together, published, queue, inflight>>
        /\ xwork' = xwork + 1 /\ worker' = [worker EXCEPT ![xwork'] = "stopped"]
        /\ xwork' \in Workers /\ xwork' # xwork
      BY <1>1, <1>5, InterfaceAssumption DEF New, serverVars, Workers
  <2>2. \A d \in Callers : cpc'[d] = cpc[d] \/ cpc[d] \notin {"idle", "json"}
      BY <1>1, <1>5 DEF New, Goto
  <2>3. worker[xwork] = "deleted"
      <3>1. c # Actuation
          BY <1>5 DEF New, PointerInv, HandlerIsInside
      <3> QED
          BY <1>5, <3>1 DEF New, PointerInv, Replacement, Outside
  <2>4. \A w \in Workers : queue[w] = <<>> /\ inflight[w] = <<>>
      BY <2>3 DEF OrderInv, HeldByCurrent
  <2>5. HeldByCurrent'
      BY <2>1, <2>4 DEF HeldByCurrent
  <2>6. PipeOK(published, <<>>, <<>>, together) /\ InPipe(published, <<>>, <<>>) \subseteq S
      BY <1>2, LoseFact
  <2> QED
      BY <2>1, <2>2, <2>4, <2>5, <2>6, OrderKept
<1>6. CASE SendMIO(c) \/ SendJSON(c)
  <2>1. PICK x \in {Message(cpc[c], arg[c])} : x = Message(cpc[c], arg[c])
      OBVIOUS
  <2>2. /\ UNCHANGED <<calls, arg, together, xwork, worker, inflight, published>>
        /\ cpc[c] \in Counts /\ Queue(<<x>>)
        /\ cpc[c] = "mio" => cpc' = [cpc EXCEPT ![c] = "json"]
        /\ cpc[c] = "json" => cpc' = [cpc EXCEPT ![c] = "idle"]
      BY <1>6, <2>1 DEF SendMIO, SendJSON, Goto, serverVars, Counts
  <2>3. arg[c] \in 1..calls /\ calls \in Nat
      BY <2>2 DEF OrderInv, CallsOverlap, SetupInv, Counts
  <2>4. x \in Messages /\ x.kind = cpc[c] /\ x.n = arg[c] /\ x.n <= calls
      BY <2>1, <2>2, <2>3 DEF Message, Messages, Kinds, Counts
  <2>5. worker[xwork] # "deleted"
      BY <2>2, PointerIsValid DEF Counts
  <2>6. S \subseteq Messages /\ NotYet(S)
      BY PipeTypes DEF InPipe, ToSet, OrderInv
  <2> HIDE DEF S
  <2>7. Before(S, {x}, together)
    <3> SUFFICES ASSUME NEW m \in S, m.kind = x.kind, m.n >= x.n PROVE {m.n, x.n} \in together
        BY DEF Before, Fits
    <3>1. m.n \in Nat /\ m.n <= calls
        BY <2>6 DEF Messages, NotYet
    <3>2. m.n # arg[c]
        BY <2>2, <2>4, <2>6 DEF NotYet, Counts
    <3>3. m.n \in 1..calls /\ arg[c] < m.n
        BY <2>3, <2>4, <3>1, <3>2
    <3> QED
        BY <2>2, <2>4, <3>3 DEF OrderInv, CallsOverlap, Counts
  <2>8. \A d \in Callers : cpc'[d] = cpc[d] \/ cpc[d] \notin {"idle", "json"} \/ cpc'[d] = "idle"
      BY <1>1, <2>2 DEF Counts
  <2>9. ASSUME NEW d \in Callers, cpc'[d] # "idle", x.n = arg[d]
        PROVE  x.kind # "json" /\ (x.kind = "mio" => cpc'[d] = "json")
    <3>1. cpc[d] # "idle" /\ cpc[c] # "idle"
        BY <1>1, <2>2, <2>9 DEF Counts
    <3>2. d = c
        BY <2>4, <2>9, <3>1 DEF OrderInv, CallsOverlap
    <3> QED
        BY <1>1, <2>2, <2>4, <2>9, <3>2 DEF Counts
  <2> QED
      BY <2>2, <2>4, <2>5, <2>7, <2>8, <2>9, OrderQueued DEF S
<1> QED
    BY <1>3, <1>4, <1>5, <1>6 DEF OccupancyChange

\* A step of a worker, which is the current one.
LEMMA OrderWorker ==
    ASSUME PointerInv, SetupInv, OrderInv, NEW w \in Workers, Working(w) \/ Drop(w)
    PROVE  OrderInv'
<1> DEFINE p == published
           f == inflight[xwork]
           q == queue[xwork]
<1>1. /\ UNCHANGED <<xwork, cpc, calls, arg, together>>
      /\ worker[w] = "running"
    BY DEF Working, Connect, Transmit, Serve, HandleReply, Drop, Free, callerVars
<1>2. w = xwork
    BY <1>1 DEF PointerInv, OnlyCurrentRuns
<1>3. PipeOK(p, f, q, together) /\ p \in Seq(Messages) /\ f \in Seq(Messages) /\ q \in Seq(Messages)
    BY PipeTypes DEF OrderInv
<1>4. /\ queue \in [Workers -> Seq(Sendable)] /\ inflight \in [Workers -> Seq(Sendable)]
      /\ worker \in [Workers -> WorkerStates]
    BY DEF SetupInv, PointerInv, Types
<1>5. CASE Connect(w)
  <2>1. UNCHANGED <<worker, queue, inflight, published>>
      BY <1>5 DEF Connect, serverVars
  <2>2. HeldByCurrent'
      BY <1>1, <2>1 DEF OrderInv, HeldByCurrent
  <2> QED
      BY <1>1, <1>3, <2>1, <2>2, OrderKept
<1>6. CASE Transmit(w)
  <2>1. /\ UNCHANGED <<worker, published>> /\ q # <<>>
        /\ inflight' = [inflight EXCEPT ![xwork] = Append(f, Head(q))]
        /\ queue' = [queue EXCEPT ![xwork] = Tail(q)]
      BY <1>2, <1>6 DEF Transmit, serverVars
  <2>2. inflight'[xwork] = Append(f, Head(q)) /\ queue'[xwork] = Tail(q)
      BY <1>2, <1>4, <2>1
  <2>3. HeldByCurrent'
      BY <1>1, <1>2, <1>4, <2>1 DEF OrderInv, HeldByCurrent
  <2> HIDE DEF p, f, q
  <2>4. /\ PipeOK(p, Append(f, Head(q)), Tail(q), together)
        /\ InPipe(p, Append(f, Head(q)), Tail(q)) \subseteq InPipe(p, f, q)
      BY <1>3, <2>1, SendFact
  <2> QED
      BY <1>1, <2>1, <2>2, <2>3, <2>4, OrderKept DEF p, f, q
<1>7. CASE Serve(w)
  <2>1. /\ UNCHANGED <<worker, queue>> /\ f # <<>>
        /\ inflight' = [inflight EXCEPT ![xwork] = Tail(f)]
        /\ published' \in {p, Append(p, Head(f))}
      BY <1>2, <1>7 DEF Serve
  <2>2. inflight'[xwork] = Tail(f)
      BY <1>2, <1>4, <2>1
  <2>3. HeldByCurrent'
      BY <1>1, <1>2, <1>4, <2>1 DEF OrderInv, HeldByCurrent
  <2> HIDE DEF p, f, q
  <2>4. /\ PipeOK(published', Tail(f), q, together)
        /\ InPipe(published', Tail(f), q) \subseteq InPipe(p, f, q)
      BY <1>3, <2>1, PublishFact
  <2> QED
      BY <1>1, <2>1, <2>2, <2>3, <2>4, OrderKept DEF p, f, q
<1>8. CASE Drop(w)
  <2>1. /\ UNCHANGED <<queue, published>>
        /\ inflight' = [inflight EXCEPT ![xwork] = <<>>]
        /\ worker' = [worker EXCEPT ![xwork] = "dead"]
      BY <1>2, <1>8 DEF Drop, serverVars
  <2>2. inflight'[xwork] = <<>>
      BY <1>2, <1>4, <2>1
  <2>3. HeldByCurrent'
      BY <1>1, <1>2, <1>4, <2>1 DEF OrderInv, HeldByCurrent
  <2>4. PipeOK(p, <<>>, q, together) /\ InPipe(p, <<>>, q) \subseteq InPipe(p, f, q)
      BY <1>3, LoseFact
  <2> QED
      BY <1>1, <2>1, <2>2, <2>3, <2>4, OrderKept
<1>9. CASE HandleReply(w)
  <2>1. UNCHANGED <<worker, inflight, published>>
      BY <1>9 DEF HandleReply, serverVars
  <2>2. PICK next \in {<<>>, <<Message("meta", 0)>>, <<Message("invite", 0)>>} : Queue(next)
      BY <1>9 DEF HandleReply, FollowUp
  <2>3. CASE next = <<>>
    <3>1. queue' = queue
      <4>1. q \o <<>> = q
          BY <1>3
      <4> QED
          BY <1>2, <1>4, <2>2, <2>3, <4>1 DEF Queue
    <3>2. HeldByCurrent'
        BY <1>1, <2>1, <3>1 DEF OrderInv, HeldByCurrent
    <3> QED
        BY <1>1, <1>3, <2>1, <3>1, <3>2, OrderKept
  <2>4. CASE next # <<>>
    <3>1. PICK x \in {Message("meta", 0), Message("invite", 0)} : next = <<x>>
        BY <2>2, <2>4
    <3>2. x \in Messages /\ x.n = 0 /\ x.kind \notin Counts
        BY <3>1 DEF Message, Messages, Kinds, Counts
    <3>3. Before(InPipe(p, f, q), {x}, together)
        BY <3>2 DEF Before, Fits
    <3>4. x.n <= calls /\ worker[xwork] # "deleted"
        BY <1>1, <1>2, <3>2 DEF SetupInv
    <3> QED
        BY <1>1, <2>1, <2>2, <3>1, <3>2, <3>3, <3>4, OrderQueued DEF Counts
  <2> QED
      BY <2>3, <2>4
<1> QED
    BY <1>5, <1>6, <1>7, <1>8, <1>9 DEF Working

\* With at most one caller besides actuation, the server never sees an older
\* count after a newer one, however often the connection is lost and the worker
\* replaced, unless the two calls overlapped (XMPPInterface.cpp:375-411).
THEOREM CountsAreInOrder ==
    ASSUME OneOutside
    PROVE  Spec => []CountsArriveInOrder
<1> DEFINE Inv == PointerInv /\ SetupInv /\ OrderInv
<1>1. Init => Inv
    BY PointerInit, SetupInit, OrderInit
<1>2. Inv /\ [Next]_vars => Inv'
  <2> SUFFICES ASSUME Inv, [Next]_vars PROVE Inv'
      OBVIOUS
  <2>1. PointerInv' /\ SetupInv'
      BY PointerStep, SetupStep
  <2>2. OrderInv'
    <3>1. CASE UNCHANGED vars
      <4>1. UNCHANGED <<xwork, worker, queue, inflight, cpc, arg, calls, together, published>>
          BY <3>1 DEF vars, callerVars, serverVars
      <4>2. HeldByCurrent'
          BY <4>1 DEF OrderInv, HeldByCurrent
      <4> QED
          BY <4>1, <4>2, OrderKept DEF OrderInv
    <3>2. CASE Next
        BY <3>2, OrderCall, OrderCaller, OrderWorker DEF Next
    <3> QED
        BY <3>1, <3>2
  <2> QED
      BY <2>1, <2>2
<1>3. Inv => CountsArriveInOrder
  <2> SUFFICES ASSUME Inv, NEW ij \in Overtaken
               PROVE  {published[ij[1]].n, published[ij[2]].n} \in together
      BY DEF CountsArriveInOrder
  <2>1. InOrder(published, together) /\ DOMAIN published = 1..Len(published)
      BY PipeTypes DEF OrderInv, PipeOK
  <2> QED
      BY <2>1 DEF Overtaken, InOrder, Fits, Counts
<1> QED
    BY <1>1, <1>2, <1>3, PTL DEF Spec
-----------------------------------------------------------------------------
(***************************************************************************)
(* Types.  That only a running worker has a connection is more than a      *)
(* type: it holds because the worker that is deleted was stopped before,   *)
(* and because the new one was never used; so it needs PointerInv.         *)
(***************************************************************************)

WellFormed == [kind : Kinds, n : 0..MaxCalls]
Replies == [kind : Kinds, ok : BOOLEAN]
Publishable == [kind : Kinds \ {"create"}, n : 0..MaxCalls]

Messaging ==
    /\ queue \in [Workers -> Seq(WellFormed)]
    /\ inflight \in [Workers -> Seq(WellFormed)]
    /\ replies \in [Workers -> Seq(Replies)]
    /\ published \in Seq(Publishable)
    /\ nodeExists \in BOOLEAN /\ created \in BOOLEAN

\* Calls are numbered from 1, and a caller under way has its number.
Numbering ==
    /\ arg \in [Callers -> 0..MaxCalls] /\ calls \in 0..MaxCalls
    /\ \A c \in Callers : cpc[c] # "idle" => arg[c] # 0
    /\ together \subseteq SUBSET (1..MaxCalls)

Connections ==
    /\ up \in [Workers -> BOOLEAN]
    /\ \A w \in Workers : up[w] => worker[w] = "running"

\* The inductive invariant, together with PointerInv.
TypeInv ==
    /\ Messaging /\ Numbering /\ Connections
    /\ dangling \in BOOLEAN /\ actuating \in {0} \cup Workers

LEMMA TypeInit == Init => TypeInv
<1> SUFFICES ASSUME Init PROVE TypeInv
    OBVIOUS
<1>1. Message("create", 0) \in WellFormed /\ 0 \in 0..MaxCalls
    BY InterfaceAssumption DEF Message, WellFormed, Kinds
<1>2. Messaging
  <2>1. queue = [w \in Workers |-> IF w = 1 THEN <<Message("create", 0)>> ELSE <<>>]
      BY DEF Init
  <2>2. <<Message("create", 0)>> \in Seq(WellFormed) /\ <<>> \in Seq(WellFormed)
      BY <1>1
  <2>3. queue \in [Workers -> Seq(WellFormed)]
      BY <2>1, <2>2
  <2>4. /\ inflight = [w \in Workers |-> <<>>] /\ replies = [w \in Workers |-> <<>>]
        /\ published = <<>> /\ nodeExists \in BOOLEAN /\ created \in BOOLEAN
      BY DEF Init
  <2> QED
      BY <2>3, <2>4 DEF Messaging
<1>3. Numbering
    BY <1>1 DEF Init, Numbering
<1>4. Connections
    BY DEF Init, Connections
<1> QED
    BY <1>2, <1>3, <1>4 DEF Init, TypeInv

\* A caller's step other than a call.
LEMMA TypeCaller ==
    ASSUME PointerInv, OneOutside, TypeInv, NEW c \in Callers, OccupancyChange(c), PointerInv'
    PROVE  TypeInv'
<1> USE DEF TypeInv
<1>1. xwork \in Workers /\ worker \in [Workers -> WorkerStates] /\ cpc[c] # "idle"
    BY DEF PointerInv, Types, OccupancyChange, Check, Stop, Delete, New, Start, SendMIO, SendJSON
<1>2. PICK l : Goto(c, l)
    BY DEF OccupancyChange, Check, Stop, Delete, New, Start, SendMIO, SendJSON
<1>3. UNCHANGED <<arg, calls, together, serverVars>>
    BY DEF OccupancyChange, Check, Stop, Delete, New, Start, SendMIO, SendJSON
<1>4. Numbering'
    BY <1>1, <1>2, <1>3 DEF Goto, Numbering, PointerInv, Types
<1>5. dangling' \in BOOLEAN
    BY DEF OccupancyChange, Check, Stop, Delete, New, Start, SendMIO, SendJSON, Deref
<1>6. actuating' \in {0} \cup Workers
    BY <1>2 DEF Goto
<1>7. Messaging'
  <2>1. CASE Check(c) \/ Stop(c) \/ New(c) \/ Start(c)
      BY <1>3, <2>1 DEF Check, Stop, New, Start, Messaging, serverVars
  <2>2. CASE Delete(c)
    <3>1. /\ queue' = [queue EXCEPT ![xwork] = <<>>]
          /\ inflight' = [inflight EXCEPT ![xwork] = <<>>]
          /\ replies' = [replies EXCEPT ![xwork] = <<>>]
        BY <2>2 DEF Delete
    <3>2. /\ queue' \in [Workers -> Seq(WellFormed)] /\ inflight' \in [Workers -> Seq(WellFormed)]
          /\ replies' \in [Workers -> Seq(Replies)]
      <4>1. <<>> \in Seq(WellFormed) /\ <<>> \in Seq(Replies)
          OBVIOUS
      <4> QED
          BY <3>1, <4>1 DEF Messaging
    <3> QED
        BY <1>3, <3>2 DEF Messaging, serverVars
  <2>3. CASE SendMIO(c) \/ SendJSON(c)
    <3>1. PICK m \in WellFormed : queue' = [queue EXCEPT ![xwork] = @ \o <<m>>]
        BY <2>3 DEF SendMIO, SendJSON, Queue, Message, WellFormed, Kinds, Numbering
    <3>2. queue' \in [Workers -> Seq(WellFormed)]
      <4>1. queue[xwork] \o <<m>> \in Seq(WellFormed)
          BY <1>1, <3>1 DEF Messaging
      <4> QED
          BY <3>1, <4>1 DEF Messaging
    <3> QED
        BY <1>3, <2>3, <3>2 DEF SendMIO, SendJSON, Messaging, serverVars
  <2> QED
      BY <2>1, <2>2, <2>3 DEF OccupancyChange
<1>8. Connections'
  <2>1. CASE Check(c) \/ SendMIO(c) \/ SendJSON(c)
      BY <2>1 DEF Check, SendMIO, SendJSON, Connections
  <2>2. CASE Stop(c)
    <3>1. up' = [up EXCEPT ![xwork] = FALSE]
          /\ \A w \in Workers : w # xwork => worker'[w] = worker[w]
        BY <1>1, <2>2 DEF Stop
    <3> QED
        BY <1>1, <3>1 DEF Connections
  <2>3. CASE Delete(c)
    <3>1. c # Actuation /\ worker[xwork] # "running"
      <4>1. c # Actuation
          BY <2>3 DEF Delete, PointerInv, HandlerIsInside
      <4> QED
          BY <2>3, <4>1 DEF Delete, PointerInv, Replacement, Outside
    <3> QED
        BY <1>1, <2>3, <3>1 DEF Delete, Connections
  <2>4. CASE New(c)
    <3>1. xwork + 1 \in Workers /\ xwork + 1 # xwork /\ xwork' = xwork + 1
        BY <1>1, <2>4, InterfaceAssumption DEF New, Workers
    <3>2. worker[xwork + 1] # "running"
        BY <3>1 DEF PointerInv, OnlyCurrentRuns
    <3>3. up' = up /\ worker' = [worker EXCEPT ![xwork + 1] = "stopped"]
        BY <2>4, <3>1 DEF New
    <3> QED
        BY <1>1, <3>1, <3>2, <3>3 DEF Connections
  <2>5. CASE Start(c)
    <3>1. up' = up /\ (worker' = worker \/ worker' = [worker EXCEPT ![xwork] = "running"])
        BY <2>5 DEF Start
    <3> QED
        BY <1>1, <3>1 DEF Connections
  <2> QED
      BY <2>1, <2>2, <2>3, <2>4, <2>5 DEF OccupancyChange
<1> QED
    BY <1>4, <1>5, <1>6, <1>7, <1>8

LEMMA TypeCall ==
    ASSUME PointerInv, TypeInv, NEW c \in Callers, Call(c)
    PROVE  TypeInv'
<1> USE DEF TypeInv
<1>1. Messaging' /\ Connections' /\ dangling' \in BOOLEAN
    BY DEF Call, serverVars, Messaging, Connections
<1>2. actuating' \in {0} \cup Workers
    BY DEF Call
<1>3. calls + 1 \in 1..MaxCalls /\ calls' = calls + 1
    BY InterfaceAssumption DEF Call, Numbering
<1>4. together' \subseteq SUBSET (1..MaxCalls)
  <2>1. together' = together \cup {{calls + 1, arg[d]} : d \in {d \in Callers : cpc[d] # "idle"}}
      BY DEF Call
  <2>2. ASSUME NEW d \in Callers, cpc[d] # "idle" PROVE {calls + 1, arg[d]} \subseteq 1..MaxCalls
    <3>1. arg[d] \in 1..MaxCalls
        BY <2>2, InterfaceAssumption DEF Numbering
    <3> QED
        BY <1>3, <3>1
  <2>3. ASSUME NEW x \in together' PROVE x \in SUBSET (1..MaxCalls)
    <3>1. CASE x \in together
        BY <3>1 DEF Numbering
    <3>2. CASE x \notin together
      <4>1. PICK d \in Callers : cpc[d] # "idle" /\ x = {calls + 1, arg[d]}
          BY <2>1, <2>3, <3>2
      <4> QED
          BY <2>2, <4>1
    <3> QED
        BY <3>1, <3>2
  <2> QED
      BY <2>3
<1>5. arg' \in [Callers -> 0..MaxCalls] /\ \A d \in Callers : cpc'[d] # "idle" => arg'[d] # 0
  <2>1. arg' = [arg EXCEPT ![c] = calls + 1] /\ cpc' = [cpc EXCEPT ![c] = "check"]
      BY DEF Call
  <2> QED
      BY <1>3, <2>1, InterfaceAssumption DEF Numbering, PointerInv, Types
<1>6. Numbering'
    BY <1>3, <1>4, <1>5 DEF Numbering
<1> QED
    BY <1>1, <1>2, <1>6

LEMMA TypeWorker ==
    ASSUME PointerInv, TypeInv, NEW w \in Workers, Working(w) \/ Drop(w), PointerInv'
    PROVE  TypeInv'
<1> USE DEF TypeInv
<1>1. UNCHANGED <<xwork, cpc, arg, calls, actuating, together>>
    BY DEF Working, Connect, Transmit, HandleReply, Serve, Drop, callerVars
<1>2. Numbering' /\ actuating' \in {0} \cup Workers
    BY <1>1 DEF Numbering
<1>3. dangling' \in BOOLEAN
    BY DEF Working, Connect, Transmit, HandleReply, Serve, Drop, Deref
<1>4. xwork \in Workers /\ worker \in [Workers -> WorkerStates]
    BY DEF PointerInv, Types
<1>5. CASE Connect(w)
    BY <1>2, <1>3, <1>4, <1>5 DEF Connect, serverVars, Messaging, Connections
<1>6. CASE Drop(w)
    BY <1>2, <1>3, <1>4, <1>6 DEF Drop, serverVars, Messaging, Connections
<1>7. CASE Transmit(w)
  <2>1. /\ queue[w] \in Seq(WellFormed) /\ queue[w] # <<>>
        /\ inflight' = [inflight EXCEPT ![w] = Append(@, Head(queue[w]))]
        /\ queue' = [queue EXCEPT ![w] = Tail(@)]
        /\ UNCHANGED <<worker, up, replies, serverVars>>
      BY <1>7 DEF Transmit, Messaging
  <2>2. Head(queue[w]) \in WellFormed /\ Tail(queue[w]) \in Seq(WellFormed)
      BY <2>1
  <2>3. Messaging'
      BY <2>1, <2>2 DEF Messaging, serverVars
  <2>4. Connections'
      BY <2>1 DEF Connections
  <2> QED
      BY <1>2, <1>3, <2>3, <2>4
<1>8. CASE HandleReply(w)
  <2> DEFINE next == FollowUp(Head(replies[w]).kind, Head(replies[w]).ok)
  <2>1. /\ queue' = [queue EXCEPT ![xwork] = @ \o next]
        /\ replies' = [replies EXCEPT ![w] = Tail(@)] /\ replies[w] # <<>>
        /\ UNCHANGED <<worker, up, inflight, serverVars>>
      BY <1>8 DEF HandleReply, Queue
  <2>2. next \in Seq(WellFormed)
    <3>1. next \in {<<Message("meta", 0)>>, <<Message("invite", 0)>>, <<>>}
        BY DEF FollowUp
    <3>2. Message("meta", 0) \in WellFormed /\ Message("invite", 0) \in WellFormed
        BY InterfaceAssumption DEF Message, WellFormed, Kinds
    <3>3. <<Message("meta", 0)>> \in Seq(WellFormed) /\ <<Message("invite", 0)>> \in Seq(WellFormed)
        BY <3>2
    <3>4. <<>> \in Seq(WellFormed)
        OBVIOUS
    <3> HIDE DEF next
    <3> QED
        BY <3>1, <3>3, <3>4
  <2> HIDE DEF next
  <2>3. queue' \in [Workers -> Seq(WellFormed)] /\ replies' \in [Workers -> Seq(Replies)]
      BY <1>4, <2>1, <2>2 DEF Messaging
  <2>4. Messaging'
      BY <2>1, <2>3 DEF Messaging, serverVars
  <2>5. Connections'
      BY <2>1 DEF Connections
  <2> QED
      BY <1>2, <1>3, <2>4, <2>5
<1>9. CASE Serve(w)
  <2> DEFINE m == Head(inflight[w])
             ok == (m.kind = "create") # nodeExists
  <2>1. m \in WellFormed /\ Tail(inflight[w]) \in Seq(WellFormed)
      BY <1>9 DEF Serve, Messaging
  <2>2. /\ nodeExists' = (nodeExists \/ m.kind = "create")
        /\ created' = (created \/ (ok /\ m.kind = "create"))
        /\ published' = IF ok /\ m.kind # "create" THEN Append(published, m) ELSE published
        /\ replies' = [replies EXCEPT ![w] = Append(@, [kind |-> m.kind, ok |-> ok])]
        /\ inflight' = [inflight EXCEPT ![w] = Tail(@)]
        /\ UNCHANGED <<worker, up, queue>>
      BY <1>9 DEF Serve
  <2>3. inflight' \in [Workers -> Seq(WellFormed)]
      BY <2>1, <2>2 DEF Messaging
  <2> HIDE DEF m
  <2>4. ok \in BOOLEAN /\ m.kind \in Kinds
      BY <2>1 DEF WellFormed, Messaging
  <2>5. nodeExists' \in BOOLEAN /\ created' \in BOOLEAN
      BY <2>2, <2>4 DEF Messaging
  <2>6. replies' \in [Workers -> Seq(Replies)]
    <3>1. [kind |-> m.kind, ok |-> ok] \in Replies
        BY <2>4 DEF Replies
    <3> HIDE DEF ok
    <3> QED
        BY <2>2, <3>1 DEF Messaging
  <2>7. published' \in Seq(Publishable)
    <3>1. m.kind # "create" => m \in Publishable
        BY <2>1 DEF WellFormed, Publishable
    <3> QED
        BY <2>2, <3>1 DEF Messaging
  <2>8. Messaging'
      BY <2>2, <2>3, <2>5, <2>6, <2>7 DEF Messaging
  <2>9. Connections'
      BY <2>2 DEF Connections
  <2> QED
      BY <1>2, <1>3, <2>8, <2>9
<1> QED
    BY <1>5, <1>6, <1>7, <1>8, <1>9 DEF Working

\* With at most one caller besides actuation, messages and answers are well
\* formed, the server never publishes the creation of its node, and no worker
\* but a running one has a connection (XMPPInterface.cpp:375-411, 594-621).
THEOREM TypeCorrect ==
    ASSUME OneOutside
    PROVE  Spec => []TypeOK
<1>1. Init => PointerInv /\ TypeInv
    BY PointerInit, TypeInit
<1>2. PointerInv /\ TypeInv /\ [Next]_vars => PointerInv' /\ TypeInv'
  <2> SUFFICES ASSUME PointerInv, TypeInv, [Next]_vars PROVE PointerInv' /\ TypeInv'
      OBVIOUS
  <2>1. PointerInv'
      BY PointerStep
  <2>2. CASE UNCHANGED vars
      BY <2>1, <2>2 DEF vars, callerVars, serverVars, TypeInv, Messaging, Numbering, Connections
  <2>3. CASE Next
      BY <2>1, <2>3, TypeCall, TypeCaller, TypeWorker DEF Next
  <2> QED
      BY <2>2, <2>3
<1>3. PointerInv /\ TypeInv => TypeOK
    BY DEF PointerInv, Types, WorkerStates, Places, TypeInv, Messaging, Numbering, Connections,
        WellFormed, Replies, Publishable, TypeOK
<1> QED
    BY <1>1, <1>2, <1>3, PTL DEF Spec
=============================================================================
