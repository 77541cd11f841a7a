------------------------------- MODULE Outbox -------------------------------
(***************************************************************************)
(* What class XMPPWorker (libextendxmpp/XMPPWorker.h) promises whoever     *)
(* calls send(): transactions may be queued at any time, with or without a *)
(* connection, they are transmitted one by one in the order they were      *)
(* queued, each at most once, and only while a connection is up.  Stopping *)
(* and starting the worker, or losing the connection, loses none of them.  *)
(***************************************************************************)
EXTENDS Naturals, Sequences

CONSTANT Transactions

VARIABLES
    pending,        \* queued, not transmitted yet
    transmitted,    \* handed to the connection, in order
    up              \* a connection is up

vars == <<pending, transmitted, up>>

Init ==
    /\ pending = <<>>
    /\ transmitted = <<>>
    /\ up = FALSE

Enqueue(t) ==
    /\ pending' = Append(pending, t)
    /\ UNCHANGED <<transmitted, up>>

Transmit ==
    /\ up
    /\ pending # <<>>
    /\ transmitted' = Append(transmitted, Head(pending))
    /\ pending' = Tail(pending)
    /\ UNCHANGED up

Switch ==
    /\ up' = ~up
    /\ UNCHANGED <<pending, transmitted>>

Next == (\E t \in Transactions : Enqueue(t)) \/ Transmit \/ Switch

Spec == Init /\ [][Next]_vars
=============================================================================
