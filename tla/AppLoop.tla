------------------------------ MODULE AppLoop ------------------------------
(***************************************************************************)
(* An application driver composed with the node's two application         *)
(* channels.  The drivers are the example programs (src/examples): each   *)
(* sends its start-up requests, then loops on recv.recv().await and may   *)
(* answer a message with send.send(..).await.  The node's dispatcher      *)
(* (server.rs 259-560) loops on self_receiver.recv().await and answers     *)
(* some requests with global.out_send(..).await (global.rs 106-111) into   *)
(* the application's channel.  Sessions and the router also out_send:      *)
(* network data, StableConnect / StableResult from peers, NetworkLost.     *)
(*                                                                         *)
(* Both channels are bounded tokio mpsc channels.  A send waits for a      *)
(* permit; permits are handed out in the order senders asked for them.    *)
(* Payloads are abstracted to two flags: whether the data came from the   *)
(* node itself, and whether it is the [9,9,9,9] echo of the permissionless *)
(* example.  A tid is 0 or some non-zero value.                            *)
(***************************************************************************)
EXTENDS Naturals, Sequences, SequencesExt

CONSTANTS
    Driver,    \* "permissioned", "permissionless" or "relay"
    NodeCap,   \* capacity of the application -> dispatcher channel
    AppCap,    \* capacity of the node -> application channel
    MaxNet,    \* bound on messages from sessions and the router
    NoMsg      \* the network sender has nothing to send

ASSUME Driver \in {"permissioned", "permissionless", "relay"}
       /\ NodeCap \in Nat \ {0} /\ AppCap \in Nat \ {0} /\ MaxNet \in Nat

VARIABLES
    args,      \* how many of the optional command-line arguments were given
    aout,      \* the requests the driver still has to send, head first
    first,     \* relay.rs: first_data
    toNode,    \* the SendMessage channel
    dq,        \* the out_sends the dispatcher still has to make for a request
    toApp,     \* the ReceiveMessage channel
    waitq,     \* senders waiting for a permit of toApp, in order
    netMsg,    \* what the network side is sending, or NoMsg
    netLeft    \* messages the network side may still produce

vars == <<args, aout, first, toNode, dq, toApp, waitq, netMsg, netLeft>>

\* SendMessage: the kind, whether the tid is non-zero, whether the target
\* is the node itself, and whether the payload is the echo.
Req(k, tid, self, echo) == [k |-> k, tid |-> tid, self |-> self, echo |-> echo]
\* ReceiveMessage: the kind, whether it comes from the node itself, echo.
Rcv(k, self, echo) == [k |-> k, self |-> self, echo |-> echo]

Delivery == Rcv("delivery", FALSE, FALSE)
NetMsgs ==
    {Rcv("data", FALSE, e) : e \in BOOLEAN} \cup
    {Rcv(k, FALSE, FALSE) : k \in {"stableconnect", "stableresult", "delivery",
                                   "networklost", "leave", "resultconnect"}}

-----------------------------------------------------------------------------
(* The drivers. *)

\* permissioned.rs 31-37: Connect when a remote address is given.
PermissionedStart(n) == IF n >= 1 THEN <<Req("connect", FALSE, FALSE, FALSE)>> ELSE <<>>

\* permissioned.rs 39-67: a StableConnect is accepted with tid 0.
PermissionedReact(m) ==
    IF m.k = "stableconnect" THEN <<Req("stableresult", FALSE, FALSE, FALSE)>> ELSE <<>>

\* permissionless.rs 36-64: Connect, then (after a sleep) a Gossip broadcast.
PermissionlessStart(n) ==
    IF n >= 1 THEN <<Req("connect", FALSE, FALSE, FALSE), Req("broadcast", FALSE, FALSE, FALSE)>>
    ELSE <<>>

\* permissionless.rs 68-122: data other than [9,9,9,9] is answered by
\* Data(9999, own id, [9,9,9,9]); a StableConnect by StableResult(2, ..).
PermissionlessReact(m) ==
    CASE m.k = "data" /\ ~m.echo -> <<Req("data", TRUE, TRUE, TRUE)>>
      [] m.k = "stableconnect" -> <<Req("stableresult", TRUE, FALSE, FALSE)>>
      [] OTHER -> <<>>

\* relay.rs 34-55: Connect, and with a third argument StableConnect(1, ..).
RelayStart(n) ==
    IF n = 0 THEN <<>>
    ELSE <<Req("connect", FALSE, FALSE, FALSE)>> \o
         (IF n = 2 THEN <<Req("stableconnect", TRUE, FALSE, FALSE)>> ELSE <<>>)

\* relay.rs 57-131: the first data is sent back to its sender with tid 2
\* (and with a third argument a Connect follows); a StableConnect gets
\* StableResult(3, ..); a StableResult is followed by Data(4, own id, ..),
\* since peer_id there is the node's own id.
RelayReact(m) ==
    CASE m.k = "data" /\ first ->
             <<Req("data", TRUE, m.self, m.echo)>> \o
             (IF args = 2 THEN <<Req("connect", FALSE, FALSE, FALSE)>> ELSE <<>>)
      [] m.k = "stableconnect" -> <<Req("stableresult", TRUE, FALSE, FALSE)>>
      [] m.k = "stableresult" -> <<Req("data", TRUE, TRUE, FALSE)>>
      [] OTHER -> <<>>

StartSends(n) ==
    CASE Driver = "permissioned" -> PermissionedStart(n)
      [] Driver = "permissionless" -> PermissionlessStart(n)
      [] Driver = "relay" -> RelayStart(n)

React(m) ==
    CASE Driver = "permissioned" -> PermissionedReact(m)
      [] Driver = "permissionless" -> PermissionlessReact(m)
      [] Driver = "relay" -> RelayReact(m)

MaxArgs == IF Driver = "relay" THEN 2 ELSE 1

-----------------------------------------------------------------------------
(* The dispatcher's out_sends for one request: every sequence the code    *)
(* may produce, the registry lookup being found or missed.               *)

Failed(r) == IF r.tid THEN <<Delivery>> ELSE <<>>

\* server.rs 262-295: to self, or no route: a failure Delivery if tid != 0;
\* otherwise the request goes to a session or a stable task.
StableConnectOuts(r) == IF r.self THEN {Failed(r)} ELSE {Failed(r), <<>>}

\* server.rs 339-376: the same for StableResult.
StableResultOuts(r) == StableConnectOuts(r)

\* server.rs 459-499: data to self is answered by a Delivery (tid != 0)
\* and then by the Data itself; otherwise it goes to a session, or the
\* lookup misses and a failure Delivery is sent, under the registry guard.
DataOuts(r) ==
    IF r.self THEN {Failed(r) \o <<Rcv("data", TRUE, r.echo)>>}
    ELSE {<<>>, Failed(r)}

\* Connect (441-450) and Broadcast (501-512) do not out_send.
Outs(r) ==
    CASE r.k = "stableconnect" -> StableConnectOuts(r)
      [] r.k = "stableresult" -> StableResultOuts(r)
      [] r.k = "data" -> DataOuts(r)
      [] OTHER -> {<<>>}

-----------------------------------------------------------------------------

Init ==
    /\ args \in 0..MaxArgs
    /\ aout = StartSends(args)
    /\ first = TRUE
    /\ toNode = <<>> /\ dq = <<>>
    /\ toApp = <<>> /\ waitq = <<>>
    /\ netMsg = NoMsg /\ netLeft = MaxNet

\* The driver's send.send(r).await: it waits while the channel is full.
AppSend ==
    /\ aout # <<>> /\ Len(toNode) < NodeCap
    /\ toNode' = Append(toNode, Head(aout))
    /\ aout' = Tail(aout)
    /\ UNCHANGED <<args, first, dq, toApp, waitq, netMsg, netLeft>>

\* The driver's recv.recv().await and the match arm it runs.
AppRecv ==
    /\ aout = <<>> /\ toApp # <<>>
    /\ aout' = React(Head(toApp))
    /\ first' = IF Driver = "relay" /\ Head(toApp).k = "data" THEN FALSE ELSE first
    /\ toApp' = Tail(toApp)
    /\ UNCHANGED <<args, toNode, dq, waitq, netMsg, netLeft>>

\* The dispatcher takes the next request.
DispatchRecv ==
    /\ dq = <<>> /\ toNode # <<>>
    /\ dq' \in Outs(Head(toNode))
    /\ toNode' = Tail(toNode)
    /\ UNCHANGED <<args, aout, first, toApp, waitq, netMsg, netLeft>>

Waiting(s) == s \in ToSet(waitq)
HasPermit == waitq = <<>> /\ Len(toApp) < AppCap

\* The dispatcher's global.out_send(m).await.
DispatchOut ==
    /\ dq # <<>> /\ ~Waiting("disp")
    /\ \/ HasPermit /\ toApp' = Append(toApp, Head(dq)) /\ dq' = Tail(dq)
                    /\ UNCHANGED waitq
       \/ ~HasPermit /\ waitq' = Append(waitq, "disp") /\ UNCHANGED <<toApp, dq>>
    /\ UNCHANGED <<args, aout, first, toNode, netMsg, netLeft>>

\* A session or the router out_sends a message from the network.
NetSend ==
    /\ netMsg = NoMsg /\ netLeft > 0
    /\ \E m \in NetMsgs :
          \/ HasPermit /\ toApp' = Append(toApp, m) /\ UNCHANGED <<waitq, netMsg>>
          \/ ~HasPermit /\ waitq' = Append(waitq, "net") /\ netMsg' = m
                        /\ UNCHANGED toApp
    /\ netLeft' = netLeft - 1
    /\ UNCHANGED <<args, aout, first, toNode, dq>>

\* A permit is freed and goes to the first waiting sender.
Grant ==
    /\ waitq # <<>> /\ Len(toApp) < AppCap
    /\ toApp' = Append(toApp, IF Head(waitq) = "disp" THEN Head(dq) ELSE netMsg)
    /\ dq' = IF Head(waitq) = "disp" THEN Tail(dq) ELSE dq
    /\ netMsg' = IF Head(waitq) = "net" THEN NoMsg ELSE netMsg
    /\ waitq' = Tail(waitq)
    /\ UNCHANGED <<args, aout, first, toNode, netLeft>>

Next == AppSend \/ AppRecv \/ DispatchRecv \/ DispatchOut \/ NetSend \/ Grant

Spec == Init /\ [][Next]_vars

-----------------------------------------------------------------------------

\* The application waits for room in the dispatcher's channel, and the
\* dispatcher waits for room in the application's, which is full.
AppBlocked == aout # <<>> /\ Len(toNode) = NodeCap
DispBlocked == Waiting("disp") /\ Len(toApp) = AppCap

\* Spec P2 bounds the time to each Delivery, and spec 9 has the tasks talk
\* only through channels.  The dispatcher and the application are never each
\* waiting for room in the other's channel: once they are, only the
\* application drains toApp and only the dispatcher drains toNode, so
\* neither moves again and no later Delivery reaches the application.
NoWaitCycle == ~(AppBlocked /\ DispBlocked)

====
