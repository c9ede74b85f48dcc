----------------------------- MODULE LockOrder -----------------------------
(***************************************************************************)
(* The locking structure of one chamomile node: the tokio RwLocks on the  *)
(* peer registry ("reg") and the buffer ("buf"), and the bounded inboxes  *)
(* of the sessions.  Every handler is abstracted to the sequence of lock   *)
(* acquisitions, lookups, channel sends and map updates it performs, in   *)
(* the code's order; an actor runs its current program one operation at a *)
(* time.  A Rust guard that is a temporary of an `if let` or `for`        *)
(* scrutinee lives until the end of that block, so the send inside the    *)
(* block happens with the lock held (server.rs 203, 309, 435, 478, 503).  *)
(*                                                                         *)
(* tokio's RwLock is fair: waiters are served in request order, so a      *)
(* reader queued behind a writer waits for it.  The sessions' code is not *)
(* in the source tree; their handlers are modelled from spec 4.5 and call *)
(* Global::upgrade / tmp_to_dht (global.rs 136-156).                       *)
(***************************************************************************)
EXTENDS Naturals, Sequences, FiniteSets, SequencesExt

CONSTANTS
    Sids,      \* session identities
    InboxCap,  \* capacity of a session inbox (new_session_channel)
    None       \* no writer

Disp == "disp"        \* the dispatcher task (server.rs 259-560)
Router == "router"    \* the inbound-router task (server.rs 121-256)
Task == "task"        \* the direct_stable / relay_stable tasks
Actors == {Disp, Router, Task} \cup Sids
Locks == {"reg", "buf"}
Maps == {"reg", "tmp"}

ASSUME InboxCap \in Nat \ {0} /\ None \notin Actors

VARIABLES
    lock,    \* lock -> [rd : readers, wr : writer or None, q : waiters]
    pc,      \* actor -> the rest of the program it is running
    live,    \* session -> its task is running
    where,   \* session -> "reg", "tmp" or "none": the map that holds its sender
    inbox    \* session -> the messages in its channel

vars == <<lock, pc, live, where, inbox>>

-----------------------------------------------------------------------------
(* Operations of a program. *)

\* A guard held across later operations, and its release.
Acq(l, m) == [op |-> "acq", l |-> l, m |-> m]
Rel(l) == [op |-> "rel", l |-> l]
\* A critical section with no await inside: the lock is taken, the map
\* update e is made and the guard is dropped, in one step.
Sec(l, m, e) == [op |-> "sec", l |-> l, m |-> m, e |-> e]
\* The actor waits in the queue of lock l.
Wait(l) == [op |-> "wait", l |-> l]
\* Look up a session of map m and send it k; "all" sends to every one, as
\* a broadcast does; otherwise the lookup may miss and the program goes on
\* with alt (the code's else branch).
Look(m, k, all, alt) == [op |-> "look", m |-> m, k |-> k, all |-> all, alt |-> alt]
SendOp(s, k, m) == [op |-> "send", s |-> s, k |-> k, m |-> m]
Exit == [op |-> "exit"]

MsgKinds == {"msg", "result", "close", "direct"}
Effects == {"none", "register", "addtmp", "untmp", "toreg", "unreg"}

\* SendMessage handlers (dispatcher).
\* StableConnect: exact session under the registry lock; else the Tmp session
\* under the buffer read lock; else add_connect under the buffer write lock.
StableConnectProg ==
    <<Acq("reg", "r"),
      Look("reg", "msg", FALSE,
           <<Rel("reg"), Acq("buf", "r"),
             Look("tmp", "msg", FALSE, <<Rel("buf"), Sec("buf", "w", "none")>>),
             Rel("buf")>>),
      Rel("reg")>>

\* StableResult: Tmp session, then registry, then Tmp again, then add_result.
StableResultProg ==
    <<Acq("buf", "r"),
      Look("tmp", "result", FALSE,
           <<Rel("buf"), Acq("reg", "r"),
             Look("reg", "result", FALSE,
                  <<Rel("reg"), Acq("buf", "r"),
                    Look("tmp", "result", FALSE, <<Rel("buf"), Sec("buf", "w", "none")>>),
                    Rel("buf")>>),
             Rel("reg")>>),
      Rel("buf")>>

\* StableDisconnect: Close to the stable session, under the registry lock.
StableDisconnectProg == <<Acq("reg", "r"), Look("reg", "close", FALSE, <<Rel("reg")>>), Rel("reg")>>

\* Data: Data or RelayData to the exact or closest session, under the lock.
DataProg == <<Acq("reg", "r"), Look("reg", "msg", FALSE, <<Rel("reg")>>), Rel("reg")>>

\* Broadcast: one Data to every registered session, the guard held throughout.
BroadcastProg == <<Acq("reg", "r"), Look("reg", "msg", TRUE, <<>>), Rel("reg")>>

\* NetworkState: the registry is read in one statement, the guard dropped
\* before the reply is sent.
NetworkStateProg == <<Sec("reg", "r", "none")>>

\* NetworkReboot: the guard is the `for` scrutinee's temporary, so it is held
\* across every trans_send(..).await of the loop (transport I/O, outside
\* this model), and other tasks run meanwhile.
NetworkRebootProg == <<Acq("reg", "r"), Rel("reg")>>

DispatcherProgs ==
    {StableConnectProg, StableResultProg, StableDisconnectProg, DataProg,
     BroadcastProg, NetworkStateProg, NetworkRebootProg}

\* The inbound router on a TransportRecvMessage: the blocklist check, then
\* is_relay with DirectIncoming sent under the guard, else add_dht under
\* the write lock and the help_dht read.
TransProg ==
    <<Sec("reg", "r", "none"),
      Acq("reg", "r"),
      Look("reg", "direct", FALSE,
           <<Rel("reg"), Sec("reg", "w", "register"), Sec("reg", "r", "none")>>),
      Rel("reg")>>
\* The Check timer reads the registry; the Clear timer writes the buffer.
CheckProg == <<Sec("reg", "r", "none")>>
ClearProg == <<Sec("buf", "w", "none")>>
RouterProgs == {TransProg, CheckProg, ClearProg}

\* A stable task that connected: add_tmp under the buffer write lock.
AddTmpProg == <<Sec("buf", "w", "addtmp")>>

\* upgrade / tmp_to_dht: remove_tmp under the buffer lock, then the registry
\* update under the registry lock: "toreg" when the peer becomes Stable (or
\* DHT again), "none" when tmp_to_dht refuses it.
UpgradeProg(v) == <<Sec("buf", "w", "untmp"), Sec("reg", "w", v)>>
\* Closure: the session removes itself from the registry and the Tmp map and
\* ends; a DirectIncoming updates its registry entry.
CloseProg == <<Sec("reg", "w", "unreg"), Sec("buf", "w", "untmp"), Exit>>
DirectProg == <<Sec("reg", "w", "none")>>

Handler(k) ==
    CASE k = "msg"    -> {<<>>}
      [] k = "result" -> {UpgradeProg("toreg"), UpgradeProg("none")}
      [] k = "close"  -> {CloseProg}
      [] k = "direct" -> {DirectProg}

-----------------------------------------------------------------------------
(* Map updates. *)

In(m) == {s \in Sids : live[s] /\ where[s] = m}
FreeSids == {s \in Sids : ~live[s] /\ pc[s] = <<>>}

\* A new session's sender enters a map: add_dht by the router (a refusal
\* when no session can be spawned), add_tmp by a stable task.
Spawn(m) ==
    \/ \E s \in FreeSids :
          /\ live' = [live EXCEPT ![s] = TRUE]
          /\ where' = [where EXCEPT ![s] = m]
          /\ inbox' = [inbox EXCEPT ![s] = <<>>]
    \/ FreeSids = {} /\ UNCHANGED <<live, where, inbox>>

\* Moves a session's own sender between the maps.
Move(a, from, to) ==
    /\ where' = [where EXCEPT ![a] = IF from = "any" \/ @ = from THEN to ELSE @]
    /\ UNCHANGED <<live, inbox>>

\* The update e, made by actor a inside its critical section.
Apply(a, e) ==
    CASE e = "none"     -> UNCHANGED <<live, where, inbox>>
      [] e = "register" -> Spawn("reg")
      [] e = "addtmp"   -> Spawn("tmp")
      [] e = "untmp"    -> Move(a, "tmp", "none")
      [] e = "toreg"    -> Move(a, "any", "reg")
      [] e = "unreg"    -> Move(a, "reg", "none")

-----------------------------------------------------------------------------
(* The lock. *)

Holds(a, l) == a \in lock[l].rd \/ lock[l].wr = a
Waiting(a, l) == \E i \in DOMAIN lock[l].q : lock[l].q[i].who = a
Compatible(l, m) == lock[l].wr = None /\ (m = "w" => lock[l].rd = {})

Head1(a) == Head(pc[a])
At(a, o) == pc[a] # <<>> /\ Head1(a).op = o

Take(l, a, m) == [lock EXCEPT ![l].rd = IF m = "r" THEN @ \cup {a} ELSE @,
                              ![l].wr = IF m = "w" THEN a ELSE @]
\* The lock after w is served: a held guard is recorded, a section is done.
Serve(l, w) == IF w.hold THEN Take(l, w.who, w.m) ELSE lock
Effect(w) == IF w.hold THEN UNCHANGED <<live, where, inbox>> ELSE Apply(w.who, w.e)

\* acquire(): served at once when no one waits and the lock allows it;
\* otherwise the actor joins the queue.
Request(a) ==
    /\ At(a, "acq") \/ At(a, "sec")
    /\ LET o == Head1(a)
           w == [who |-> a, m |-> o.m, hold |-> o.op = "acq",
                 e |-> IF o.op = "sec" THEN o.e ELSE "none"] IN
       \/ /\ lock[o.l].q = <<>> /\ Compatible(o.l, o.m)
          /\ lock' = Serve(o.l, w)
          /\ pc' = [pc EXCEPT ![a] = Tail(@)]
          /\ Effect(w)
       \/ /\ ~(lock[o.l].q = <<>> /\ Compatible(o.l, o.m))
          /\ lock' = [lock EXCEPT ![o.l].q = Append(@, w)]
          /\ pc' = [pc EXCEPT ![a] = <<Wait(o.l)>> \o Tail(@)]
          /\ UNCHANGED <<live, where, inbox>>

\* The semaphore serves the first waiter once the lock allows it.
Grant(l) ==
    /\ lock[l].q # <<>>
    /\ LET w == Head(lock[l].q) IN
       /\ Compatible(l, w.m)
       /\ lock' = [Serve(l, w) EXCEPT ![l].q = Tail(@)]
       /\ pc' = [pc EXCEPT ![w.who] = Tail(@)]
       /\ Effect(w)

Release(a) ==
    /\ At(a, "rel")
    /\ LET l == Head1(a).l IN
       lock' = [lock EXCEPT ![l].rd = @ \ {a},
                            ![l].wr = IF @ = a THEN None ELSE @]
    /\ pc' = [pc EXCEPT ![a] = Tail(@)]
    /\ UNCHANGED <<live, where, inbox>>

-----------------------------------------------------------------------------
(* Lookups and sends. *)

Sends(ss, k, m) == [i \in 1..Len(ss) |-> SendOp(ss[i], k, m)]

\* Mutant of DoLook: the guard is dropped before the send, as the spec's
\* discipline asks (the next operation is the release).
DoLookReleaseFirst(a) ==
    /\ At(a, "look")
    /\ LET o == Head1(a) IN
       \/ /\ o.all
          /\ pc' = [pc EXCEPT ![a] = <<Head(Tail(@))>> \o Sends(SetToSeq(In(o.m)), o.k, o.m)
                                     \o Tail(Tail(@))]
       \/ /\ ~o.all
          /\ \E s \in In(o.m) :
                pc' = [pc EXCEPT ![a] = <<Head(Tail(@)), SendOp(s, o.k, o.m)>> \o Tail(Tail(@))]
       \/ /\ ~o.all
          /\ pc' = [pc EXCEPT ![a] = o.alt]
    /\ UNCHANGED <<lock, live, where, inbox>>

\* The lookup, under the lock the program holds: the found sessions are sent
\* to before the guard is dropped; a miss continues with the else branch.
DoLook(a) ==
    /\ At(a, "look")
    /\ LET o == Head1(a) IN
       \/ /\ o.all
          /\ pc' = [pc EXCEPT ![a] = Sends(SetToSeq(In(o.m)), o.k, o.m) \o Tail(@)]
       \/ /\ ~o.all
          /\ \E s \in In(o.m) : pc' = [pc EXCEPT ![a] = <<SendOp(s, o.k, o.m)>> \o Tail(@)]
       \/ /\ ~o.all
          /\ pc' = [pc EXCEPT ![a] = o.alt]
    /\ UNCHANGED <<lock, live, where, inbox>>

\* Mutant of DoSend: the send does not wait for room in the inbox.
DoSendNoWait(a) ==
    /\ At(a, "send")
    /\ LET s == Head1(a).s IN inbox' = [inbox EXCEPT ![s] = Append(@, Head1(a).k)]
    /\ pc' = [pc EXCEPT ![a] = Tail(@)]
    /\ UNCHANGED <<lock, live, where>>

\* `let _ = sender.send(m).await`: waits while the inbox is full.  The error
\* of a send to a closed session is ignored by the code, but with the guard
\* held no session can close before the send (LockedSendTargetsCurrent).
DoSend(a) ==
    /\ At(a, "send")
    /\ LET s == Head1(a).s IN
       /\ Len(inbox[s]) < InboxCap
       /\ inbox' = [inbox EXCEPT ![s] = Append(@, Head1(a).k)]
    /\ pc' = [pc EXCEPT ![a] = Tail(@)]
    /\ UNCHANGED <<lock, live, where>>

\* The session task ends: its inbox is dropped with it (the failed
\* deliveries of its tids go to the application, outside this model).
DoExit(a) ==
    /\ At(a, "exit")
    /\ live' = [live EXCEPT ![a] = FALSE]
    /\ where' = [where EXCEPT ![a] = "none"]
    /\ inbox' = [inbox EXCEPT ![a] = <<>>]
    /\ pc' = [pc EXCEPT ![a] = Tail(@)]
    /\ UNCHANGED lock

\* One operation of an actor's program.
Step(a) == Request(a) \/ Release(a) \/ DoLook(a) \/ DoSend(a) \/ DoExit(a)

-----------------------------------------------------------------------------
(* Starting a program. *)

\* The dispatcher takes the application's next SendMessage.
Dispatch ==
    /\ pc[Disp] = <<>>
    /\ \E prog \in DispatcherProgs : pc' = [pc EXCEPT ![Disp] = prog]
    /\ UNCHANGED <<lock, live, where, inbox>>

\* The router's select!: a transport message or a timer.
RouterEvent ==
    /\ pc[Router] = <<>>
    /\ \E prog \in RouterProgs : pc' = [pc EXCEPT ![Router] = prog]
    /\ UNCHANGED <<lock, live, where, inbox>>

\* A spawned stable task finishes its handshake.
TaskConnected ==
    /\ pc[Task] = <<>>
    /\ pc' = [pc EXCEPT ![Task] = AddTmpProg]
    /\ UNCHANGED <<lock, live, where, inbox>>

\* A session takes the next message from its inbox.
SessionRecv(s) ==
    /\ live[s] /\ pc[s] = <<>> /\ inbox[s] # <<>>
    /\ \E prog \in Handler(Head(inbox[s])) : pc' = [pc EXCEPT ![s] = prog]
    /\ inbox' = [inbox EXCEPT ![s] = Tail(@)]
    /\ UNCHANGED <<lock, live, where>>

\* A frame from the remote peer: its StableResult, or its close.
SessionRemote(s) ==
    /\ live[s] /\ pc[s] = <<>>
    /\ \E prog \in Handler("result") \cup Handler("close") : pc' = [pc EXCEPT ![s] = prog]
    /\ UNCHANGED <<lock, live, where, inbox>>

-----------------------------------------------------------------------------

Init ==
    /\ lock = [l \in Locks |-> [rd |-> {}, wr |-> None, q |-> <<>>]]
    /\ pc = [a \in Actors |-> <<>>]
    /\ live = [s \in Sids |-> FALSE]
    /\ where = [s \in Sids |-> "none"]
    /\ inbox = [s \in Sids |-> <<>>]

Next ==
    \/ Dispatch \/ RouterEvent \/ TaskConnected
    \/ \E s \in Sids : SessionRecv(s) \/ SessionRemote(s)
    \/ \E a \in Actors : Step(a)
    \/ \E l \in Locks : Grant(l)

\* Every task is polled while it can make progress, and the semaphore hands
\* a released lock to the next waiter.  The application, the transports and
\* the remote peers (Dispatch, RouterEvent, TaskConnected, SessionRemote)
\* are not fair.
Fairness ==
    /\ \A a \in Actors : WF_vars(Step(a))
    /\ \A s \in Sids : WF_vars(SessionRecv(s))
    /\ \A l \in Locks : WF_vars(Grant(l))

Spec == Init /\ [][Next]_vars /\ Fairness

-----------------------------------------------------------------------------
(* Properties. *)

Ops == {Acq(l, m) : l \in Locks, m \in {"r", "w"}} \cup {Rel(l) : l \in Locks}
       \cup {Sec(l, m, e) : l \in Locks, m \in {"r", "w"}, e \in Effects}
       \cup {Wait(l) : l \in Locks} \cup {SendOp(s, k, m) : s \in Sids, k \in MsgKinds, m \in Maps}
       \cup {Exit}

TypeOK ==
    /\ \A l \in Locks :
          /\ lock[l].rd \subseteq Actors /\ lock[l].wr \in Actors \cup {None}
          /\ Len(lock[l].q) <= Cardinality(Actors)
    /\ \A a \in Actors : \A i \in DOMAIN pc[a] : pc[a][i].op = "look" \/ pc[a][i] \in Ops
    /\ live \in [Sids -> BOOLEAN]
    /\ where \in [Sids -> Maps \cup {"none"}]
    /\ \A s \in Sids : inbox[s] \in Seq(MsgKinds) /\ Len(inbox[s]) <= InboxCap

\* Why the code holds the guard across the send: every session a handler
\* found in the registry or the Tmp map and has not sent to yet is still in
\* that map and running, so no map update (closure, upgrade, tmp_to_dht)
\* slips between the lookup and the send.
LockedSendTargetsCurrent ==
    \A a \in Actors : \A i \in DOMAIN pc[a] :
       pc[a][i].op = "send" => live[pc[a][i].s] /\ where[pc[a][i].s] = pc[a][i].m

\* Spec 4.8: "no other lock MAY be held across a lock acquisition ... to
\* prevent deadlock": every task that asks for the registry or buffer lock
\* eventually gets it.
LockRequestsGranted ==
    \A a \in Actors, l \in Locks : Waiting(a, l) ~> Holds(a, l)

====
