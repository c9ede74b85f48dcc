------------------------------ MODULE Overlay ------------------------------
(***************************************************************************)
(* One chamomile node (src/src/server.rs, src/src/global.rs): the peer    *)
(* registry (PeerList), the buffer (Buffer: pending stable connects and   *)
(* results, the Tmp map), the sessions, the dispatcher task that serves   *)
(* the application's SendMessage channel, the inbound-router task that    *)
(* serves the transports' TransportRecvMessage channel and its buffer     *)
(* sweep timer, and the direct_stable / relay_stable tasks the dispatcher *)
(* spawns.                                                                 *)
(*                                                                         *)
(* The dispatcher and the inbound router are translated from server.rs.   *)
(* PeerList, Buffer, Session, direct_stable and relay_stable are not in   *)
(* the source tree: they are modelled from the spec (sections 4.3-4.5).   *)
(* The dispatcher's StableConnect and StableResult handlers release the   *)
(* registry lock and re-take the buffer lock between their checks; each   *)
(* critical section is one step, so other tasks interleave between them. *)
(***************************************************************************)
EXTENDS Naturals, Sequences, FiniteSets, Bags, SequencesExt

CONSTANTS
    Self,          \* this node's PeerId
    Peers,         \* remote PeerIds
    BlockPeers,    \* config.block_peer_list
    Addrs,         \* remote socket addresses seen by the transports
    BlockAddrs,    \* config.blocklist
    Bootstrap,     \* peers of the allow list, dialled at start and on reboot
    Tids,          \* the non-zero transaction ids the application uses
    RequestKinds,  \* which tid-carrying requests the application sends
    Sids,          \* session identities: bounds the sessions ever spawned
    InboxCap,      \* capacity of a session inbox (bounded mpsc channel)
    NoEntry        \* absent entry of a map

ASSUME /\ Self \notin Peers
       /\ BlockPeers \subseteq Peers /\ Bootstrap \subseteq Peers
       /\ BlockAddrs \subseteq Addrs
       /\ 0 \notin Tids
       /\ RequestKinds \subseteq {"connect", "result", "data"}
       /\ NoEntry \notin Sids /\ InboxCap \in Nat \ {0}

VARIABLES
    reg,        \* PeerList: peer -> NoEntry or [cat, sid, direct]
    tmp,        \* Buffer Tmp: peer -> NoEntry or [sid, direct]
    connects,   \* Buffer Pending-connect: peer -> tids waiting ({}: no entry)
    results,    \* Buffer Pending-result: peer -> tids waiting
    sess,       \* session id -> [st, peer, direct, asked, inbox]
    tasks,      \* bag of running direct_stable / relay_stable tasks
    dials,      \* peers with a TransportSendMessage::Connect in flight
    disp,       \* the dispatcher task: idle, or between two locked steps
    requested,  \* tid -> kind of the request the application sent with it
    delivered   \* tid -> number of Delivery receipts the application got

vars == <<reg, tmp, connects, results, sess, tasks, dials, disp, requested,
          delivered>>

-----------------------------------------------------------------------------
(* Data. *)

MsgKinds == {"data", "connect", "result", "relay", "close", "direct"}
Msg(k, t, ok) == [k |-> k, tid |-> t, ok |-> ok]
Messages == [k : MsgKinds, tid : Tids \cup {0}, ok : BOOLEAN]

RegEntries == [cat : {"dht", "stable"}, sid : Sids, direct : BOOLEAN]
TmpEntries == [sid : Sids, direct : BOOLEAN]
Sessions == [st : {"free", "live", "closed"}, peer : Peers \cup {NoEntry},
             direct : BOOLEAN, asked : SUBSET Tids, inbox : Seq(Messages)]
Tasks == [peer : Peers, kind : {"connect", "result"}, via : Sids \cup {NoEntry},
          tid : Tids]
Idle == [step |-> "idle"]
Steps == {"sc_tmp", "sc_add", "sr_lookup", "sr_tmp", "sr_add"}

FreeSession == [st |-> "free", peer |-> NoEntry, direct |-> FALSE,
                asked |-> {}, inbox |-> <<>>]
NewSession(p, d, inbox) == [st |-> "live", peer |-> p, direct |-> d,
                            asked |-> {}, inbox |-> inbox]

Live(s) == sess[s].st = "live"
FreeSids == {s \in Sids : sess[s].st = "free"}

\* A send on a session's inbox: it fails, and the message is lost, once the
\* session task has dropped its receiver (every caller ignores the error).
Send(s, m) == IF Live(s) THEN [sess EXCEPT ![s].inbox = Append(@, m)] ELSE sess
\* Mutant of CanSend: the inbox is unbounded.
CanSendUnbounded(s) == TRUE
CanSend(s) == Len(sess[s].inbox) < InboxCap

\* Delivery receipts for the non-zero tids of T.
Deliver(T) == delivered' = [t \in Tids |-> IF t \in T THEN delivered[t] + 1
                                                       ELSE delivered[t]]

\* A peer has a Pending entry in buffer map m.
Pending(m, p) == m[p] # {}

-----------------------------------------------------------------------------
(* PeerList (spec 4.3). *)

Exact(p) == reg[p] # NoEntry
\* get(id) when id is absent: the closest DHT peer's session, inexact.
Closest(p) == {reg[q].sid : q \in {q \in Peers \ {p} : Exact(q) /\ reg[q].cat = "dht"}}
IsRelay(p) == Exact(p) /\ reg[p].cat = "stable" /\ ~reg[p].direct
\* add_dht refuses a peer already present or blocked.
CanAddDht(p) == ~Exact(p) /\ p \notin BlockPeers
AddDht(p, s) == [reg EXCEPT ![p] = [cat |-> "dht", sid |-> s, direct |-> TRUE]]
DhtToStable(p) == IF Exact(p) /\ reg[p].cat = "dht"
                  THEN [reg EXCEPT ![p].cat = "stable"] ELSE reg
\* add_stable: a peer already in the DHT is promoted with its own handles.
AddStable(p, s, d) == IF Exact(p) /\ reg[p].cat = "dht" THEN DhtToStable(p)
                      ELSE [reg EXCEPT ![p] = [cat |-> "stable", sid |-> s, direct |-> d]]

-----------------------------------------------------------------------------
(* Global helpers over the buffer and the registry (global.rs). *)

\* upgrade: remove_tmp; then add_stable, or dht_to_stable when not in Tmp.
Upgrade(p) ==
    /\ tmp' = [tmp EXCEPT ![p] = NoEntry]
    /\ reg' = IF tmp[p] # NoEntry THEN AddStable(p, tmp[p].sid, tmp[p].direct)
                                  ELSE DhtToStable(p)

\* tmp_to_dht: remove_tmp; a direct entry goes back to the DHT if add_dht takes it.
TmpToDht(p) ==
    /\ tmp' = [tmp EXCEPT ![p] = NoEntry]
    /\ reg' = IF tmp[p] # NoEntry /\ tmp[p].direct /\ CanAddDht(p)
              THEN AddDht(p, tmp[p].sid) ELSE reg

\* add_tmp: remove_connect, then add_tmp, under one buffer lock.
AddTmp(p, s, d) ==
    /\ connects' = [connects EXCEPT ![p] = {}]
    /\ tmp' = [tmp EXCEPT ![p] = [sid |-> s, direct |-> d]]
    /\ UNCHANGED results

\* add_all_tmp: remove_connect, remove_result, then add_tmp.
AddAllTmp(p, s, d) ==
    /\ connects' = [connects EXCEPT ![p] = {}]
    /\ results' = [results EXCEPT ![p] = {}]
    /\ tmp' = [tmp EXCEPT ![p] = [sid |-> s, direct |-> d]]

-----------------------------------------------------------------------------
(* Dispatcher task: one request of the application at a time (server.rs). *)

Fresh(t, kind) ==
    /\ disp = Idle
    /\ kind \in RequestKinds
    /\ requested[t] = "none"
    /\ requested' = [requested EXCEPT ![t] = kind]

\* SendMessage::StableConnect, up to the registry lookup: to self, or with
\* neither an entry nor a DHT peer to relay through, it fails; an exact entry gets the request on its session;
\* otherwise the closest session ss is kept and the registry lock dropped.
DispatchStableConnect(t, to, sock) ==
    /\ Fresh(t, "connect")
    /\ \/ /\ to = Self
          /\ Deliver({t})
          /\ UNCHANGED <<sess, disp>>
       \/ /\ to # Self /\ Exact(to) /\ CanSend(reg[to].sid)
          /\ sess' = Send(reg[to].sid, Msg("connect", t, FALSE))
          /\ UNCHANGED <<disp, delivered>>
       \/ /\ to # Self /\ ~Exact(to) /\ Closest(to) # {}
          /\ \E ss \in Closest(to) :
                disp' = [step |-> "sc_tmp", tid |-> t, to |-> to, sock |-> sock,
                         ok |-> FALSE, ss |-> ss]
          /\ UNCHANGED <<sess, delivered>>
       \/ /\ to # Self /\ ~Exact(to) /\ Closest(to) = {}
          /\ Deliver({t})
          /\ UNCHANGED <<sess, disp>>
    /\ UNCHANGED <<reg, tmp, connects, results, tasks, dials>>

\* The Tmp check of a StableConnect or StableResult, under the buffer read lock.
DispatchTmpCheck(step, next, kind) ==
    /\ disp.step = step
    /\ \/ /\ tmp[disp.to] # NoEntry /\ CanSend(tmp[disp.to].sid)
          /\ sess' = Send(tmp[disp.to].sid, Msg(kind, disp.tid, disp.ok))
          /\ disp' = Idle
       \/ /\ tmp[disp.to] = NoEntry
          /\ disp' = [disp EXCEPT !.step = next]
          /\ UNCHANGED sess
    /\ UNCHANGED <<reg, tmp, connects, results, tasks, dials, requested, delivered>>

\* The stable task for a new pending entry: direct_stable(tid, delivery, ..)
\* when the peer has a socket, relay_stable(tid, delivery, .., ss, ..)
\* through the closest session ss otherwise; the task answers its own tid.
StableTask(kind) == [peer |-> disp.to, kind |-> kind, tid |-> disp.tid,
                     via |-> IF disp.sock THEN NoEntry ELSE disp.ss]

\* add_connect / add_result under the buffer write lock: (tid, data) joins
\* the peer's entry; true (an entry existed) ends the handler, false spawns
\* the task with the tid and the delivery prefix.
DispatchAddPending(pending, kind) ==
    /\ pending' = [pending EXCEPT ![disp.to] = @ \cup {disp.tid}]
    /\ tasks' = IF Pending(pending, disp.to) THEN tasks
                ELSE tasks (+) SetToBag({StableTask(kind)})
    /\ disp' = Idle

SCTmpCheck == DispatchTmpCheck("sc_tmp", "sc_add", "connect")

SCAddConnect ==
    /\ disp.step = "sc_add"
    /\ DispatchAddPending(connects, "connect")
    /\ UNCHANGED <<reg, tmp, results, sess, dials, requested, delivered>>

\* SendMessage::StableResult, up to the first Tmp check.
DispatchStableResult(t, to, ok, sock) ==
    /\ Fresh(t, "result")
    /\ \/ /\ to = Self
          /\ Deliver({t})
          /\ UNCHANGED <<sess, disp>>
       \/ /\ to # Self /\ tmp[to] # NoEntry /\ CanSend(tmp[to].sid)
          /\ sess' = Send(tmp[to].sid, Msg("result", t, ok))
          /\ UNCHANGED <<disp, delivered>>
       \/ /\ to # Self /\ tmp[to] = NoEntry
          /\ disp' = [step |-> "sr_lookup", tid |-> t, to |-> to, sock |-> sock,
                      ok |-> ok, ss |-> NoEntry]
          /\ UNCHANGED <<sess, delivered>>
    /\ UNCHANGED <<reg, tmp, connects, results, tasks, dials>>

\* The registry lookup of a StableResult; an inexact refusal is dropped.
SRLookup ==
    /\ disp.step = "sr_lookup"
    /\ LET to == disp.to IN
       \/ /\ Exact(to) /\ CanSend(reg[to].sid)
          /\ sess' = Send(reg[to].sid, Msg("result", disp.tid, disp.ok))
          /\ disp' = Idle
          /\ UNCHANGED delivered
       \/ /\ ~Exact(to) /\ Closest(to) = {}
          /\ Deliver({disp.tid})
          /\ disp' = Idle
          /\ UNCHANGED sess
       \/ /\ ~Exact(to) /\ Closest(to) # {} /\ ~disp.ok
          /\ disp' = Idle
          /\ UNCHANGED <<sess, delivered>>
       \/ /\ ~Exact(to) /\ Closest(to) # {} /\ disp.ok
          /\ \E ss \in Closest(to) : disp' = [disp EXCEPT !.step = "sr_tmp", !.ss = ss]
          /\ UNCHANGED <<sess, delivered>>
    /\ UNCHANGED <<reg, tmp, connects, results, tasks, dials, requested>>

SRTmpCheck == DispatchTmpCheck("sr_tmp", "sr_add", "result")

SRAddResult ==
    /\ disp.step = "sr_add"
    /\ DispatchAddPending(results, "result")
    /\ UNCHANGED <<reg, tmp, connects, sess, dials, requested, delivered>>

\* SendMessage::StableDisconnect: Close to the session of an exact entry.
DispatchStableDisconnect(p) ==
    /\ disp = Idle
    /\ Exact(p) /\ CanSend(reg[p].sid)
    /\ sess' = Send(reg[p].sid, Msg("close", 0, FALSE))
    /\ UNCHANGED <<reg, tmp, connects, results, tasks, dials, disp, requested, delivered>>

\* SendMessage::Connect: a half-open session key and a transport Connect.
DispatchConnect(p) ==
    /\ disp = Idle
    /\ dials' = dials \cup {p}
    /\ UNCHANGED <<reg, tmp, connects, results, sess, tasks, disp, requested, delivered>>

\* SendMessage::DisConnect: peer_disconnect evicts the entry at that socket.
DispatchDisConnect(p) ==
    /\ disp = Idle
    /\ Exact(p)
    /\ reg' = [reg EXCEPT ![p] = NoEntry]
    /\ UNCHANGED <<tmp, connects, results, sess, tasks, dials, disp, requested, delivered>>

\* SendMessage::Data: to self it is delivered at once; an exact entry gets
\* Data(tid); an inexact lookup sends RelayData, without the tid, to the
\* closest session; an empty registry fails.
DispatchData(t, to) ==
    /\ Fresh(t, "data")
    /\ \/ /\ to = Self
          /\ Deliver({t})
          /\ UNCHANGED sess
       \/ /\ to # Self /\ Exact(to) /\ CanSend(reg[to].sid)
          /\ sess' = Send(reg[to].sid, Msg("data", t, FALSE))
          /\ UNCHANGED delivered
       \/ /\ to # Self /\ ~Exact(to)
          /\ \E ss \in Closest(to) :
                /\ CanSend(ss)
                /\ sess' = Send(ss, Msg("relay", 0, FALSE))
          /\ UNCHANGED delivered
       \/ /\ to # Self /\ ~Exact(to) /\ Closest(to) = {}
          /\ Deliver({t})
          /\ UNCHANGED sess
    /\ UNCHANGED <<reg, tmp, connects, results, tasks, dials, disp>>

\* SendMessage::NetworkReboot: dial every bootstrap peer again.
DispatchReboot ==
    /\ disp = Idle
    /\ dials' = dials \cup Bootstrap
    /\ UNCHANGED <<reg, tmp, connects, results, sess, tasks, disp, requested, delivered>>

-----------------------------------------------------------------------------
(* Inbound-router task (server.rs): a stream the transports accepted, or  *)
(* the answer to one of our dials (is_self), in the order of the checks. *)

\* The endpoint is closed; nothing else changes.
Refuse == UNCHANGED <<reg, tmp, connects, results, sess, tasks, disp, requested, delivered>>

Inbound(p, addr, isSelf, keyOk) ==
    /\ isSelf => p \in dials
    /\ dials' = IF isSelf THEN dials \ {p} ELSE dials
    /\ \/ addr \in BlockAddrs /\ Refuse
       \/ /\ addr \notin BlockAddrs
          /\ \/ p = Self \/ p \in BlockPeers
             \/ ~keyOk          \* complete / complete_remote failed
          /\ Refuse
       \/ /\ addr \notin BlockAddrs /\ p # Self /\ p \notin BlockPeers /\ keyOk
          /\ \/ /\ IsRelay(p) /\ CanSend(reg[p].sid)
                /\ sess' = Send(reg[p].sid, Msg("direct", 0, FALSE))
                /\ UNCHANGED <<reg, tmp, connects, results, tasks, disp, requested, delivered>>
             \/ ~IsRelay(p) /\ ~CanAddDht(p) /\ Refuse
             \/ /\ ~IsRelay(p) /\ CanAddDht(p)
                /\ \E s \in FreeSids :
                      /\ reg' = AddDht(p, s)
                      /\ sess' = [sess EXCEPT ![s] = NewSession(p, TRUE, <<>>)]
                /\ UNCHANGED <<tmp, connects, results, tasks, disp, requested, delivered>>

\* The Clear timer: buffer.write().await.timer_clear().await (server.rs
\* 251-253) drops the entries older than the window, any of the three maps
\* of any peer, in one call.  Its result is discarded, and the buffer was
\* made by Buffer::init() (line 101) with no channel to the application,
\* so no Delivery is sent for the dropped tids.
Entries == {<<m, p>> : m \in {"connect", "result", "tmp"}, p \in Peers}
Present(e) == CASE e[1] = "connect" -> Pending(connects, e[2])
                [] e[1] = "result"  -> Pending(results, e[2])
                [] e[1] = "tmp"     -> tmp[e[2]] # NoEntry
Sweep ==
    \E old \in SUBSET {e \in Entries : Present(e)} \ {{}} :
       /\ connects' = [p \in Peers |-> IF <<"connect", p>> \in old THEN {} ELSE connects[p]]
       /\ results' = [p \in Peers |-> IF <<"result", p>> \in old THEN {} ELSE results[p]]
       /\ tmp' = [p \in Peers |-> IF <<"tmp", p>> \in old THEN NoEntry ELSE tmp[p]]
       /\ UNCHANGED <<reg, sess, tasks, dials, disp, requested, delivered>>

-----------------------------------------------------------------------------
(* direct_stable / relay_stable tasks (spec 4.6, modelled from the spec). *)

\* The handshake succeeded: a new session enters Tmp, and the (tid, data)
\* pairs add_tmp / add_all_tmp take from the buffer are its first frames.
TaskSucceed(t) ==
    /\ t.via # NoEntry => Live(t.via)
    /\ \E s \in FreeSids :
         LET p == t.peer
             d == t.via = NoEntry
             firstFrames == SetToSeq({Msg("connect", x, FALSE) : x \in connects[p]})
                            \o (IF t.kind = "result"
                                THEN SetToSeq({Msg("result", x, TRUE) : x \in results[p]})
                                ELSE <<>>)
         IN /\ IF t.kind = "connect" THEN AddTmp(p, s, d) ELSE AddAllTmp(p, s, d)
            /\ sess' = [sess EXCEPT ![s] = NewSession(p, d, firstFrames)]
    /\ tasks' = tasks (-) SetToBag({t})
    /\ UNCHANGED <<reg, dials, disp, requested, delivered>>

\* The connection could not be made: the task fails the tid it was spawned
\* with, out of its own arguments (tid and the delivery prefix).  The data
\* of the requests is in the buffer, which only add_tmp takes it from, so
\* the Pending entry stays until timer_clear drops it.
TaskFail(t) ==
    /\ Deliver({t.tid})
    /\ tasks' = tasks (-) SetToBag({t})
    /\ UNCHANGED <<reg, tmp, connects, results, sess, dials, disp, requested>>

-----------------------------------------------------------------------------
(* Session tasks (spec 4.5, modelled from the spec). *)

Head1(s) == Head(sess[s].inbox)
Pop(s) == [sess EXCEPT ![s].inbox = Tail(@)]

\* Closure: the session removes its own registry and Tmp entries and fails
\* the tids left in its inbox and the StableConnects still unanswered.
CloseSession(s, rest) ==
    LET p == sess[s].peer IN
    /\ sess' = [sess EXCEPT ![s] = [FreeSession EXCEPT !.st = "closed"]]
    /\ reg' = IF Exact(p) /\ reg[p].sid = s THEN [reg EXCEPT ![p] = NoEntry] ELSE reg
    /\ tmp' = IF tmp[p] # NoEntry /\ tmp[p].sid = s THEN [tmp EXCEPT ![p] = NoEntry] ELSE tmp
    /\ Deliver({rest[i].tid : i \in DOMAIN rest} \cup sess[s].asked)
    /\ UNCHANGED <<connects, results, tasks, dials, disp, requested>>

\* Data or RelayData from the inbox is written to the peer and a Data tid
\* answered; a StableConnect is written and its tid waits for the peer's
\* StableResult (spec 8, scenario 2).
HandleSend(s) ==
    /\ Live(s) /\ sess[s].inbox # <<>>
    /\ Head1(s).k \in {"data", "connect", "relay"}
    /\ \/ /\ Head1(s).k = "connect"
          /\ sess' = [Pop(s) EXCEPT ![s].asked = @ \cup {Head1(s).tid}]
          /\ UNCHANGED delivered
       \/ /\ Head1(s).k # "connect"
          /\ sess' = Pop(s)
          /\ Deliver({Head1(s).tid})
    /\ UNCHANGED <<reg, tmp, connects, results, tasks, dials, disp, requested>>

\* StableResult from the inbox: written to the peer, then upgrade on
\* is_ok, tmp_to_dht otherwise.
HandleResult(s) ==
    /\ Live(s) /\ sess[s].inbox # <<>>
    /\ Head1(s).k = "result"
    /\ sess' = Pop(s)
    /\ Deliver({Head1(s).tid})
    /\ IF Head1(s).ok THEN Upgrade(sess[s].peer) ELSE TmpToDht(sess[s].peer)
    /\ UNCHANGED <<connects, results, tasks, dials, disp, requested>>

\* DirectIncoming: the relay session adopts the new direct endpoint.
HandleDirectIncoming(s) ==
    LET p == sess[s].peer IN
    /\ Live(s) /\ sess[s].inbox # <<>>
    /\ Head1(s).k = "direct"
    /\ sess' = [Pop(s) EXCEPT ![s].direct = TRUE]
    /\ reg' = IF Exact(p) /\ reg[p].sid = s THEN [reg EXCEPT ![p].direct = TRUE] ELSE reg
    /\ UNCHANGED <<tmp, connects, results, tasks, dials, disp, requested, delivered>>

HandleClose(s) ==
    /\ Live(s) /\ sess[s].inbox # <<>>
    /\ Head1(s).k = "close"
    /\ CloseSession(s, Tail(sess[s].inbox))

\* The peer answers the StableConnects we sent it: their tids are answered
\* with its verdict, and the peer is upgraded or released.
RemoteStableResult(s, ok) ==
    /\ Live(s) /\ sess[s].asked # {}
    /\ sess' = [sess EXCEPT ![s].asked = {}]
    /\ Deliver(sess[s].asked)
    /\ IF ok THEN Upgrade(sess[s].peer) ELSE TmpToDht(sess[s].peer)
    /\ UNCHANGED <<connects, results, tasks, dials, disp, requested>>

\* The peer closes, or the transport fails.
RemoteClose(s) ==
    /\ Live(s)
    /\ CloseSession(s, sess[s].inbox)

-----------------------------------------------------------------------------
(* The specification. *)

\* start(): the registry is empty (loaded peers are only bootstrap hints)
\* and every bootstrap peer is dialled.
Init ==
    /\ reg = [p \in Peers |-> NoEntry]
    /\ tmp = [p \in Peers |-> NoEntry]
    /\ connects = [p \in Peers |-> {}]
    /\ results = [p \in Peers |-> {}]
    /\ sess = [s \in Sids |-> FreeSession]
    /\ tasks = EmptyBag
    /\ dials = Bootstrap
    /\ disp = Idle
    /\ requested = [t \in Tids |-> "none"]
    /\ delivered = [t \in Tids |-> 0]

Targets == Peers \cup {Self}

Application ==
    \/ \E t \in Tids, to \in Targets, sock \in BOOLEAN :
          DispatchStableConnect(t, to, sock)
    \/ \E t \in Tids, to \in Targets, ok, sock \in BOOLEAN :
          DispatchStableResult(t, to, ok, sock)
    \/ \E t \in Tids, to \in Targets : DispatchData(t, to)
    \/ \E p \in Peers : DispatchStableDisconnect(p) \/ DispatchDisConnect(p)
    \/ \E p \in Targets : DispatchConnect(p)
    \/ DispatchReboot

Dispatcher == SCTmpCheck \/ SCAddConnect \/ SRLookup \/ SRTmpCheck \/ SRAddResult

Network ==
    \/ \E p \in Targets, addr \in Addrs, isSelf, keyOk \in BOOLEAN :
          Inbound(p, addr, isSelf, keyOk)
    \/ \E s \in Sids : RemoteClose(s) \/ \E ok \in BOOLEAN : RemoteStableResult(s, ok)

Handle(s) == HandleSend(s) \/ HandleResult(s) \/ HandleDirectIncoming(s) \/ HandleClose(s)
TaskDone(t) == t \in BagToSet(tasks) /\ (TaskSucceed(t) \/ TaskFail(t))

Next ==
    \/ Application
    \/ Dispatcher
    \/ Network
    \/ Sweep
    \/ \E t \in Tasks : TaskDone(t)
    \/ \E s \in Sids : Handle(s)

\* The node's own tasks are scheduled fairly: the dispatcher finishes the
\* request it took, every session drains its inbox, and every spawned
\* connection attempt ends.  The application and the network are not fair,
\* nor is the Clear timer: every transport message recreates its sleep
\* (server.rs 133-138), so steady traffic starves it.
Fairness ==
    /\ WF_vars(Dispatcher)
    /\ \A s \in Sids : WF_vars(Handle(s))
    /\ \A t \in Tasks : WF_vars(TaskDone(t))

Spec == Init /\ [][Next]_vars /\ Fairness

-----------------------------------------------------------------------------
(* Properties. *)

TypeOK ==
    /\ reg \in [Peers -> RegEntries \cup {NoEntry}]
    /\ tmp \in [Peers -> TmpEntries \cup {NoEntry}]
    /\ connects \in [Peers -> SUBSET Tids]
    /\ results \in [Peers -> SUBSET Tids]
    /\ sess \in [Sids -> Sessions]
    /\ \A s \in Sids : Len(sess[s].inbox) <= InboxCap + Cardinality(Tids)
    /\ IsABag(tasks) /\ BagToSet(tasks) \subseteq Tasks
    /\ dials \subseteq Targets
    /\ disp \in {Idle} \cup [step : Steps, tid : Tids, to : Peers, sock : BOOLEAN,
                            ok : BOOLEAN, ss : Sids \cup {NoEntry}]
    /\ requested \in [Tids -> {"none"} \cup RequestKinds]
    /\ delivered \in [Tids -> Nat]

\* The refinement mapping to the promise of Deliveries is the identity on
\* the application's view: the tids it sent and the receipts it got.
Abs == INSTANCE Deliveries WITH Kinds <- RequestKinds, req <- requested, ans <- delivered

\* The node implements the safety promise of Deliveries (spec I6): whichever
\* of the dispatcher, a session (on send, on the peer's StableResult, or
\* when it drains its inbox on close) or a stable task answers a tid, it
\* answers only a tid the application sent, and only once.  At stake are
\* the hand-over of Pending tids by add_tmp and add_all_tmp (global.rs
\* 113-133), which take the whole entry of a peer whichever task created
\* it, and a task failing the tid it was spawned with.
DeliveriesSafe == Abs!Spec

\* A tid in a Pending entry is being answered by someone.
InSession(t) ==
    \E s \in Sids : Live(s) /\ (t \in sess[s].asked \/ \E i \in DOMAIN sess[s].inbox : sess[s].inbox[i].tid = t)

\* Spec 4.4 and 5: a tid in a Pending entry (the one a task was spawned
\* for, or one add_connect / add_result coalesced into it) is eventually
\* answered or handed to a live session by add_tmp, also when timer_clear
\* (server.rs 251-253) drops the entry ("every drop of a Pending entry
\* MUST synthesize a failed Delivery").
PendingAnswered ==
    \A t \in Tids : (\E p \in Peers : t \in connects[p] \cup results[p])
                     ~> (delivered[t] > 0 \/ InSession(t))

\* Spec I6 / P2: every request with a non-zero tid is eventually answered.
EveryRequestDelivered ==
    \A t \in Tids : requested[t] # "none" ~> delivered[t] > 0

\* Spec I5: a peer with a pending stable connect or result is not Stable.
PendingNotStable ==
    \A p \in Peers :
       connects[p] \cup results[p] # {} => ~(Exact(p) /\ reg[p].cat = "stable")

\* Spec 4.7 step 6: add_dht refusing a known peer prevents duplicate
\* sessions: the registry and the Tmp map never name two sessions of a peer.
NoDuplicateSession ==
    \A p \in Peers : Exact(p) /\ tmp[p] # NoEntry => reg[p].sid = tmp[p].sid

=============================================================================
