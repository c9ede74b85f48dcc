# TLA+ models of chamomile

These are the TLA+ models of chamomile, a Kademlia-style P2P overlay (`src/src/server.rs`, `src/src/global.rs`,
`src/types/src/types.rs`). The modules model one node. They cover its peer registry, its buffer of pending stable
connections, its sessions, and the task that serves the application's requests. They also cover the task that
serves the transports, the locks and channels these tasks share, the router's timers, and the persistence of the
node's identity key, and the example applications that drive it. Two pure modules model the PeerId hex codec and TransportType's conversions.

## 1. The system

| Part | Where | State | Operations |
|---|---|---|---|
| Dispatcher (spec C6) | server.rs 259-560 | none of its own; it reads and writes the registry and buffer under locks | StableConnect, StableResult, StableDisconnect, Connect, DisConnect, Data, Broadcast, Stream, NetworkState, NetworkReboot |
| Inbound router (spec C7) and timers | server.rs 121-256 | none of its own | TransportRecvMessage (block checks, key completion, is_relay → DirectIncoming, add_dht + new session); the Clear timer (`Buffer::timer_clear`); the Check timer (NetworkLost) |
| Startup | server.rs 36-117, 563 | the key file under db_dir | create the directory, read or generate and write the identity key, bind, spawn, return the PeerId |
| Global helpers | global.rs | `transports` map | trans_send, out_send, add_tmp, add_all_tmp, upgrade, tmp_to_dht, stable_to_dht, generate_remote / complete_remote |
| PeerList (C3) | not in src/ (spec 4.3) | DHT and Stable peers, each with its session sender and a direct or relay flag | get (exact or closest), is_relay, add_dht, add_stable, dht_to_stable, remove_* |
| Buffer (C4) | not in src/ (spec 4.4) | Pending-connect and Pending-result tids per peer; the Tmp map of sessions not yet in the registry | add_connect, add_result, remove_connect, remove_result, add_tmp, remove_tmp, get_tmp_session, timer_clear |
| Session (C5) and the direct_stable / relay_stable tasks | not in src/ (spec 4.5-4.6) | a bounded inbox per session | send frames, answer StableResult, adopt a direct endpoint, close |
| PeerId codec | types.rs 46-67 | none | to_hex, from_hex |
| TransportType | types.rs 86-132 | none | from_str, to_str, from_byte, to_byte |
| Example drivers | src/examples/*.rs | the application's side of the two channels | start-up requests, the recv loop's answers |

The tasks interact through `tokio::sync::RwLock`s on the registry and the buffer, and through bounded
mpsc channels to the sessions. The dispatcher and the router both read the registry and send into
session inboxes. Sessions and stable tasks write the registry and the buffer (upgrade, tmp_to_dht,
closure).

No critical section spans the whole of a dispatcher request. StableConnect (server.rs 262-337) takes
the registry lock and releases it at line 306. It then takes the buffer read lock for the Tmp check
(309) and the buffer write lock for add_connect (316). StableResult has four such sections (357, 366,
402, 411). Any other task can run between them.

Some guards are held across sends instead. A guard that is a temporary of an `if let` or `for`
scrutinee lives until the end of the block. So the `.send().await` inside the block runs with the lock
held (server.rs 203, 309, 435, 478, 503).

## 2. The modules

**Deliveries.tla** is the abstract specification of what the node promises the application about
transaction ids (spec I6, P2). A tid is answered by at most one Delivery, and only after it was sent.
`Ask` sends a request, which may be answered in the same step. `Answer(T)` answers a set of open tids
at once, as a closing session does.

**Overlay.tla** models the node's registry, buffer, sessions and tasks, one atomic step per locked
section of the code. Its variables:

- `reg` is the PeerList: peer ↦ NoEntry or `[cat, sid, direct]`.
- `tmp` is the buffer's Tmp map. `connects` and `results` are the Pending maps, as sets of tids.
- `sess` holds the sessions. Each has a peer, a direct flag, an "asked" flag meaning the peer owes a
  StableResult, and a bounded `inbox`.
- `tasks` is the bag of running stable tasks.
- `dials` is the set of outgoing Connects in flight.
- `disp` is where the dispatcher stands between two locked steps.
- `requested` and `delivered` are what the application sent and received, per tid.

The actions:

- Each SendMessage handler is an action (`DispatchStableConnect`, `DispatchStableResult`, `DispatchData`,
  `DispatchConnect`, `DispatchDisConnect`, `DispatchStableDisconnect`, `DispatchReboot`).
- `DispatchStableConnect` and `DispatchStableResult` are split at the code's lock boundaries, into
  `SCTmpCheck`/`SCAddConnect` and `SRLookup`/`SRTmpCheck`/`SRAddResult`. `disp` carries the values the
  code keeps in locals across the split: the sender `ss` it cloned, and the tid.
- A send into a session is enabled only while the inbox has room (`CanSend`). This is the `.send().await`
  of a bounded channel. A send to a closed session is dropped (`Send`), as `let _ =` drops the error.
- `Inbound` is the whole TransportRecvMessage branch, in its order:
  1. the blocked address;
  2. the own id, or a blocked peer;
  3. key completion (`keyOk`);
  4. is_relay (DirectIncoming);
  5. add_dht, where a refusal closes the endpoint;
  6. a new session.
- `Sweep` is the Clear timer (server.rs 251-253): `timer_clear` drops any non-empty set of the Tmp and
  Pending entries. Its result is discarded and the buffer has no channel to the application, so it
  answers no tid.
- `TaskSucceed` and `TaskFail` are the spawned direct_stable / relay_stable tasks. A task carries the
  tid it was spawned with (server.rs 325-336); the entry add_connect / add_result made holds that tid
  and every tid coalesced into it (318). A success takes the peer's entries through `add_tmp` /
  `add_all_tmp` (global.rs 113-134), and these become the first frames of its session. A failure
  answers the task's own tid from its arguments and leaves the entry, which only add_tmp or the sweep
  removes.
- `HandleSend`, `HandleResult`, `HandleDirectIncoming` and `HandleClose` are the session's handling of
  its inbox. `RemoteStableResult` and `RemoteClose` are what the remote peer or the transport does to it.
- `Upgrade` and `TmpToDht` are `Global::upgrade` and `Global::tmp_to_dht`.

`Abs == INSTANCE Deliveries WITH req <- requested, ans <- delivered` is the refinement mapping. Overlay's
`requested` and `delivered` are exactly the abstract state, so the mapping is the identity on them. The
check is that every Overlay step is an `Ask`, an `Answer` or a stutter of Deliveries (DeliveriesSafe);
it fails (overlay_double_answer).

**LockOrder.tla** models the same tasks at the level of their locks and channels. Each actor runs a
*program*, a sequence of operations translated from its handler:

| operation | meaning |
|---|---|
| `Acq`/`Rel` | a guard held across later operations |
| `Sec` | an await-free critical section with its map update |
| `Look` | a registry or Tmp lookup that either finds a session and sends to it, or takes the else branch |
| `SendOp` | a send into a bounded inbox |
| `Exit` | the end of a session |

The actors and their programs:

- **Dispatcher.** Its programs are `StableConnectProg`, `StableResultProg`, `StableDisconnectProg`,
  `DataProg`, `BroadcastProg`, `NetworkStateProg` and `NetworkRebootProg`, one per handler.
  NetworkState reads the registry in one statement. NetworkReboot's guard is the `for` scrutinee's
  temporary (server.rs 547), so it is an `Acq` ... `Rel` pair: the read lock is held across the
  loop's trans_send awaits while the other actors run.
- **Router.** Its programs are `TransProg`, `CheckProg` and `ClearProg`.
- **Stable task.** It runs `AddTmpProg`.
- **Sessions.** Each runs a `Handler` for its next inbox message: `UpgradeProg` for a StableResult frame,
  `CloseProg` for a close, `DirectProg` for a direct endpoint.

`lock` holds each RwLock's readers, writer and FIFO queue of waiters. `Request`, `Grant` and `Release`
follow tokio's fair semantics: an acquisition is immediate only when nobody is queued. `where` records
which map holds each session's sender. `inbox` holds each session's channel.

**Startup.tla** models the persistent part of `server::start`:

- `MakeDir` is create_dir_all.
- `ReadKey` is `fs::read(..).unwrap_or(vec![])`. A read of an existing file may fail, which sets the
  auxiliary flag `faulted`.
- `ParseKey` is from_db_bytes, or a freshly generated key.
- `WriteKey` is fs::write. It may succeed, fail before truncating, or fail after truncating.
- `Bind` covers the binding, the tasks and `Ok(peer_id)`, and records the published PeerId.
- `WriteKey`'s success puts the key in the page cache only (`synced` is FALSE): nothing calls sync_all.
  `Flush` is the kernel's writeback.
- `Crash` (a panic or a kill) can happen at any step. It keeps the directory and the file, and may tear
  a write in progress.
- `PowerLoss` can happen at any time. It also loses the page cache, so a file not yet written back may
  be left truncated.

**AppLoop.tla** composes an example driver (`src/examples`) with the node through the two application
channels. `toNode` carries SendMessages and `toApp` carries ReceiveMessages. Both are bounded.

- **Drivers.** `PermissionedStart`/`React`, `PermissionlessStart`/`React` and `RelayStart`/`React`
  translate each driver's start-up sends and the match arms of its recv loop.
- **Dispatcher.** `Outs(r)` is the sequence of out_sends the dispatcher makes for a request, for each
  branch of its handler. A failure Delivery is sent only when tid ≠ 0.
- **Senders.** `NetSend` stands for the sessions and the router, which also out_send.
- **Permits.** A send waits for a permit. Waiting senders form the FIFO `waitq`, as tokio's bounded mpsc
  hands out permits in request order. `Grant` gives a freed slot to the first waiter.

**PeerIdHex.tla** defines `ToHex` and `FromHex` as operators. A string is a sequence of characters.
`"MB"` stands for any multi-byte character, because from_hex checks `s.len()` in bytes and slices
`&s[2i..2i+2]` in bytes. `FromStrRadix16` models `u8::from_str_radix(_, 16)`, including its optional `+`
sign. `ParseChunks` is the RECURSIVE loop, which stops at the first error or panic.

**TransportCodec.tla** defines `FromStr`, `ToStr`, `FromByte` and `ToByte`, each a translation of its
`match`: `FromByteArms` is the table of from_byte's arms, and any other byte is `TransportErr`.
`ByteCodecOK(b)` compares `FromByte(b)` with a reference definition, the inverse of `ToByte` on its range.
MCPeerIdHex extends the module and states `TransportCodecs` over the first byte of each input id, so the
peerid_roundtrip run covers all 256 values of a u8.

AppLoop takes its constants directly from its cfg. **MCOverlay.tla**, **MCOverlaySym.tla**, **MCLockOrder.tla**, **MCStartup.tla** and **MCPeerIdHex.tla** give
the constants. MCOverlaySym and MCStartup also define symmetry sets.

## 3. Runs and what they show

| run | cfg | result | shows |
|---|---|---|---|
| overlay_safety | MCOverlay.cfg (MCOverlaySym) | pass (861k states with sid symmetry, ~2 min) | TypeOK: every operation of the dispatcher, router, sweep, sessions and stable tasks, in every interleaving, keeps the maps, sessions and tasks well formed and every inbox within its bound plus the requests already taken |
| overlay_double_answer | MCOverlayDoubleAnswer.cfg (MCOverlaySym) | violation | DeliveriesSafe (spec I6) fails: a result task's add_all_tmp takes the Pending-connect entry of a concurrent connect task to the same peer, its session sends the connect tid, and when the connect task fails it answers that tid again (global.rs 128) |
| overlay_swept_unanswered | MCOverlayUnanswered.cfg (MCOverlay) | violation | PendingAnswered (spec 4.4) fails: timer_clear drops a running task's Pending-connect entry without a Delivery, the task's add_tmp finds nothing, and the tid is never answered (server.rs 252) |
| overlay_result_lost | MCOverlayResultLost.cfg | violation | a refused StableResult to an inexact peer is never answered (server.rs 393) |
| overlay_pending_stable | MCOverlayPendingStable.cfg | violation | spec I5 fails: the stale lookup of StableConnect leads to a Pending-connect for a Stable peer (server.rs 306/318) |
| overlay_dup_session | MCOverlayDupSession.cfg | violation | spec 4.7 step 6 fails: add_dht ignores Tmp, so one peer gets two sessions (server.rs 219) |
| lock_send_targets | MCLockOrder.cfg | pass (285k states) | TypeOK; LockedSendTargetsCurrent: a send made under a guard always targets a live session still in the map it was looked up in, so holding the guard is what makes these sends safe |
| lock_deadlock | MCLockOrderDeadlock.cfg | violation | spec 4.8 fails: the dispatcher holds the registry read guard while it waits on a full inbox; the session, handling a StableResult frame, queues for the write lock in upgrade; nobody proceeds (server.rs 480, global.rs 139) |
| startup_identity | MCStartup.cfg | violation | IdentityStable (spec 3, 6) fails: start writes a fresh key with fs::write, never syncs it, and returns Ok(peer_id); a power loss before writeback leaves a truncated file, and the next start publishes a new PeerId (server.rs 66). Crashes and torn writes alone never change it |
| app_channel_cycle | MCAppLoopCycle.cfg (AppLoop) | violation | the permissionless example answers network data with Data to its own id; the dispatcher answers that with two out_sends (server.rs 466, 474); with both channels full, the driver and the dispatcher wait on each other for good |
| peerid_roundtrip | MCPeerIdHexRoundTrip.cfg | pass | from_hex(to_hex(id)) = id for all 65,536 two-byte ids; from_byte is the inverse of to_byte on {QUIC, TCP, RTP, UDT}, refuses every other u8 (4 included), and from_str(to_str(t)) = t |
| peerid_panics | MCPeerIdHexFromHexNeverPanics.cfg | violation | from_hex panics on `-`,MB,`-` (a multi-byte char straddling a chunk) |

Each property of a passing run has a mutant in PROJECT.json that breaks it:

| property | mutated definition | mutant |
|---|---|---|
| TypeOK (Overlay) | `CanSend` | an unbounded inbox |
| TypeOK (LockOrder) | `DoSend` | a send that does not wait for room |
| LockedSendTargetsCurrent | `DoLook` | the guard is dropped before the send |
| RoundTrip | `ToHex` | `{:x}` without the padding |
| TransportCodecs | `FromByte` | the tag masked to two bits (`b & 3`) instead of matched |

Some disagreements are found while modelling but not checked by a run:

- A Data request to an inexact peer is relayed as RelayData without its tid, so it is never answered
  (server.rs 483). overlay_result_lost's cfg uses `RequestKinds = {"result"}`. With `{"data"}` the same
  property, EveryRequestDelivered, shows this path.
- The permissioned example is free of the channel cycle: with the AppLoop cfg and `Driver =
  "permissioned"`, NoWaitCycle holds (1,120 states). The reason is that every request it sends has
  tid 0, so the dispatcher never out_sends for it. The relay example reaches the cycle like the
  permissionless one.
- `from_hex` accepts a leading `+` in a chunk, because `u8::from_str_radix` does. So `FromHex` gives ok on
  `+0+0`.
- The sweep is starved under steady traffic: every transport message recreates both sleeps
  (server.rs 138), and when both expire together only select!'s random choice lets Clear run. Since
  the sweep answers no tid, starving it breaks no promise the model states, and the select! loop's
  timing is not modelled.
- The Clear sleep is 10 s, not the 60 s of its comment.
- `TransportType::from_str` maps every unknown name to QUIC rather than failing, so a mistyped
  transport in a configuration silently selects QUIC. The spec states no requirement for it.

### Bounds

- **Peers.** There are two remote peers and Self. One peer is in the bootstrap list and can be dialled
  back (`isSelf`). Two peers are enough for one of them to be the "closest" relay of the other.
- **Addresses.** There are two addresses, one of them blocked.
- **Tids.** There are two, so two requests to the same peer coalesce.
- **Sessions.** `Sids` has two members. This lets a peer's session and its relay coexist, and an inbound
  and a stable session race. Dup-session needs a third sid, for the relay, the inbound session and the
  task's session. In the safety run the sids are model values under symmetry: the code uses a session
  only as the identity of its channel.
- **Inbox.** `InboxCap = 1` makes a full inbox reachable.
- **Closed sessions.** They are normalised, so a sid is used once. This bounds the sessions ever spawned.
- **Request kinds.** Each liveness run restricts `RequestKinds` to the kind it is about
  (`{"connect"}` for PendingAnswered, where a coalesced or own connect tid is dropped by the sweep). This keeps every
  run under 5 minutes.
- **LockOrder.** It uses one session. The deadlock needs only the dispatcher, one session with a full
  inbox and one lock. With two sessions the state space grows past 6M states.
- **Startup.** It uses two keys and four calls of start. Two starts can fail in different ways, a third
  can publish a PeerId, and a fourth runs after it. The power-loss counterexample needs one start and
  one power loss.
- **AppLoop.** Both channels have capacity 1, and the network sends at most 3 messages. The cycle
  needs the two channels full at once. With capacity c it needs about 2c more messages, and nothing
  else changes.
- **TransportCodec.** The 65,536 input ids give every u8 as a first byte, and every kind is checked; nothing is bounded.
- **PeerIdHex.** The codec uses IdLen = 2 (4 hex characters). The panic and the `+` need only one chunk
  boundary, and `IdLen` changes only the number of chunks.

### Fairness

- **Fair tasks.** The node's own tasks are weakly fair. These are the dispatcher in the middle of a
  request, each session's inbox loop, each spawned stable task, and the lock grants. Each is a tokio
  task or loop that is always re-polled while it has work.
- **Not fair.** The application and the network are not fair. `RemoteStableResult` is not fair either:
  a peer may never answer.
- **The sweep is not fair.** Every transport message recreates the Clear sleep (server.rs 133-138), so
  no fairness of the code forces the sweep to run. PendingAnswered fails without it: the sweep is a
  step the model may take, and the tid it drops is lost whether or not it is ever taken again.
- **LockOrder.** The deadlock run assumes WF of every actor and of the lock grants. Even so, a lock
  request is not granted.

## 4. Modelling choices from the spec (spec_modelled)

PeerList, Buffer, Session, the stable tasks and the keystore are not in the source tree. These choices
come from the spec:

- A failed stable task answers the tid it was spawned with, from its own arguments (tid and the
  delivery prefix, server.rs 325-336). The data of the entry's requests is in the buffer, which only
  add_tmp / add_all_tmp hand out, so the entry is left for the sweep.
- A connect task takes the Pending-connect tids (add_tmp). A result task takes both maps (add_all_tmp).
- A closing session removes only the registry and Tmp entries that carry its own sid.
- peer_disconnect (`DispatchStableDisconnect`, `DispatchDisConnect`) evicts the entry and leaves the
  session live.
- A session's handlers take the locks as spec 4.5 describes: closure writes the registry, then the
  buffer.
- A torn key file fails `Keypair::from_db_bytes` (spec 6: "absent or invalid").

## 5. Not modelled, and the plan

These parts are left out:

- **Broadcast, Stream and NetworkState** change no state in Overlay. Broadcast's lock behaviour is in
  LockOrder.
- **The keystore's cryptography** is left out.
- **trans_send's lazy start** (global.rs 72-103) drops the read lock before it starts a transport, but
  only the dispatcher task calls it (server.rs 445, 550). The startup bootstrap loop calls it before the
  tasks run. Two concurrent first uses therefore cannot happen.
- **The transport tasks behind trans_send.** NetworkReboot holds the registry read guard across
  trans_send (server.rs 547). If a transport task can wait on the router while the router waits for the
  registry write lock, the node stops. The transport tasks and their channel capacities are in the
  transport crate, outside the source tree, so LockOrder stops at the guard being held across an await.
- **The registry guard at server.rs 489.** out_send is called while the guard is held. AppLoop shows the wait on the application's channel can last for good. LockOrder does not include the application channel, so the registry lock is not modelled stalling while that wait lasts.

The plan:

1. **Registry.** An abstract specification of the registry and buffer (one map per peer with the
   allowed transitions), refined by Overlay.
2. **Relays.** RelayData forwarding at a relayer, and relay sessions between two Overlay nodes.
3. **Larger LockOrder.** Two sessions, with a reduced dispatcher, so that the router's and a
   broadcast's locks interleave with two sessions. The full model with two sessions, even under symmetry,
   does not finish within ten minutes, so the dispatcher's programs have to be cut down first.
