# Cybernetic IDE: formal model

TLA+ modules, TLC configurations and TLAPS proofs for the robotics part of the
Cybernetic IDE and for the concurrent cores of the editor it is built on: remote
connections, collaborative text, RPC and the agent. `PROJECT.json` holds the index:
components, runs, the source lines each definition stands for, fault variants,
findings, hazards, theorems.

## 1. Inventory

The repository is the Zed editor plus a robotics layer. Of the editor, over a
million lines of mostly user interface, the parts with a protocol of their own
are taken up; the robotics layer is taken as a whole.

| Part | State | Operations | What is hard |
| --- | --- | --- | --- |
| **Simulator service** `overlays/unitree-g1-mujoco-protocol/python/g1_protocol_sim.py`, `g1_policy_runtime.py` | one `G1MujocoState` under one lock: `paused`, `control_mode`, `active_pose`, locomotion and motion-switcher state, the low-level command and its watchdog, actuator torques, the policy run with its solver options | client commands over HTTP and WebSocket; a 200 Hz physics thread; reads that also refresh state | five controllers compete for the actuators; deadlines are noticed by whoever comes first; a smooth pose releases the lock between frames; rejected commands leave traces |
| **Safety stop** `cybernetic_robotics/simulator.py` (repeated in the MCP server) | the step it is at, the `ok` gathered | four requests, each sent whatever became of the one before | failed, timed-out and late requests; other clients; animations in progress |
| **Robot Viewer panel** `crates/cyber_robot_viewer` | phase, connection task, render source, renderer handle; camera drag, request flag and backlog | open, reconnect, close; the connection task; mouse gestures | tasks are cancelled at any await; two copies of the render source; retries; handles that do not kill when dropped |
| **Native renderer** `g1_native_renderer.py` | HTTP thread, OpenGL context, frame cache, physics stream | serve, render | answers health before it can render; all instances want one port |
| **MCP server** `script/cyber-robotics-mcp.mjs` | background jobs, child processes, official session | JSON-RPC tools, signals | jobs that end while they are read or stopped |
| **SDK2 sidecar** `overlays/unitree-g1-sdk2-sidecar/entrypoint.py` | DDS channels, lowcmd stream lease, RPC services | bridge, stream, probe | lease expiry against a publishing loop |
| **Python package and SDK shims** `packages/cybernetic-robotics` | connections, managed sessions, subscriptions | request builders, `with` blocks around a container, channel threads | all sessions share one container name; a status is put together from two docker commands; a command may time out after it was obeyed |
| **Remote channel** `crates/remote` `ChannelClient`, on both ends; `crates/remote_server` | message ids, unacknowledged buffer, response channels, the daemon's queue between two connections | send, request, reply, acknowledge, resync | lost connections, duplicates, acknowledgements that may overtake, two threads that send |
| **Remote connection** `crates/remote` `RemoteClient` | `State` with attempts and missed heartbeats, proxy, monitor and heartbeat tasks | connect, reconnect, heartbeat, shutdown | tasks of one state that run on in another |
| **Text buffer** `crates/text`, `crates/clock` | fragments with insertion and deletion timestamps, undo map, version, Lamport clock, deferred operations | edit, undo, redo, apply remote operations | any order, any number of deliveries, concurrent edits and undos of one place |
| **RPC peer** `crates/rpc` | per connection: response channels, stream channels, bounded queues, the io future | request, streamed request, dispatch, disconnect | the close interleaved with registration and hand-over |
| **Agent thread** `crates/agent` | messages, pending message, running turn, tools under way | send, resume, cancel, truncate; a turn's loop over the model's stream | a cancelled turn's task and its flush overlap the next turn |

How they interact: the panel starts the simulator's container and then talks to
it, and to the renderer it spawns, over HTTP. SDK shims, examples and the MCP
server send the simulator the same commands. The renderer subscribes to the
simulator's pose stream. Nothing but the simulator's lock orders the clients.
A managed session starts the SDK2 sidecar's container, which runs the official
simulator. In the editor, `RemoteClient` replaces the proxy process under a
`ChannelClient`, which carries the buffers' operations and everything else
between the editor and its remote server; `Peer` does it between the editor and the
collaboration server. The agent's threads are driven by the panel and by a
language model's event stream.

What makes each part correct:

- simulator: at any time one controller is in charge and has the state it runs
  on; low-level torques do not survive their deadline; nothing starts unless a
  client asks; what a silent client left running ends;
- safety stop: the robot is passive afterwards, even if only part got through;
- panel: never busy without a task at work, one server for frames and camera, no
  renderer left behind, no wedged camera control, no lost motion;
- managed session: no container left behind while docker does what it is asked;
- channel: a message outlives a lost connection, none is repeated but by a resync;
- connection: a reconnection ends, a shutdown leaves no proxy, the end is final;
- buffer: replicas that have seen the same operations show the same text;
- peer: effects in the order sent, no truncated stream taken for a whole one,
  requests that end with their connection;
- agent: well-formed histories, each tool run once, one stop per turn.

`PROJECT.json` lists the hazards at their lines, each with the properties aimed
at it or the reason it has none.

## 2. Modules

| Module | What it is |
| --- | --- |
| `G1Control` | control arbitration in the simulator |
| `CommandLease` | abstract: the timed lease promised to a client that streams low-level commands |
| `SafetyStop` | the stop procedure composed with `G1Control` (EXTENDS) |
| `RobotViewer` | panels, their connection tasks, renderer processes, the port |
| `CameraControl` | drags, the request pipeline, the HTTP exchange |
| `ManagedSession` | `with` blocks and the container whose name they share |
| `RemoteChannel` | both ends' `ChannelClient`, the daemon's pump, the link |
| `RemoteState` | the client's state machine with its tasks, proxy and link |
| `TextBuffer` | replicas of one buffer and the operations between them |
| `RpcPeer` | one connection of a `Peer`, with the other side as environment |
| `AgentThread` | a thread's turns, their tasks and tools |
| `MC*` | instances for TLC |
| `G1ControlProofs` | theorems about the simulator, alone and with the stop |
| `RobotViewerProofs`, `CameraControlProofs`, `ManagedSessionProofs` | theorems about the panel, its camera and the managed sessions |
| `RemoteProofs`, `RpcPeerProofs`, `AgentThreadProofs`, `TextBufferProofs` | theorems about the foundation the panel runs on |

Operators whose name has a suffix after an underscore (`Disarm_KeepsMode`) are
deliberate faults. They are used nowhere in the specifications; putting one in
the place of the definition it is named after shows that a property can fail.

### G1Control

One action is one critical section of `state.lock`.

- `Physics` is the thread of `start_physics_loop`. One pass may take several
  steps in one critical section; the model takes one step at a time and lets
  others in between, which allows every behaviour of the code and some more.
- `Substep` is shared by the thread and the `step` command. The code calls
  refresh, hold, policy and locomotion in a row, each guarded by its mode, so
  the model has one disjunct for each mode.
- `RefreshedLowcmd`, `RefreshedCtrl` are the watchdog. Deadlines count down
  (`left`) instead of comparing clocks; 0 means past. The comparison in the code
  is strict, and a tick is any amount of time, so nothing is lost by it.
- A torque is the name of the controller that wrote it. `rejected` is a torque of
  a command that was refused half way.
- `ImplementsLease` maps the command and its watchdog to `CommandLease`: time left,
  whether it ran out, whether low-level commands are in charge, and the actuators
  that carry a torque of an accepted or a rejected command. A rejected command adds
  torques and must do nothing else; without a lease they stay until another
  controller takes the actuators, as in the code.
- `AnimateStart` and `AnimateFrame` are `animate_to_pose`, one action per frame.
- `Elapse` and `Tick` are the clocks, the only external part.

Left out: joint angles, contacts, frame counters, telemetry, and the hand, AGV,
speech, wireless and camera commands, whose state no controller reads. A fall
during a policy run resets the pose and then acts as usual; no modelled state
tells the two apart.

### SafetyStop

`BeginStop`, then for each of the four steps one of: executed, failed, timed
out. A step that timed out stays in `late` and is executed whenever the handler
gets its turn, perhaps in the next stop. `OtherClient` is any command of
`G1Control` and makes the verdict "disturbed", because no stop can promise
anything against a client that starts the robot again.

### RobotViewer

A connection task runs on the foreground executor and gives way only where it
awaits a subprocess or a timer; its HTTP requests block. So an action is what
the task does between two such points, and `task[v].at` names the point.
Several docker commands in a row that keep no state between them are one point
(`ensure_image` inspects and builds, `compose_up` may take down and retry).
Replacing or dropping a task cancels it: its handle is dropped (`Dropped`),
which on Unix kills nothing but closes the output pipes, and a command it was
waiting for goes on by itself (`VenvAfter`).

A renderer process has an HTTP thread and a main thread, in either order. All
want one port. A process whose pipes are closed before it reports its context
dies of the write.

### CameraControl

The pointer moves along one axis, the one that `orbit` maps linearly to the
azimuth; `across` stands for the other axis passing the threshold. A camera task
runs in one piece because its exchange blocks; between being spawned and being
run it waits its turn, and that is where reconnects and gestures come in.
`Outcomes` is the exchange: a pooled connection (frame polls share the pool, so
there may always be one) can fail after the server acted, and the command is
sent once more.

`camera`, `travelled`, `exact` and `latest` are history: what the server has
done, what drags moved, whether everything since the start went through once,
and the newest kind.

### ManagedSession

A step of a block is one docker command, because the daemon orders those; two
processes interleave between them. `docker rm` runs unchecked: `Remove` and `Stop`
may leave the container where it is, and nobody looks at it. `docker compose run` is
checked and may fail before or after it has created the container, which raises out
of `__enter__` without a stop. `session_status` is two steps, `Inspect` and `Read`,
each of which may tell nothing, and the container may change in between. `TimeOut` is
`subprocess.TimeoutExpired` out of any command, with or without its effect. `mishap`
is history: whose creation or stop failed, and who ran into a timeout.
Blocks that differ in nothing but `keep_running` share one name, as in the code.
The wait deadline may pass at any time (`Deadline`).

### RemoteChannel

One action per poll of a task that does not await: the message task handles one
envelope, `resync` runs from one await to the next. The outgoing queue differs at
the two ends: the client's is a proxy process's and is lost with it (`Written`), the
server's lives in the daemon and is written to whichever connection is there
(`Transmit`).

The server sends on two threads, its foreground and the telemetry forwarder, and the
code takes no lock over a whole send: drawing the id, stamping it with
`max_received`, `push_back` under the buffer's lock and `unbounded_send` under the
queue's are separate. So are the actions: `DrawId` and `Stamp` (one step on the
foreground, the only thread that writes `max_received`), `Buffer(t)`, `Queue(t)`.
`hand` is the envelope a thread has not buffered yet, `todo` what it has buffered but
not queued. A resync holds the buffer's lock while it queues all of it (`Locked`).
The client sends from its foreground only, in one step. `sent`, `overtaken` and
`received` are history. Streamed responses, and the transports below, are left out.

### RemoteState

`task` names the await at which the connecting or reconnecting task stands, `hb`
that of the heartbeat task, and `monitor` whether the proxy's exit is awaited. A
state replaced by `set_state` drops its tasks (`Drop`). The link answers, is
silent, or ends (`LinkFails`); `MaxFaults` bounds how often. The limits on
attempts and missed heartbeats are the code's. Its specification is `StateSpec`, so that
one module can extend both this and `RemoteChannel`.

### TextBuffer

A fragment is one character; a buffer's text is a sequence of them, so the B-trees and
ropes of the code become sequences, and an insertion's place is found by the walk that
`apply_remote_edit` makes: past concurrent insertions with later timestamps. `Pass` is
the loop that `apply_ops` and `flush_deferred_ops` share, over a batch as it came and
over the queue in the order of its timestamps (`InOrder`). `visible` is kept in the
fragment, as in the code, and not derived. Deliveries are batches of any operations of
others, in any order, as often as they like: the network is the set of all operations
made. Not modelled: grouping transactions by time, anchors, waits for a version.

### RpcPeer

The io future of a connection selects over writing, reading, its keepalive and
its timeouts; the last two are `Break`. Closing takes four steps (the response
channels, the stream channels, the sender's clones, the table of connections),
and requests register between them. A response is handed to its requester
together with a barrier that the consumer waits for (`Give`). The other side
answers what it likes in any order.

### AgentThread

`pc` names the await at which a turn's task stands. `select` is a choice: any ready
branch may be taken. `flushers` are the detached tasks of `cancel`. `tool` lists the
runs of the turn's one tool use, `early` a result that came before its input was
complete. A refusal switches to the fallback model, an error asks again
(`RetryTimer`). `stream_completion` is awaited by itself, outside the `select` with
the cancellation: until it returns (`RequestReturns`) no cancel is seen. A user may
prompt while a cancelled turn is still ending. The two turns then share the pending
message and the code mixes what belongs to them (section 5); `overlapped` is history
and remembers which turns did. `MaxOverlapped` bounds how many a run has. Left out:
compaction, subagents, titles, persistence, and more than one tool use per turn.

## 3. Runs

There is one run per module, with all its properties, one more for the second
way of using a thread, and one that refutes a sentence of the docs.

| Run | Instance | States | Shows |
| --- | --- | --- | --- |
| `g1` | 1 animating client, 2 motors (one outside the policy), watchdog and moves of one tick, 2 policy frames | 214 k | mode coherence, release of stale torques, no self-activation, refinement of `CommandLease`; commands, moves and one-shot policies come to an end |
| `stop` | policy bundle, steps may fail, one late request | 1.7 M | a stop that reports ok leaves the robot passive; any executed step halts it |
| `viewer` | 2 panels, 2 processes, 2 attempts of each kind | 64 k | busy panels, render source, handles; launches resolve |
| `camera` | positions 0..3, threshold 2, 6 events | 287 k | the pipeline and conservation of motion |
| `session` | 3 blocks, one of which keeps its session; a container from before | 259 k | nothing left behind, whichever docker commands fail |
| `channel` | three events out of a message, a request, a telemetry event and two lost connections | 1.1 M | what a message stands, nothing repeated but by a resync; everything delivered and answered |
| `remote` | the code's limits (5 heartbeats, 3 attempts), 5 faults | 7 k | the end is told once and is final, proxies have owners; reconnections and shutdowns end |
| `buffer` | 3 replicas, 3 operations, batches of 2 | 321 k | convergence, agreement on order, cached visibility, honest versions, the deferred queue |
| `rpc` | a request, a stream with an item, a message of the other side, incoming buffer of 1 | 117 k | order of effects, no silent truncation; requests end, a disconnect shuts down |
| `agent` | 2 turns that may overlap | 2.7 M | tool uses answered, one stop per turn, the running turn; for a turn alone, paired results, one run of its tool, its place in the history |
| `agent_patient` | 2 turns one after the other, 2 requests each, retry, fallback, resume, truncation | 110 k | paired results; turns end |
| `stop_neutral` | 2 poses, 1 late request | | a disagreement, see section 5 |

Bounds. One tick is enough for a deadline to be pending, past and noticed by each
actor. Two motors tell "commanded" and "outside the policy" apart. The safety
properties of all modules are proved for every value of the constants but
`NoMessageLost`, so small instances do for their liveness. Two panels are enough for
one to answer the other's probe and to take its port. Two attempts have a first and a
last one. Six events hold two drags with moves, a missed end and a reconnect. One late
request can be executed in the next stop. Three blocks let one remove another's
container while a third is being inspected. In `channel` any three events come in any
order: a reply and a telemetry event from the two threads of the server with a lost
connection, or one message between two lost connections; `MaxId` is never reached. Two
lost connections are one more than a message stands. Five faults exceed the three
attempts. Three replicas and three operations are the smallest instance in which an
operation depends on one that a third replica has not seen, and in which an undo meets
a concurrent deletion. An incoming buffer of one is full after one message. Two turns
overlap in every way that one cancelled turn can.

Every module also has a `TypeOK` (`StopTypeOK`, `StateTypeOK`), for readers, for the
proofs and as an invariant to add to a configuration when a module is changed; it
holds on every instance above.

Deadlock is checked except in `camera`, `channel`, `remote` and `rpc`, where users
and messages run out or the connection ends and nothing is left to do.

Fairness. `G1Control`: the clock advances, the physics thread runs (it catches every
exception and sleeps a bounded time), and a handler finishes its smooth pose.
`RobotViewer`: every task step, since the executor polls a task whose timer fired or
whose command ended; that commands end is assumed, as the code puts no timeout on
them. `RemoteChannel`, `RemoteState`, `RpcPeer`: every task that can go on is polled,
every timer fires, and a lost connection is made again; nothing is asked of users, the
network or the other side. `AgentThread`: the turn's task, its timers, the detached
flushes, and the tools, once their input is complete or cut off. That the model
answers a request, by a stream or an error, is an explicit antecedent of
`CancelledTurnEnds` (`RequestsReturn`), because that await has no cancellation beside
it; that its streams end as well is one of `EveryTurnEnds`. No fairness is assumed of
users, clients, renderers or containers. The liveness property of `G1Control` is about
clients that fall silent: a client may renew a command for ever.

## 4. Proofs

All theorems hold for every value of the constants that the named assumptions allow
(`ConstantsAssumption`, `ViewerAssumption`, `CameraAssumption`, `SessionAssumption`:
ranges of the numbers, held motors are motors, `None` is no process, keepers are
blocks; `StopAssumption`: the pose and the FSM number that the stop sends are among
those of the simulator; `RemoteStateAssumption`: the limits are positive;
`RequestAssumption`, `BoundAssumption`: a request is a unary one or a stream, the
buffer has room for one message; `ThreadAssumption`: ranges; `ReplicaAssumption` and
the `BoundAssumption` of `TextBuffer`: replica ids are naturals and 0 is
`ReplicaId::LOCAL`, the bounds are naturals). No theorem has a hypothesis beyond these.

- `G1ControlProofs`. `TypeCorrect` by one lemma per group of actions. `Safe` is
  `ModeHasItsState`, `StaleReleasesTorque` and `StaleIsExpired`: the stale flag
  alone does not say that the deadline is past, and without that a second refresh
  could clear the flag, or a renewed command keep it. `ModeCoherent` and
  `StaleCommandsReleased` follow. `NothingStartsByItself` needs no invariant but
  the facts about refresh. `LeaseImplemented` maps the initial state to the
  lease's and every step to a step of the lease or a stutter, torques of rejected
  commands included; it uses `Safe`, because the refresh that finds the lease at its
  end must be the one that takes all of them away.
- `RobotViewerProofs`. The properties speak of one panel, so the invariant says
  for each panel what its task holds at each point: a handle only in the health
  wait, a stored renderer or the Native source only once it polls, and the range
  of the attempt counters. `OnePanel` lets each action be proved for the panel it
  touches. `OrphansAreKnown` follows: a stored renderer implies that the task is
  past its setup, where only a start or a close moves the handle, and both kill.
- `CameraControlProofs`. Conservation is not inductive: sums add up only while
  every command under way is an orbit (`OnlyOrbits`), and a new request starts
  from an empty backlog only because flag and backlog agree (`FlagHasTask`).

- `ManagedSessionProofs`. Blocks that end without a stop must not own what is there.
  `NothingLeftBehind` alone is not inductive: a `start_session` that is refused raises
  without a stop, so the invariant adds that a block which has not started its
  container owns none (`NotYetStarted`): a removal that failed shows there, when
  `docker compose run` is refused the name. `ContainerOnly` takes the container's own
  steps together: none changes its owner.

- `G1ControlProofs`, the stop. `StopImplementsControl` comes first: each step of the
  stop is a step of `G1Control` or a stutter, so the simulator's invariants hold while
  it is stopped (`StopKeepsControl`). `StoppedIsPassive` and `StopHalts` need what
  each of the four steps leaves behind (`Progress`): after the first the robot is
  disarmed, and the later ones and whatever arrives late keep it so, because a late
  request can only be one of the four. The clock and the physics, which go on in
  between, start nothing (`BackgroundQuiet`).
- `RemoteProofs`, the channel. What an end has on its way to the other is one path, the
  server's queue behind what the connection carries; a step takes an envelope off
  the head of one path and puts some at the end of the other. The invariant counts,
  for each id, the dispatches so far, the copies on the path and what a thread of the
  server has buffered but not queued (`ToDo`), together with the resync that is still
  due (`Pending`): at most one more than connections were lost (`Bounded`). It needs
  that a new id has no copy anywhere, in no thread's hand either, that a buffer
  holds a message once, although one thread may buffer it while the other resends, and
  that the flush is the first on its connection, so that the server answers one resync
  once.
- `RemoteProofs`, the connection. `ProxyHasOwner` says who may own a proxy, but not
  that two tasks never race for it. The invariant adds that: a connecting task and a
  live state exclude each other (`LiveIsAlone`, listed as `ConnectedAlone`), a first
  connection is alone, a reconnecting state has its task, and a shutdown has taken the
  state. `TerminalForGood` follows from `ToldOnce` and the guards of the tasks that a
  replaced state leaves behind.
- `RpcPeerProofs`. The order of effects rests on the barrier: a response in the
  channel of a live request is the one the consumer waits for, and the only one
  (`OneInHand`), and what was handed on is older than what is in the buffer, which
  is older than what is on the wire (`Line`). That no stream ends in silence rests
  on the four steps of the clean-up: a stream whose channel has left the map has
  its last word in the channel, or the consumer holds it (`LastWord`).
- `AgentThreadProofs`. `OneStop` needs to know who has told a turn its stop: the one
  that cancels it or its own task, which then sends nothing more (`Told`); and a turn
  that has ended leaves no sender. The second half is about turns that had the thread
  to themselves, next to others that overlap. Each busy turn comes after all turns that
  are not overlapped, and one that is not overlapped is busy alone (`LastIsBusy`). So
  what is pending belongs to it, and what is pending while turns overlap is theirs
  (`OwnPending`) and gone when the last of them is over; a detached flush, a late tool
  result or a retry finds no message of another. Every step of a turn's task is first
  shown to be one that goes on or one that ends the task, which spares the other lemmas
  the cases.

- `TextBufferProofs`. Convergence is not proved by commuting operations or replaying
  histories, for neither survives batches, repetitions and the deferred queue. Instead
  the invariant says of each buffer what it is, given the version it has reached
  (`Replicated`). Its characters are those of the base text and of the edits observed,
  each once (`Text`). Each edit stands where its author's version puts it: past its
  start, and of what is past its start only younger insertions come before it
  (`AllPlaced`). A fragment is marked with exactly the edits that delete it, again
  judged from the author's version (`Deleted`). The undo map holds the observed undos,
  and the flags are up to date (`Undos`, `Shows`). These facts can be carried from one
  replica to another, since two replicas that know what the author knew count the same
  characters up to a shared one (`SharedOffset`), and an insertion moves no count of a
  version that does not know it (`GrownAt`).

  `OrderAgrees` is part of the induction and not a consequence. When a replica applies
  an edit, each other replica either has it, and then what comes before and after it
  is the same on both (`BeforeStaysBefore`, `AfterStaysAfter`), or has not, and then
  nothing is to be compared. The step needs that of the characters which only one of
  the two has, the first before a shared one is younger than it
  (`FirstSharedIsOlder`): the walk past younger insertions then cannot stop early on
  one side. Deletions agree because the author's view of a fragment is the same
  everywhere (`SameVisibility`, `SharedDoom`).

  A local edit does not go through `apply_remote_edit`; `LocalIsRemote` shows that for
  the author it does the same, so that publishing an operation is applying it
  (`PublishIsApply`). This needs that a replica has observed its own operations and
  nobody more of them (`Own`, `OwnVersion`), that a new timestamp is fresh (`IsFresh`),
  and that what operations say of their causes stays true (`Causal`, `CausalNext`).
  `Anchored` and `Marked` keep the start of an edit, and something it deletes, in the
  text of everyone who has its author's version, without which an edit could be
  observed and have had no effect.

  A call of `apply_ops` is two passes whose every round keeps all this (`PassGoes`).
  What a round sets aside is unready, or of a replica whose earlier operation was set
  aside, and stays so: in the order of timestamps, an operation comes after all that
  it waits for (`UnreadyNext`, `PassUnready`). So one pass of `flush_deferred_ops` is
  enough. The inductive invariant `IInv` is `Agreed` (all of the above for all pairs
  of replicas), `Own`, `Waiting` (queues hold operations of others) and `NoneReady`.
  Equal versions then have the same characters, in the same order, with the same
  deletions and undo map, hence the same flags (`SoundConverges`). The rounds of a
  pass are a recursive function over the list; that it exists is an induction over the
  lengths for which it does, and a finite queue has an order because its operations
  can be ranked (`RoundsExist`, `InOrderFacts`).

Type correctness is a theorem for each of these modules; for `SafetyStop` it is part
of the invariant.

Only model-checked: liveness, because temporal reasoning under fairness, and ENABLED,
are outside the prover; and `NoMessageLost`. Every other invariant and every action
property that a passing run checks is stated by a theorem.

## 5. Findings

Checked by the run `stop_neutral`: a smooth pose that is in progress when a stop
begins goes on after it and ends in its own pose, although the stop reported ok
and the docs say that it returns the robot to neutral. The robot is passive all
the same (`StopLeavesRobotPassive`).

The following behaviours were found while the modules were written. Each is a
counterexample to the property named, which stands at the end of its module (or
to a bound of a run above); put it in the module's configuration to see it.

1. `G1Control.SolverFollowsPolicyMode`: a policy run that is interrupted by
   reset, hold, lowcmd, a move, damp or release_mode leaves the training solver
   options in force. The session log says the simulator toggles them "around
   policy mode". If a policy is started next, it saves the training options as
   the ones to go back to, and they stay for good.
2. `RobotViewer.RendererDoesNotOutlivePanel`: a panel closed while it waits for
   the renderer's health leaves the process running, and the port taken.
   `OrphansOnlyFromHealthWait` shows that this is the only way.
3. `RobotViewer.FallsBackWithoutGpu`: health says nothing about the OpenGL
   context, so a panel can settle on a renderer that never delivers a frame.
4. `RemoteChannel.NoneLost`, message 0: ids and `max_received` both start at 0, so
   the first envelope a peer sends acknowledges message 0 before it was received, and
   a lost connection then loses it.
5. `RemoteChannel.NoneLost`, two lost connections (`MaxSends` 2 for the server and 0
   for the client, no requests, no telemetry, `MaxEvents` 4): `max_received` is the id
   received last, not the highest (`remote_client.rs:1772`), so a message resent after
   the first can be followed by an acknowledgement of what never arrived.
6. `RemoteChannel.NoneLost`, two threads: id, buffer and queue are three steps
   (`remote_client.rs:2024, 2030, 2033`). If another thread queues a later id in
   between, its acknowledgement drops the earlier message from the buffer, and a lost
   connection loses it.

   `NoMessageLost` and `EventuallyDelivered` say exactly how much a message stands
   (`Stands`): one lost connection, none if it has id 0 or was overtaken; before that
   nothing is lost.
7. `RemoteState.HeartbeatFindsState`: `handle_heartbeat_result` unwraps a state
   that `shutdown_processes` has taken (`remote_client.rs:846`).
8. `RemoteState.ConnectedIsWatched`: a proxy that dies during the resync uses up
   its monitor, whose reconnection is refused (892); an answer already under way
   then makes the client connected to a dead proxy that nobody watches.
9. `RemoteState.SilenceNoticed`: after an answered heartbeat with none missed the
   loop takes `continue` (824) and does not set its timer again.
10. `RemoteState.IgnoresOthers`: the debug command takes the state of a client that
    is not connected and does not put it back (1073), though it logs "ignoring".
11. `ManagedSession.NothingLeftBehind` without `mishap`: a docker command that times
    out, or a `docker compose run` that fails after it created the container, raises out
    of `__enter__` and the container stays (`official.py:582`); a `docker rm` that fails
    in `stop_session` is not noticed by `__exit__` (681, 854).
12. `AgentThread.FlushesOwnMessage` (in `MCAgentThread.cfg`): the task detached by
    `cancel` flushes what is pending when the old turn's tools are done, the new
    turn's message included (`thread.rs:2279`), which the comment at 2626 means to
    exclude.
13. `AgentThread.TruncatedStaysGone` (in `MCAgentThread.cfg`, `MaxTruncates = 1`): an
    event that the cancelled turn's loop takes before it looks at the cancellation
    starts a new pending message after the truncation (`thread.rs:2348`).
14. `AgentThread.NoOrphanResults` and `AnswersFollowPrompt` without `overlapped`: a
    prompt during the end of a cancelled turn makes two turns share the pending
    message, and a result of the old one goes into the new one's (`thread.rs:3208`), or
    an answer behind the prompt that follows it.

Noted, for no text promises otherwise: while the simulator is dead a connected panel
shows Waiting at each failed probe and keeps its reconnect button disabled, so that
only closing it helps (`cyber_robot_viewer.rs:519, 870`); disarming commands leave
low-level torques on the actuators; a venv whose installation failed passes for
installed from then on; closing one window's panel can take away the renderer that
another window uses; a message whose acknowledgement was lost is dispatched twice.

## 6. Plan

Done: sections 2 to 5. Next:

1. An abstract reliable channel that `RemoteChannel` implements for messages
   other than those of section 5.
2. `McpJobs`: the MCP server's Python jobs, signals against exit events.
   `LowcmdStream`: the sidecar's lease-limited stream. `NativeFrames`: frame cache
   and pose stream of the renderer, composed with `RobotViewer`.
3. The hand, dex3 and wireless handlers as further actions of the simulator.

## 7. Not modelled

Most of the editor: workspace, editor elements, project and language services,
settings, git and panels are user interface and glue over a million lines whose state
is a document tree, a layout or a cache of another process's answers. Checking it
would need a model of the framework it runs on, not of a protocol it has. Of the
robotics layer: layout and telemetry parsing of the panel; transport framing,
rendering and the JPEG cache; floating-point camera and pose mathematics; training
utilities; prose and examples. Wall-clock steps, latency of the event loop and of the
foreground thread are not represented: the model has no amounts of time.
