---------------------------- MODULE RemoteState ----------------------------
(***************************************************************************)
(* The connection state machine of the remote client (RemoteClient,         *)
(* crates/remote/src/remote_client.rs): the first connection, the monitor   *)
(* of the proxy process, the heartbeat task, the reconnection task with its *)
(* attempts, and shutdown.  All of them run as tasks on the foreground      *)
(* executor, so a step here is what a task does between two awaits; timers  *)
(* may fire at any moment their task awaits them.                           *)
(*                                                                          *)
(* A task lives in the State value that owns it; replacing or taking that   *)
(* value drops it (and kills the proxy process the monitor owns), which the *)
(* operator Drop below stands for.                                          *)
(***************************************************************************)
EXTENDS Integers

CONSTANTS
    MAX_MISSED_HEARTBEATS,
    MAX_RECONNECT_ATTEMPTS,
    MaxFaults          \* proxies that die and kills or connects that fail

ASSUME RemoteStateAssumption ==
    /\ MAX_MISSED_HEARTBEATS \in Nat \ {0}
    /\ MAX_RECONNECT_ATTEMPTS \in Nat \ {0}
    /\ MaxFaults \in Nat

VARIABLES
    state,     \* RemoteClient.state, "None" once taken
    attempts,  \* attempts of the running reconnection, or of ReconnectFailed
    task,      \* where the connecting task (new or reconnect) is
    proxy,     \* the proxy process and its exit
    monitor,   \* the monitor task of that proxy
    link,      \* "ok", or "silent": nothing arrives, nothing fails
    hb,        \* the heartbeat task: which future its select awaits
    missed,    \* its missed_heartbeats
    activity,  \* a token waits in its connection_activity channel
    shutdown,  \* the future shutdown_processes returned
    events,    \* history: Disconnected events emitted
    panicked,  \* history: state.take().unwrap() met no state
    faults     \* how much of MaxFaults is used

stateVars == <<state, attempts, task, proxy, monitor, link, hb, missed, activity,
               shutdown, events, panicked, faults>>

Live == {"Connected", "HeartbeatMissed"}
Terminal == {"ReconnectExhausted", "ServerNotRunning"}
States == {"Connecting", "Reconnecting", "None"} \cup Live \cup Terminal

StateTypeOK ==
    /\ state \in States
    /\ attempts \in 0..(MAX_RECONNECT_ATTEMPTS + 1)
    /\ task \in {"idle", "start", "ping", "kill", "connect", "resync", "answered",
                 "connected", "failed"}
    /\ proxy \in {"none", "running", "died", "noserver"}
    /\ monitor \in {"off", "watching", "done"}
    /\ link \in {"ok", "silent"}
    /\ hb \in {"off", "armed", "pinging", "spent"}
    /\ missed \in 0..MAX_MISSED_HEARTBEATS
    /\ activity \in BOOLEAN
    /\ shutdown \in {"no", "running", "done"}
    /\ events \in Nat /\ panicked \in BOOLEAN /\ faults \in 0..MaxFaults

\* RemoteClient::new has started the first proxy.
StateInit ==
    /\ state = "Connecting" /\ attempts = 0 /\ task = "start"
    /\ proxy = "running" /\ monitor = "off" /\ link = "ok"
    /\ hb = "off" /\ missed = 0 /\ activity = FALSE
    /\ shutdown = "no" /\ events = 0 /\ panicked = FALSE /\ faults = 0

-----------------------------------------------------------------------------
\* The tasks owned by a State value go away with it.
Drop == proxy' = "none" /\ monitor' = "off" /\ hb' = "off" /\ missed' = 0 /\ activity' = FALSE

can_reconnect == state \in Live

\* RemoteClient::new has not returned: nobody else has the client.
InNew == attempts = 0 /\ task \in {"start", "ping", "answered"}

\* set_state: reaching a terminal state tells the workspace.
set_state(s) ==
    /\ state' = s
    /\ events' = IF s \in Terminal /\ ~InNew THEN events + 1 ELSE events

\* reconnect, from a state with `tried' attempts behind it
StartAttempt(tried) ==
    /\ attempts' = tried + 1
    /\ IF tried + 1 > MAX_RECONNECT_ATTEMPTS
         THEN set_state("ReconnectExhausted") /\ task' = "idle"
         ELSE set_state("Reconnecting") /\ task' = "kill"

-----------------------------------------------------------------------------
\* RemoteClient::new: RemoteStarted arrives, the monitor is started, one ping
RemoteStarted ==
    /\ task = "start" /\ proxy = "running" /\ link = "ok"
    /\ task' = "ping"
    /\ monitor' = "watching"
    /\ UNCHANGED <<state, attempts, proxy, link, hb, missed, activity, shutdown,
                   events, panicked, faults>>

FirstPingAnswered ==
    /\ task = "ping" /\ proxy = "running" /\ link = "ok"
    /\ task' = "answered"
    /\ UNCHANGED <<state, attempts, proxy, monitor, link, hb, missed, activity,
                   shutdown, events, panicked, faults>>

\* Either wait of new runs into its timeout: the client is never handed out.
FirstConnectFails ==
    /\ task \in {"start", "ping"}
    /\ task' = "idle"
    /\ state' = "None"
    /\ Drop
    /\ UNCHANGED <<attempts, link, shutdown, events, panicked, faults>>

\* new, after its ping: the heartbeat starts and the state is set, unconditionally
FirstConnected ==
    /\ InNew /\ task = "answered"
    /\ task' = "idle"
    /\ state' = "Connected"
    /\ hb' = "armed" /\ missed' = 0
    /\ UNCHANGED <<attempts, proxy, monitor, link, activity, shutdown, events,
                   panicked, faults>>

-----------------------------------------------------------------------------
\* The reconnect task: kill the old connection, connect, resync
KillDone ==
    /\ task = "kill"
    /\ task' = "connect"
    /\ UNCHANGED <<state, attempts, proxy, monitor, link, hb, missed, activity,
                   shutdown, events, panicked, faults>>

KillOrConnectFails ==
    /\ task \in {"kill", "connect"}
    /\ faults < MaxFaults
    /\ faults' = faults + 1
    /\ task' = "failed"
    /\ UNCHANGED <<state, attempts, proxy, monitor, link, hb, missed, activity,
                   shutdown, events, panicked>>

\* A new proxy and its monitor; resync sends its flush.
Connect ==
    /\ task = "connect"
    /\ task' = "resync"
    /\ proxy' = "running" /\ monitor' = "watching" /\ link' = "ok" /\ activity' = FALSE
    /\ UNCHANGED <<state, attempts, hb, missed, shutdown, events, panicked, faults>>

ResyncAnswered ==
    /\ task = "resync" /\ proxy = "running" /\ link = "ok"
    /\ task' = "answered"
    /\ UNCHANGED <<state, attempts, proxy, monitor, link, hb, missed, activity,
                   shutdown, events, panicked, faults>>

\* failed! after a timed out resync drops the new monitor, and so the proxy.
ResyncTimesOut_Fault ==
    /\ task = "resync"
    /\ task' = "failed"
    /\ UNCHANGED <<state, attempts, proxy, monitor, link, hb, missed, activity,
                   shutdown, events, panicked, faults>>
ResyncTimesOut ==
    /\ task = "resync"
    /\ task' = "failed"
    /\ Drop
    /\ UNCHANGED <<state, attempts, link, shutdown, events, panicked, faults>>

\* resync is over: the State::Connected value is built, its heartbeat spawned
ResyncDone ==
    /\ task = "answered" /\ attempts > 0
    /\ task' = "connected"
    /\ hb' = "armed" /\ missed' = 0
    /\ UNCHANGED <<state, attempts, proxy, monitor, link, activity, shutdown,
                   events, panicked, faults>>

\* The task awaiting reconnect_task installs its result, but only in place of
\* Reconnecting; a failure starts the next attempt at once.
InstallResult ==
    \/ /\ task = "connected"
       /\ task' = "idle" /\ state' = "Connected"
       /\ UNCHANGED <<attempts, events>>
    \/ /\ task = "failed"
       /\ StartAttempt(attempts)
FinishReconnect_FaultAlways ==
    /\ InstallResult
    /\ UNCHANGED <<proxy, monitor, hb, missed, activity, link, shutdown, panicked, faults>>
FinishReconnect_FaultNoRetry ==
    /\ task \in {"connected", "failed"}
    /\ task' = "idle"
    /\ state' = IF task = "connected" /\ state = "Reconnecting" THEN "Connected" ELSE state
    /\ UNCHANGED <<attempts, events, proxy, monitor, hb, missed, activity, link, shutdown,
                   panicked, faults>>
FinishReconnect_FaultKeeps ==
    /\ \/ /\ state = "Reconnecting"
          /\ InstallResult
          /\ UNCHANGED <<proxy, monitor, hb, missed, activity>>
       \/ /\ task \in {"connected", "failed"} /\ state # "Reconnecting"
          /\ task' = "idle"
          /\ UNCHANGED <<state, attempts, events, proxy, monitor, hb, missed, activity>>
    /\ UNCHANGED <<link, shutdown, panicked, faults>>
FinishReconnect ==
    /\ \/ /\ state = "Reconnecting"
          /\ InstallResult
          /\ UNCHANGED <<proxy, monitor, hb, missed, activity>>
       \/ /\ task \in {"connected", "failed"} /\ state # "Reconnecting"
          /\ task' = "idle"
          /\ Drop
          /\ UNCHANGED <<state, attempts, events>>
    /\ UNCHANGED <<link, shutdown, panicked, faults>>

-----------------------------------------------------------------------------
\* The monitor's io_task has ended: exit code 90 means there is no server, any
\* other end reconnects (refused unless the state allows it).
MonitorNoServer ==
    /\ monitor = "watching" /\ proxy = "noserver"
    /\ set_state("ServerNotRunning")
    /\ IF state \in Live
         THEN Drop
         ELSE monitor' = "done" /\ UNCHANGED <<proxy, hb, missed, activity>>
    /\ UNCHANGED <<attempts, task, link, shutdown, panicked, faults>>

MonitorReconnects ==
    /\ monitor = "watching" /\ proxy = "died"
    /\ IF can_reconnect
         THEN StartAttempt(0) /\ Drop
         ELSE /\ monitor' = "done"
              /\ UNCHANGED <<state, attempts, task, events, proxy, hb, missed, activity>>
    /\ UNCHANGED <<link, shutdown, panicked, faults>>

-----------------------------------------------------------------------------
\* The heartbeat task runs once the connection is installed (its first timer is
\* HEARTBEAT_INTERVAL away), until its owner is dropped.
HeartbeatRuns == hb # "off" /\ task # "connected" /\ ~panicked

\* handle_heartbeat_result, continuing as `next' unless it starts a reconnection
handle_heartbeat_result(n, next) ==
    IF state = "None"
      THEN /\ panicked' = TRUE
           /\ hb' = "off"
           /\ UNCHANGED <<state, attempts, task, proxy, monitor, missed, events>>
      ELSE /\ panicked' = panicked
           /\ IF n >= MAX_MISSED_HEARTBEATS /\ can_reconnect
                THEN /\ StartAttempt(0)
                     /\ proxy' = "none" /\ monitor' = "off" /\ hb' = "off" /\ missed' = 0
                ELSE /\ state' = IF state \notin Live THEN state
                                 ELSE IF n > 0 THEN "HeartbeatMissed" ELSE "Connected"
                     /\ hb' = IF n >= MAX_MISSED_HEARTBEATS THEN "off" ELSE next
                     /\ missed' = n
                     /\ UNCHANGED <<attempts, task, proxy, monitor, events>>

HeartbeatTimer ==
    /\ HeartbeatRuns /\ hb = "armed" /\ ~activity
    /\ hb' = "pinging"
    /\ UNCHANGED <<state, attempts, task, proxy, monitor, link, missed, activity,
                   shutdown, events, panicked, faults>>

\* Activity in the outer select: forgive missed heartbeats, set the timer again
HeartbeatActivity ==
    /\ HeartbeatRuns /\ hb \in {"armed", "spent"} /\ activity
    /\ activity' = FALSE
    /\ IF missed # 0
         THEN handle_heartbeat_result(0, "armed")
         ELSE /\ hb' = "armed"
              /\ UNCHANGED <<state, attempts, task, proxy, monitor, missed, events, panicked>>
    /\ UNCHANGED <<link, shutdown, faults>>

\* The io tasks are gone and with them the channel's senders.
ChannelClosed == proxy # "running" /\ ~activity
HeartbeatChannelClosed ==
    /\ HeartbeatRuns /\ hb \in {"armed", "spent"} /\ ChannelClosed
    /\ hb' = "off"
    /\ UNCHANGED <<state, attempts, task, proxy, monitor, link, missed, activity,
                   shutdown, events, panicked, faults>>

\* The ping counts as answered on any activity, the channel's end included.  If
\* no heartbeat was missed, `continue' goes back to the select with a timer that
\* has already fired.
HeartbeatAnswered(next) ==
    /\ HeartbeatRuns /\ hb = "pinging" /\ (activity \/ ChannelClosed)
    /\ activity' = FALSE
    /\ IF missed # 0
         THEN handle_heartbeat_result(0, "armed")
         ELSE /\ hb' = next
              /\ UNCHANGED <<state, attempts, task, proxy, monitor, missed, events, panicked>>
    /\ UNCHANGED <<link, shutdown, faults>>
HeartbeatPong == HeartbeatAnswered("spent")

HeartbeatTimeout ==
    /\ HeartbeatRuns /\ hb = "pinging" /\ ~activity /\ proxy = "running"
    /\ handle_heartbeat_result(missed + 1, "armed")
    /\ UNCHANGED <<activity, link, shutdown, faults>>

-----------------------------------------------------------------------------
\* shutdown_processes takes the state.  A connected one keeps its tasks until
\* the returned future has waited 50 ms; any other drops them at once.
Shutdown ==
    /\ shutdown = "no" /\ ~InNew /\ state # "None"
    /\ state' = "None"
    /\ IF state = "Connected"
         THEN shutdown' = "running" /\ UNCHANGED <<proxy, monitor, hb, missed, activity>>
         ELSE /\ shutdown' = "done"
              /\ IF state = "HeartbeatMissed" THEN Drop
                 ELSE UNCHANGED <<proxy, monitor, hb, missed, activity>>
    /\ UNCHANGED <<attempts, task, link, events, panicked, faults>>

ShutdownDone ==
    /\ shutdown = "running"
    /\ shutdown' = "done"
    /\ Drop
    /\ UNCHANGED <<state, attempts, task, link, events, panicked, faults>>

\* The debug command, with a number of attempts made up: acts on a connected
\* client, but takes the state of any.
force_heartbeat_timeout ==
    /\ faults < MaxFaults
    /\ faults' = faults + 1
    /\ ~InNew /\ state # "None"
    /\ IF state = "Connected"
         THEN (\E n \in 0..MAX_RECONNECT_ATTEMPTS : StartAttempt(n)) /\ Drop
         ELSE /\ state' = "None"
              /\ IF state = "HeartbeatMissed" THEN Drop
                 ELSE UNCHANGED <<proxy, monitor, hb, missed, activity>>
              /\ UNCHANGED <<attempts, task, events>>
    /\ UNCHANGED <<link, shutdown, panicked>>

-----------------------------------------------------------------------------
\* The server sends something (an answered ping included).
Traffic ==
    /\ proxy = "running" /\ link = "ok" /\ ~activity
    /\ activity' = TRUE
    /\ UNCHANGED <<state, attempts, task, proxy, monitor, link, hb, missed, shutdown,
                   events, panicked, faults>>

LinkFails ==
    /\ faults < MaxFaults /\ faults' = faults + 1
    /\ proxy = "running"
    /\ \/ link = "ok" /\ link' = "silent" /\ UNCHANGED proxy
       \/ proxy' \in {"died", "noserver"} /\ UNCHANGED link
    /\ UNCHANGED <<state, attempts, task, monitor, hb, missed, activity, shutdown,
                   events, panicked>>

Connecting ==
    \/ RemoteStarted \/ FirstPingAnswered \/ FirstConnectFails \/ FirstConnected
    \/ KillDone \/ KillOrConnectFails \/ Connect \/ ResyncAnswered \/ ResyncTimesOut
    \/ ResyncDone \/ FinishReconnect
Monitoring == MonitorNoServer \/ MonitorReconnects
Heartbeat ==
    \/ HeartbeatTimer \/ HeartbeatActivity \/ HeartbeatChannelClosed \/ HeartbeatPong
    \/ HeartbeatTimeout

StateNext ==
    \/ RemoteStarted \/ FirstPingAnswered \/ FirstConnectFails \/ FirstConnected
    \/ KillDone \/ KillOrConnectFails \/ Connect \/ ResyncAnswered \/ ResyncTimesOut
    \/ ResyncDone \/ FinishReconnect
    \/ MonitorNoServer \/ MonitorReconnects
    \/ HeartbeatTimer \/ HeartbeatActivity \/ HeartbeatChannelClosed \/ HeartbeatPong
    \/ HeartbeatTimeout
    \/ Shutdown \/ ShutdownDone \/ force_heartbeat_timeout
    \/ Traffic \/ LinkFails

StateSpec == StateInit /\ [][StateNext]_stateVars

\* The executor polls every woken task and fires every timer; the user, the
\* network and the server owe nothing.
FairStateSpec ==
    /\ StateSpec
    /\ WF_stateVars(Connecting) /\ WF_stateVars(Monitoring)
    /\ WF_stateVars(Heartbeat) /\ WF_stateVars(ShutdownDone)
-----------------------------------------------------------------------------
\* The workspace is told at most once that the connection is gone, and then no
\* task still under way (a reconnection, a heartbeat) brings the client back.
StaysTerminal ==
    /\ events' <= 1
    /\ ~InNew /\ state \in Terminal => state' \in Terminal \/ state' = "None"
TerminalIsFinal == [][StaysTerminal]_stateVars

\* Nobody owns two proxies: one runs only for a connection that is being made,
\* is installed, or is being shut down.
ProxyHasOwner ==
    proxy = "running" =>
        \/ task \in {"start", "ping", "answered", "resync", "connected"}
        \/ state \in Live
        \/ shutdown = "running"

\* Every reconnection ends: connected, given up, or shut down.
ReconnectingEnds == state = "Reconnecting" ~> state # "Reconnecting"

\* After a shutdown, whatever was under way, no proxy process stays.
ShutdownReapsProxy == shutdown # "no" ~> proxy # "running"

-----------------------------------------------------------------------------
\* What the code's comments assume and it does not keep; section 5 of the
\* README describes the behaviours.

\* handle_heartbeat_result never finds the state taken.  Violated: it runs
\* between shutdown_processes, which takes the state, and the end of its wait.
HeartbeatFindsState == ~panicked

\* A connected client's proxy is watched.  Violated: the monitor of a proxy that
\* dies during the resync is refused its reconnection and ends.
ConnectedIsWatched == state \in Live => monitor = "watching"

\* A link on which nothing arrives any more is noticed by the heartbeat.
\* Violated: after an answered heartbeat the timer is not set again.
SilenceNoticed == state \in Live /\ link = "silent" ~> state \notin Live \/ link # "silent"

\* The debug command leaves a client that is not connected alone.  Violated: it
\* takes the state before it looks at it.
IgnoresOther == force_heartbeat_timeout /\ state # "Connected" => state' = state
IgnoresOthers == [][IgnoresOther]_stateVars
=============================================================================
