----------------------------- MODULE RobotViewer -----------------------------
(***************************************************************************)
(* The Robot Viewer panels of the IDE and the native renderers they spawn. *)
(*                                                                         *)
(* A panel runs one connection task on the foreground executor.  The task  *)
(* gives way only where it awaits a subprocess or a timer (its HTTP        *)
(* requests block), so an action here is what the task does between two    *)
(* such points.  Replacing or dropping a Task cancels it.                  *)
(*                                                                         *)
(* Every renderer process wants the same HTTP port.  Docker, the simulator *)
(* container and the GPU are an environment that answers as it likes.      *)
(***************************************************************************)
EXTENDS Naturals, FiniteSets

CONSTANTS
    Viewer,         \* panels: at most one in each workspace
    Proc,           \* renderer processes; bounds how many are ever spawned
    MaxReady,       \* MAX_READY_ATTEMPTS
    MaxHealth       \* MAX_NATIVE_READY_ATTEMPTS

None == "none"

ASSUME ViewerAssumption ==
    /\ MaxReady \in Nat \ {0}
    /\ MaxHealth \in Nat \ {0}
    /\ None \notin Proc

VARIABLES
    open,       \* the panel exists
    phase, render_source, native_renderer,  \* fields of the panel
    task,       \* connection_task: where it waits and what it holds
    proc,       \* renderer processes
    port,       \* the process listening on NATIVE_RENDER_PORT
    venv,       \* the renderer's Python environment; bare: without its packages
    gpu         \* whether a renderer can get a hardware OpenGL context

panelVars == <<open, phase, render_source, native_renderer>>
hostVars == <<venv, gpu>>
vars == <<panelVars, task, proc, port, hostVars>>

Phase == {"Idle", "Launching", "Connected", "Waiting", "Error"}
Source == {"Container", "Native"}

\* Where the task waits: for a docker or node command, between two probes of
\* the simulator, for one of the two commands that install the venv, between
\* two health probes, or between two frames.  "ended": returned, or cancelled.
Point == {"ended", "ensure_image", "prepare_harness", "compose_up", "ready",
          "uv_venv", "uv_pip", "health", "polling"}
Task == [at: Point, attempt: 0..MaxReady \cup 0..MaxHealth,
         handle: Proc \cup {None}, source: Source]
Waits(point, n, p) ==
    [at |-> point, attempt |-> n, handle |-> p, source |-> "Container"]
At(point) == Waits(point, 0, None)
NoTask == At("ended")
Polling(source) ==
    [at |-> "polling", attempt |-> 0, handle |-> None, source |-> source]

\* A renderer serves HTTP from one thread and renders on another; "failed"
\* when the port was taken.  logged: its output pipes still have a reader.
Process == [life: {"unborn", "alive", "dead"}, http: {"no", "up", "failed"},
            renders: BOOLEAN, logged: BOOLEAN]
Unborn == [life |-> "unborn", http |-> "no", renders |-> FALSE, logged |-> TRUE]
Spawned == [Unborn EXCEPT !.life = "alive"]
Alive(p) == proc[p].life = "alive"
Killed(p) == [proc[p] EXCEPT !.life = "dead"]

TypeOK ==
    /\ open \in [Viewer -> BOOLEAN]
    /\ phase \in [Viewer -> Phase]
    /\ render_source \in [Viewer -> Source]
    /\ native_renderer \in [Viewer -> Proc \cup {None}]
    /\ task \in [Viewer -> Task]
    /\ proc \in [Proc -> Process]
    /\ port \in Proc \cup {None}
    /\ venv \in {"missing", "bare", "ready"}
    /\ gpu \in BOOLEAN

Init ==
    /\ open = [v \in Viewer |-> FALSE]
    /\ phase = [v \in Viewer |-> "Idle"]
    /\ render_source = [v \in Viewer |-> "Container"]
    /\ native_renderer = [v \in Viewer |-> None]
    /\ task = [v \in Viewer |-> NoTask]
    /\ proc = [p \in Proc |-> Unborn]
    /\ port = None
    /\ venv \in {"missing", "bare", "ready"}
    /\ gpu \in BOOLEAN

-----------------------------------------------------------------------------
(* Handles *)

\* Cancelling a task drops the handle it holds.  That does not kill the
\* process (only an explicit kill does), but it closes its output pipes.
Dropped(v) == task[v].handle

\* Fault: the renderer in use is forgotten, not killed.
Released_KeepsRunning(v) ==
    [p \in Proc |->
       IF p \in {native_renderer[v], Dropped(v)}
       THEN [proc[p] EXCEPT !.logged = FALSE] ELSE proc[p]]

\* What becomes of the processes when panel v kills the handle it has
\* stored and lets go of its task.
Released(v) ==
    [p \in Proc |->
       IF p = native_renderer[v]
       THEN [Killed(p) EXCEPT !.logged = FALSE]
       ELSE IF p = Dropped(v) THEN [proc[p] EXCEPT !.logged = FALSE] ELSE proc[p]]

\* An installation that was cancelled goes on by itself.
VenvAfter(v) ==
    \/ venv' = venv
    \/ task[v].at = "uv_venv" /\ venv' = "bare"
    \/ task[v].at = "uv_pip" /\ venv' = "ready"

PortAfter(procs) == IF port # None /\ procs[port].life = "alive" THEN port ELSE None

-----------------------------------------------------------------------------
(* The user *)

\* Fault: the panel goes on sending camera commands to the old renderer.
Start_KeepsSource(v) ==
    /\ phase' = [phase EXCEPT ![v] = "Launching"]
    /\ native_renderer' = [native_renderer EXCEPT ![v] = None]
    /\ task' = [task EXCEPT ![v] = At("ensure_image")]
    /\ proc' = Released(v)
    /\ port' = PortAfter(proc')
    /\ VenvAfter(v)
    /\ UNCHANGED <<render_source, gpu>>

\* start: the fields are reset, the stored renderer is killed and the new
\* task takes the place of the old one.
Start(v) ==
    /\ phase' = [phase EXCEPT ![v] = "Launching"]
    /\ render_source' = [render_source EXCEPT ![v] = "Container"]
    /\ native_renderer' = [native_renderer EXCEPT ![v] = None]
    /\ task' = [task EXCEPT ![v] = At("ensure_image")]
    /\ proc' = Released(v)
    /\ port' = PortAfter(proc')
    /\ VenvAfter(v)
    /\ UNCHANGED gpu

OpenPanel(v) ==
    /\ ~open[v]
    /\ open' = [open EXCEPT ![v] = TRUE]
    /\ Start(v)

Busy(v) == phase[v] \in {"Launching", "Waiting"}

\* The button is disabled while the panel is busy.
Reconnect(v) ==
    /\ open[v]
    /\ ~Busy(v)
    /\ Start(v)
    /\ UNCHANGED open

\* Drop for CyberRobotViewer, then of its fields.
ClosePanel(v) ==
    /\ open[v]
    /\ open' = [open EXCEPT ![v] = FALSE]
    /\ phase' = [phase EXCEPT ![v] = "Idle"]
    /\ render_source' = [render_source EXCEPT ![v] = "Container"]
    /\ native_renderer' = [native_renderer EXCEPT ![v] = None]
    /\ task' = [task EXCEPT ![v] = NoTask]
    /\ proc' = Released(v)
    /\ port' = PortAfter(proc')
    /\ VenvAfter(v)
    /\ UNCHANGED gpu

-----------------------------------------------------------------------------
(* The connection task *)

\* Fault: the task ends but the panel still looks busy.
Fail_StaysBusy(v) ==
    /\ task' = [task EXCEPT ![v] = NoTask]
    /\ UNCHANGED <<panelVars, proc, port, hostVars>>

\* update_error, after which the task returns.
Fail(v) ==
    /\ phase' = [phase EXCEPT ![v] = "Error"]
    /\ task' = [task EXCEPT ![v] = NoTask]
    /\ UNCHANGED <<open, render_source, native_renderer, proc, port, hostVars>>

\* The image check, with the build where one is needed, and the harness.
CommandEnds(v, point, next) ==
    /\ task[v].at = point
    /\ \/ /\ task' = [task EXCEPT ![v] = At(next)]
          /\ UNCHANGED <<panelVars, proc, port, hostVars>>
       \/ Fail(v)

\* The renderer is stored only now that something answers on its port.
RendererHealthy(v, p) ==
    /\ port # None
    /\ native_renderer' = [native_renderer EXCEPT ![v] = p]
    /\ render_source' = [render_source EXCEPT ![v] = "Native"]
    /\ task' = [task EXCEPT ![v] = Polling("Native")]

\* Poll the container, which the panel does whenever the renderer fails.
UseContainer(v) ==
    /\ task' = [task EXCEPT ![v] = Polling("Container")]
    /\ UNCHANGED <<render_source, native_renderer>>

\* A health probe that fails starts a timer, the last one too.
HealthTimer(v, p, n) ==
    /\ task' = [task EXCEPT ![v] = Waits("health", n, p)]
    /\ UNCHANGED <<render_source, native_renderer>>

\* Spawn the renderer and probe its port for the first time.
SpawnRenderer(v) ==
    \/ \E p \in Proc :
         /\ proc[p] = Unborn
         /\ proc' = [proc EXCEPT ![p] = Spawned]
         /\ RendererHealthy(v, p) \/ HealthTimer(v, p, 1)
    \/ UseContainer(v) /\ UNCHANGED proc

\* setup_native_renderer up to its first wait.
SetupRenderer(v) ==
    \/ venv # "missing" /\ SpawnRenderer(v)
    \/ /\ venv = "missing"
       /\ task' = [task EXCEPT ![v] = At("uv_venv")]
       /\ UNCHANGED <<render_source, native_renderer, proc>>

\* Fault: the task returns after the last attempt without reporting the error.
Probe_GivesUpSilently(v, n) ==
    \/ /\ phase' = [phase EXCEPT ![v] = "Connected"]
       /\ SetupRenderer(v)
       /\ UNCHANGED <<open, port, hostVars>>
    \/ /\ phase' = [phase EXCEPT ![v] = "Waiting"]
       /\ task' = [task EXCEPT ![v] = IF n < MaxReady THEN Waits("ready", n, None)
                                                     ELSE NoTask]
       /\ UNCHANGED <<open, render_source, native_renderer, proc, port, hostVars>>

\* Attempt n of the wait for the simulator's ports.
Probe(v, n) ==
    \/ /\ phase' = [phase EXCEPT ![v] = "Connected"]
       /\ SetupRenderer(v)
       /\ UNCHANGED <<open, port, hostVars>>
    \/ /\ n < MaxReady
       /\ phase' = [phase EXCEPT ![v] = "Waiting"]
       /\ task' = [task EXCEPT ![v] = Waits("ready", n, None)]
       /\ UNCHANGED <<open, render_source, native_renderer, proc, port, hostVars>>
    \/ n = MaxReady /\ Fail(v)

ComposeUpEnds(v) ==
    /\ task[v].at = "compose_up"
    /\ Fail(v) \/ Probe(v, 1)

RetryProbe(v) ==
    /\ task[v].at = "ready"
    /\ Probe(v, task[v].attempt + 1)

\* ensure_native_renderer_env: the interpreter first, then its packages.  A
\* venv without packages passes for an installed one from then on.
VenvCreated(v) ==
    /\ task[v].at = "uv_venv"
    /\ \/ /\ venv' = "bare"
          /\ task' = [task EXCEPT ![v] = At("uv_pip")]
          /\ UNCHANGED <<render_source, native_renderer>>
       \/ UseContainer(v) /\ UNCHANGED venv
    /\ UNCHANGED <<open, phase, proc, port, gpu>>

PackagesInstalled(v) ==
    /\ task[v].at = "uv_pip"
    /\ \/ venv' = "ready" /\ SpawnRenderer(v)
       \/ UseContainer(v) /\ UNCHANGED <<venv, proc>>
    /\ UNCHANGED <<open, phase, port, gpu>>

\* After the last attempt the renderer is killed.
RetryHealth(v) ==
    LET p == task[v].handle
        n == task[v].attempt
    IN  /\ task[v].at = "health"
        /\ IF n = MaxHealth
           THEN /\ UseContainer(v)
                /\ proc' = [proc EXCEPT ![p] = [Killed(p) EXCEPT !.logged = FALSE]]
                /\ port' = PortAfter(proc')
           ELSE /\ RendererHealthy(v, p) \/ HealthTimer(v, p, n + 1)
                /\ UNCHANGED <<proc, port>>
        /\ UNCHANGED <<open, phase, hostVars>>

\* The status probe of the polling loop; a frame that cannot be fetched is
\* skipped.
PollStatus(v) ==
    /\ task[v].at = "polling"
    /\ \E result \in {"Connected", "Waiting"} : phase' = [phase EXCEPT ![v] = result]
    /\ UNCHANGED <<open, render_source, native_renderer, task, proc, port, hostVars>>

TaskStep(v) ==
    \/ CommandEnds(v, "ensure_image", "prepare_harness")
    \/ CommandEnds(v, "prepare_harness", "compose_up")
    \/ ComposeUpEnds(v)
    \/ RetryProbe(v)
    \/ VenvCreated(v)
    \/ PackagesInstalled(v)
    \/ RetryHealth(v)
    \/ PollStatus(v)

-----------------------------------------------------------------------------
(* The renderer processes *)

\* The HTTP thread.  Health is answered as soon as it listens.
ServeHttp(p) ==
    /\ Alive(p)
    /\ proc[p].http = "no"
    /\ venv = "ready"
    /\ proc' = [proc EXCEPT ![p].http = IF port = None THEN "up" ELSE "failed"]
    /\ port' = IF port = None THEN p ELSE port
    /\ UNCHANGED <<panelVars, task, hostVars>>

Exit(p) ==
    /\ proc' = [proc EXCEPT ![p] = Killed(p)]
    /\ port' = PortAfter(proc')
    /\ UNCHANGED <<panelVars, task, hostVars>>

\* The main thread imports its packages, gets its OpenGL context and reports
\* so on its standard output; it ends with an exception where one fails.
CreateRenderer(p) ==
    /\ Alive(p)
    /\ ~proc[p].renders
    /\ IF venv = "ready" /\ gpu /\ proc[p].logged
       THEN /\ proc' = [proc EXCEPT ![p].renders = TRUE]
            /\ UNCHANGED <<panelVars, task, port, hostVars>>
       ELSE Exit(p)

Crash(p) ==
    /\ Alive(p)
    /\ Exit(p)

Next ==
    \/ \E v \in Viewer :
         OpenPanel(v) \/ Reconnect(v) \/ ClosePanel(v) \/ TaskStep(v)
    \/ \E p \in Proc : ServeHttp(p) \/ CreateRenderer(p) \/ Crash(p)

Spec == Init /\ [][Next]_vars

\* Commands end, timers fire and the executor polls the task.
FairSpec == Spec /\ \A v \in Viewer : WF_vars(TaskStep(v))
-----------------------------------------------------------------------------
(* Properties *)

\* A panel that looks busy is open and has a task still at work: no error path
\* ends the task with the reconnect button disabled for good.  (The button need
\* not come back: while the simulator is dead each probe of the polling loop
\* sets Waiting again, and only closing the panel helps.)
BusyPanelHasTask ==
    \A v \in Viewer : Busy(v) => open[v] /\ task[v].at # "ended"

\* While a panel polls frames, they come from the server that its camera
\* commands go to: the copy in the task agrees with the panel's field.
FramesFollowCamera ==
    \A v \in Viewer : task[v].at = "polling" => task[v].source = render_source[v]

Held(p) == \E v \in Viewer : p \in {native_renderer[v], task[v].handle}

LetsGoOnlyOfAwaited ==
    \A p \in Proc :
      Held(p) /\ Alive(p) /\ ~Held(p)' =>
        ~Alive(p)' \/ \E v \in Viewer : task[v].at = "health" /\ task[v].handle = p

\* No step lets go of a running renderer, except one that cancels a task
\* which is waiting for that renderer's health.
OrphansOnlyFromHealthWait == [][LetsGoOnlyOfAwaited]_vars

\* Every launch comes to a result, unless the panel is closed.
LaunchResolves ==
    \A v \in Viewer :
      phase[v] = "Launching" ~> phase[v] \in {"Connected", "Error", "Idle"}

-----------------------------------------------------------------------------
\* What comments of the panel promise and it does not keep; section 5 of the
\* README describes the behaviours.

\* A renderer does not outlive the panels: with all of them closed, none is
\* rendering.  Violated through the health wait.
RendererDoesNotOutlivePanel ==
    (\A v \in Viewer : ~open[v]) => \A p \in Proc : ~(Alive(p) /\ proc[p].renders)

\* Where no hardware OpenGL is to be had, panels use the container's frames.
\* Violated: the renderer answers the health probe without it.
FallsBackWithoutGpu ==
    ~gpu => \A v \in Viewer : render_source[v] = "Container"
=============================================================================
