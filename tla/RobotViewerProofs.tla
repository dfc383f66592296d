-------------------------- MODULE RobotViewerProofs --------------------------
(***************************************************************************)
(* Proofs about RobotViewer, for any number of panels and processes.       *)
(*                                                                         *)
(* Each property is about one panel at a time, so the invariant says for   *)
(* each panel what its task may hold at each point where it waits: a       *)
(* handle only while it waits for health, and a stored renderer or the     *)
(* Native source only once it polls.                                       *)
(***************************************************************************)
EXTENDS RobotViewer, TLAPS

\* Before it polls, a panel has no stored renderer and uses the container.
Setup == {"ensure_image", "prepare_harness", "compose_up", "ready", "uv_venv",
          "uv_pip", "health"}

PanelInv(v) ==
    /\ task[v].at # "ended" => open[v]
    /\ Busy(v) => task[v].at # "ended"
    /\ task[v].handle # None => task[v].at = "health"
    /\ task[v].at = "health" => task[v].handle \in Proc
    /\ task[v].at \in Setup => /\ native_renderer[v] = None
                               /\ render_source[v] = "Container"
    /\ task[v].at = "polling" => task[v].source = render_source[v]
    /\ task[v].at = "ready" => task[v].attempt \in 1..(MaxReady - 1)
    /\ task[v].at = "health" => task[v].attempt \in 1..MaxHealth

Inv == TypeOK /\ \A v \in Viewer : PanelInv(v)

-----------------------------------------------------------------------------

\* The shapes a task takes, and their types.
LEMMA TaskTypes ==
    /\ NoTask \in Task
    /\ \A point \in Point : At(point) \in Task
    /\ \A n \in 0..MaxReady \cup 0..MaxHealth, p \in Proc \cup {None} :
         Waits("health", n, p) \in Task /\ Waits("ready", n, p) \in Task
    /\ \A source \in Source : Polling(source) \in Task
BY ViewerAssumption DEF NoTask, At, Waits, Polling, Task, Point, Source

\* A renderer that is killed, or whose pipes are closed, is still a process.
LEMMA ReleasedTypes ==
    ASSUME TypeOK, NEW v \in Viewer
    PROVE  /\ Released(v) \in [Proc -> Process]
           /\ \A p \in Proc : p = native_renderer[v] => Released(v)[p].life = "dead"
<1>1. \A p \in Proc : proc[p] \in Process
  BY DEF TypeOK
<1>2. \A p \in Proc : [Killed(p) EXCEPT !.logged = FALSE] \in Process
  BY <1>1 DEF Killed, Process
<1>3. \A p \in Proc : [proc[p] EXCEPT !.logged = FALSE] \in Process
  BY <1>1 DEF Process
<1>4. \A p \in Proc : [Killed(p) EXCEPT !.logged = FALSE].life = "dead"
  BY <1>1 DEF Killed, Process
<1> QED
  BY <1>1, <1>2, <1>3, <1>4 DEF Released

\* The port is held by a process or by none.
LEMMA PortTypes ==
    ASSUME TypeOK, NEW procs
    PROVE  PortAfter(procs) \in Proc \cup {None}
BY DEF TypeOK, PortAfter

\* A step of panel v that leaves the other panels alone keeps the invariant
\* when it keeps it for v.
LEMMA OnePanel ==
    ASSUME Inv, TypeOK', NEW v \in Viewer, PanelInv(v)',
           \A w \in Viewer \ {v} :
             /\ open'[w] = open[w] /\ phase'[w] = phase[w] /\ task'[w] = task[w]
             /\ native_renderer'[w] = native_renderer[w]
             /\ render_source'[w] = render_source[w]
    PROVE  Inv'
BY DEF Inv, PanelInv, Busy

-----------------------------------------------------------------------------

\* Opening a panel, reconnecting it and closing it.
LEMMA StartKeeps ==
    ASSUME Inv, NEW v \in Viewer, Start(v), open' \in [Viewer -> BOOLEAN], open'[v],
           \A w \in Viewer \ {v} : open'[w] = open[w]
    PROVE  Inv'
<1>1. TypeOK'
  <2>1. venv' \in {"missing", "bare", "ready"} /\ gpu' \in BOOLEAN
    BY DEF Inv, TypeOK, Start, VenvAfter
  <2>2. proc' \in [Proc -> Process] /\ port' \in Proc \cup {None}
    BY ReleasedTypes, PortTypes DEF Inv, Start
  <2>3. task' \in [Viewer -> Task]
    BY TaskTypes DEF Inv, TypeOK, Start, Point
  <2>4. /\ phase' \in [Viewer -> Phase] /\ render_source' \in [Viewer -> Source]
        /\ native_renderer' \in [Viewer -> Proc \cup {None}]
    BY DEF Inv, TypeOK, Start, Phase, Source
  <2> QED
    BY <2>1, <2>2, <2>3, <2>4 DEF TypeOK
<1>2. /\ task'[v] = At("ensure_image") /\ native_renderer'[v] = None
      /\ render_source'[v] = "Container" /\ phase'[v] = "Launching"
  BY DEF Inv, TypeOK, Start
<1>3. PanelInv(v)'
  BY <1>2, ViewerAssumption DEF PanelInv, At, Waits
<1>4. \A w \in Viewer \ {v} :
        /\ phase'[w] = phase[w] /\ task'[w] = task[w]
        /\ native_renderer'[w] = native_renderer[w]
        /\ render_source'[w] = render_source[w]
  BY DEF Inv, TypeOK, Start
<1> QED
  BY <1>1, <1>3, <1>4, OnePanel

LEMMA CloseKeeps ==
    ASSUME Inv, NEW v \in Viewer, ClosePanel(v)
    PROVE  Inv'
<1>1. TypeOK'
  <2>1. venv' \in {"missing", "bare", "ready"} /\ gpu' \in BOOLEAN
    BY DEF Inv, TypeOK, ClosePanel, VenvAfter
  <2>2. proc' \in [Proc -> Process] /\ port' \in Proc \cup {None}
    BY ReleasedTypes, PortTypes DEF Inv, ClosePanel
  <2>3. task' \in [Viewer -> Task]
    BY TaskTypes DEF Inv, TypeOK, ClosePanel
  <2>4. /\ phase' \in [Viewer -> Phase] /\ render_source' \in [Viewer -> Source]
        /\ native_renderer' \in [Viewer -> Proc \cup {None}]
        /\ open' \in [Viewer -> BOOLEAN]
    BY DEF Inv, TypeOK, ClosePanel, Phase, Source
  <2> QED
    BY <2>1, <2>2, <2>3, <2>4 DEF TypeOK
<1>2. /\ task'[v] = NoTask /\ native_renderer'[v] = None
      /\ render_source'[v] = "Container" /\ phase'[v] = "Idle"
  BY DEF Inv, TypeOK, ClosePanel
<1>3. PanelInv(v)'
  BY <1>2 DEF PanelInv, NoTask, At, Waits, Busy, Setup
<1>4. \A w \in Viewer \ {v} :
        /\ open'[w] = open[w] /\ phase'[w] = phase[w] /\ task'[w] = task[w]
        /\ native_renderer'[w] = native_renderer[w]
        /\ render_source'[w] = render_source[w]
  BY DEF Inv, TypeOK, ClosePanel
<1> QED
  BY <1>1, <1>3, <1>4, OnePanel

LEMMA FailKeeps ==
    ASSUME Inv, NEW v \in Viewer, Fail(v)
    PROVE  Inv'
<1>1. TypeOK'
  <2>1. task' \in [Viewer -> Task] /\ phase' \in [Viewer -> Phase]
    BY TaskTypes DEF Inv, TypeOK, Fail, Phase
  <2> QED
    BY <2>1 DEF Inv, TypeOK, Fail, hostVars
<1>2. task'[v] = NoTask /\ phase'[v] = "Error"
  BY DEF Inv, TypeOK, Fail
<1>3. PanelInv(v)'
  BY <1>2 DEF PanelInv, NoTask, At, Waits, Busy, Setup
<1>4. \A w \in Viewer \ {v} :
        /\ open'[w] = open[w] /\ phase'[w] = phase[w] /\ task'[w] = task[w]
        /\ native_renderer'[w] = native_renderer[w]
        /\ render_source'[w] = render_source[w]
  BY DEF Inv, TypeOK, Fail
<1> QED
  BY <1>1, <1>3, <1>4, OnePanel

LEMMA CommandKeeps ==
    ASSUME Inv, NEW v \in Viewer, NEW point \in Setup,
           NEW next \in {"prepare_harness", "compose_up"}, CommandEnds(v, point, next)
    PROVE  Inv'
<1>1. CASE Fail(v)
  BY <1>1, FailKeeps
<1>2. CASE /\ task' = [task EXCEPT ![v] = At(next)]
           /\ UNCHANGED <<panelVars, proc, port, hostVars>>
  <2>1. TypeOK'
    <3>1. next \in Point
      BY DEF Setup, Point
    <3>2. task' \in [Viewer -> Task]
      BY <1>2, <3>1, TaskTypes DEF Inv, TypeOK
    <3> QED
      BY <1>2, <3>2 DEF Inv, TypeOK, panelVars, hostVars
  <2>2. task'[v] = At(next)
    BY <1>2 DEF Inv, TypeOK
  <2>3. task[v].at \in Setup /\ task[v].at # "ended"
    BY DEF CommandEnds, Setup
  <2>4. PanelInv(v)'
    BY <1>2, <2>2, <2>3 DEF Inv, PanelInv, At, Waits, Busy, Setup, panelVars
  <2>5. \A w \in Viewer \ {v} :
          /\ open'[w] = open[w] /\ phase'[w] = phase[w] /\ task'[w] = task[w]
          /\ native_renderer'[w] = native_renderer[w]
          /\ render_source'[w] = render_source[w]
    BY <1>2 DEF Inv, TypeOK, panelVars
  <2> QED
    BY <2>1, <2>4, <2>5, OnePanel
<1> QED
  BY <1>1, <1>2 DEF CommandEnds

-----------------------------------------------------------------------------

\* The ways out of a step of the renderer's setup: the renderer is stored,
\* given up, waited for, or the next command is waited for.  Each keeps the
\* panel's invariant when the panel was being set up.
LEMMA OutcomeKeeps ==
    ASSUME Inv, NEW v \in Viewer, task[v].at \in Setup,
           UNCHANGED open,
           phase' \in [Viewer -> Phase],
           \A w \in Viewer \ {v} : phase'[w] = phase[w],
           proc' \in [Proc -> Process], port' \in Proc \cup {None},
           venv' \in {"missing", "bare", "ready"}, gpu' = gpu,
           \/ \E p \in Proc : RendererHealthy(v, p)
           \/ UseContainer(v)
           \/ \E p \in Proc, n \in 1..MaxHealth : HealthTimer(v, p, n)
           \/ \E next \in {"uv_venv", "uv_pip"} :
                /\ task' = [task EXCEPT ![v] = At(next)]
                /\ UNCHANGED <<render_source, native_renderer>>
    PROVE  Inv'
<1>1. /\ open[v] /\ native_renderer[v] = None /\ render_source[v] = "Container"
  BY DEF Inv, PanelInv, Setup
<1>2. ASSUME NEW p \in Proc, RendererHealthy(v, p)
      PROVE  Inv'
  <2>1. /\ task' \in [Viewer -> Task] /\ render_source' \in [Viewer -> Source]
        /\ native_renderer' \in [Viewer -> Proc \cup {None}]
    BY <1>2, TaskTypes DEF RendererHealthy, Inv, TypeOK, Source
  <2>2. TypeOK'
    BY <2>1 DEF Inv, TypeOK
  <2>3. task'[v] = Polling("Native") /\ render_source'[v] = "Native"
    BY <1>2 DEF RendererHealthy, Inv, TypeOK
  <2>4. PanelInv(v)'
    BY <1>1, <2>3 DEF PanelInv, Polling, Setup
  <2>5. \A w \in Viewer \ {v} :
          /\ task'[w] = task[w] /\ native_renderer'[w] = native_renderer[w]
          /\ render_source'[w] = render_source[w]
    BY <1>2 DEF RendererHealthy, Inv, TypeOK
  <2> QED
    BY <2>2, <2>4, <2>5, OnePanel
<1>3. CASE UseContainer(v)
  <2>1. task' \in [Viewer -> Task]
    BY <1>3, TaskTypes DEF UseContainer, Inv, TypeOK, Source
  <2>2. TypeOK'
    BY <1>3, <2>1 DEF UseContainer, Inv, TypeOK
  <2>3. task'[v] = Polling("Container") /\ render_source'[v] = "Container"
    BY <1>1, <1>3 DEF UseContainer, Inv, TypeOK
  <2>4. PanelInv(v)'
    BY <1>1, <2>3 DEF PanelInv, Polling, Setup
  <2>5. \A w \in Viewer \ {v} :
          /\ task'[w] = task[w] /\ native_renderer'[w] = native_renderer[w]
          /\ render_source'[w] = render_source[w]
    BY <1>3 DEF UseContainer, Inv, TypeOK
  <2> QED
    BY <2>2, <2>4, <2>5, OnePanel
<1>4. ASSUME NEW p \in Proc, NEW n \in 1..MaxHealth, HealthTimer(v, p, n)
      PROVE  Inv'
  <2>1. task' \in [Viewer -> Task]
    BY <1>4, TaskTypes, ViewerAssumption DEF HealthTimer, Inv, TypeOK
  <2>2. TypeOK'
    BY <1>4, <2>1 DEF HealthTimer, Inv, TypeOK
  <2>3. /\ task'[v] = Waits("health", n, p) /\ render_source'[v] = "Container"
        /\ native_renderer'[v] = None
    BY <1>1, <1>4 DEF HealthTimer, Inv, TypeOK
  <2>4. PanelInv(v)'
    BY <1>1, <2>3 DEF PanelInv, Waits, Setup
  <2>5. \A w \in Viewer \ {v} :
          /\ task'[w] = task[w] /\ native_renderer'[w] = native_renderer[w]
          /\ render_source'[w] = render_source[w]
    BY <1>4 DEF HealthTimer, Inv, TypeOK
  <2> QED
    BY <2>2, <2>4, <2>5, OnePanel
<1>5. ASSUME NEW next \in {"uv_venv", "uv_pip"},
             task' = [task EXCEPT ![v] = At(next)],
             UNCHANGED <<render_source, native_renderer>>
      PROVE  Inv'
  <2>1. task' \in [Viewer -> Task]
    BY <1>5, TaskTypes DEF Inv, TypeOK, Point
  <2>2. TypeOK'
    BY <1>5, <2>1 DEF Inv, TypeOK
  <2>3. /\ task'[v] = At(next) /\ render_source'[v] = "Container"
        /\ native_renderer'[v] = None
    BY <1>1, <1>5 DEF Inv, TypeOK
  <2>4. PanelInv(v)'
    BY <1>1, <2>3 DEF PanelInv, At, Waits, Setup
  <2>5. \A w \in Viewer \ {v} :
          /\ task'[w] = task[w] /\ native_renderer'[w] = native_renderer[w]
          /\ render_source'[w] = render_source[w]
    BY <1>5 DEF Inv, TypeOK
  <2> QED
    BY <2>2, <2>4, <2>5, OnePanel
<1> QED
  BY <1>2, <1>3, <1>4, <1>5

\* Spawning a renderer, and the types of the processes after it.
LEMMA SpawnFacts ==
    ASSUME TypeOK, NEW v \in Viewer, SpawnRenderer(v)
    PROVE  /\ proc' \in [Proc -> Process]
           /\ \/ \E p \in Proc : RendererHealthy(v, p)
              \/ UseContainer(v)
              \/ \E p \in Proc : HealthTimer(v, p, 1)
<1>1. Spawned \in Process
  BY DEF Spawned, Unborn, Process
<1>2. proc' \in [Proc -> Process]
  BY <1>1 DEF SpawnRenderer, TypeOK
<1> QED
  BY <1>2 DEF SpawnRenderer

\* An attempt to reach the simulator, from a panel that is being launched.
LEMMA ProbeKeeps ==
    ASSUME Inv, NEW v \in Viewer, task[v].at \in Setup,
           NEW n \in 1..MaxReady, Probe(v, n)
    PROVE  Inv'
<1> DEFINE connects == /\ phase' = [phase EXCEPT ![v] = "Connected"]
                       /\ SetupRenderer(v)
                       /\ UNCHANGED <<open, port, hostVars>>
           waits == /\ n < MaxReady
                    /\ phase' = [phase EXCEPT ![v] = "Waiting"]
                    /\ task' = [task EXCEPT ![v] = Waits("ready", n, None)]
                    /\ UNCHANGED <<open, render_source, native_renderer, proc, port, hostVars>>
<1>1. CASE connects
  <2>1. /\ phase' \in [Viewer -> Phase]
        /\ \A w \in Viewer \ {v} : phase'[w] = phase[w]
        /\ UNCHANGED open /\ port' \in Proc \cup {None}
        /\ venv' \in {"missing", "bare", "ready"} /\ gpu' = gpu
    BY <1>1 DEF Inv, TypeOK, Phase, hostVars
  <2>2. SetupRenderer(v)
    BY <1>1
  <2>3. CASE SpawnRenderer(v)
    BY <2>1, <2>3, SpawnFacts, OutcomeKeeps, ViewerAssumption DEF Inv
  <2>4. CASE /\ task' = [task EXCEPT ![v] = At("uv_venv")]
             /\ UNCHANGED <<render_source, native_renderer, proc>>
    <3>1. proc' \in [Proc -> Process]
      BY <2>4 DEF Inv, TypeOK
    <3> QED
      BY <2>1, <2>4, <3>1, OutcomeKeeps
  <2> QED
    BY <2>2, <2>3, <2>4 DEF SetupRenderer
<1>2. CASE waits
  <2>1. task' \in [Viewer -> Task] /\ phase' \in [Viewer -> Phase]
    BY <1>2, TaskTypes, ViewerAssumption DEF Inv, TypeOK, Phase
  <2>2. TypeOK'
    BY <1>2, <2>1 DEF Inv, TypeOK, hostVars
  <2>3. task'[v] = Waits("ready", n, None)
    BY <1>2 DEF Inv, TypeOK
  <2>4. PanelInv(v)'
    BY <1>2, <2>3, ViewerAssumption DEF Inv, PanelInv, Waits, Setup
  <2>5. \A w \in Viewer \ {v} :
          /\ open'[w] = open[w] /\ phase'[w] = phase[w] /\ task'[w] = task[w]
          /\ native_renderer'[w] = native_renderer[w]
          /\ render_source'[w] = render_source[w]
    BY <1>2 DEF Inv, TypeOK
  <2> QED
    BY <2>2, <2>4, <2>5, OnePanel
<1>3. CASE Fail(v)
  BY <1>3, FailKeeps
<1> QED
  BY <1>1, <1>2, <1>3 DEF Probe

LEMMA RetryProbeKeeps ==
    ASSUME Inv, NEW v \in Viewer, RetryProbe(v)
    PROVE  Inv'
<1>1. task[v].at = "ready" /\ Probe(v, task[v].attempt + 1)
  BY DEF RetryProbe
<1>2. task[v].attempt \in 1..(MaxReady - 1)
  BY <1>1 DEF Inv, PanelInv
<1>3. task[v].attempt + 1 \in 1..MaxReady
  BY <1>2, ViewerAssumption
<1> QED
  BY <1>1, <1>3, ProbeKeeps DEF Setup

LEMMA ComposeKeeps ==
    ASSUME Inv, NEW v \in Viewer, ComposeUpEnds(v)
    PROVE  Inv'
<1>1. 1 \in 1..MaxReady
  BY ViewerAssumption
<1> QED
  BY <1>1, ProbeKeeps, FailKeeps DEF ComposeUpEnds, Setup

\* The two commands that install the renderer's environment.
LEMMA InstallKeeps ==
    ASSUME Inv, NEW v \in Viewer, VenvCreated(v) \/ PackagesInstalled(v)
    PROVE  Inv'
<1>1. /\ task[v].at \in Setup /\ UNCHANGED <<open, phase, port, gpu>>
  BY DEF VenvCreated, PackagesInstalled, Setup
<1>2. /\ phase' \in [Viewer -> Phase] /\ port' \in Proc \cup {None}
      /\ \A w \in Viewer \ {v} : phase'[w] = phase[w]
  BY <1>1 DEF Inv, TypeOK
<1>3. CASE VenvCreated(v)
  <2>1. proc' \in [Proc -> Process] /\ venv' \in {"missing", "bare", "ready"}
    BY <1>3 DEF VenvCreated, Inv, TypeOK
  <2>2. \/ UseContainer(v)
        \/ \E next \in {"uv_venv", "uv_pip"} :
             /\ task' = [task EXCEPT ![v] = At(next)]
             /\ UNCHANGED <<render_source, native_renderer>>
    BY <1>3 DEF VenvCreated
  <2> QED
    BY <1>1, <1>2, <2>1, <2>2, OutcomeKeeps
<1>4. CASE PackagesInstalled(v)
  <2>1. CASE venv' = "ready" /\ SpawnRenderer(v)
    <3>1. 1 \in 1..MaxHealth
      BY ViewerAssumption
    <3> QED
      BY <1>1, <1>2, <2>1, <3>1, SpawnFacts, OutcomeKeeps DEF Inv
  <2>2. CASE UseContainer(v) /\ UNCHANGED <<venv, proc>>
    <3>1. proc' \in [Proc -> Process] /\ venv' \in {"missing", "bare", "ready"}
      BY <2>2 DEF Inv, TypeOK
    <3> QED
      BY <1>1, <1>2, <2>2, <3>1, OutcomeKeeps
  <2> QED
    BY <1>4, <2>1, <2>2 DEF PackagesInstalled
<1> QED
  BY <1>3, <1>4

LEMMA HealthKeeps ==
    ASSUME Inv, NEW v \in Viewer, RetryHealth(v)
    PROVE  Inv'
<1> DEFINE p == task[v].handle
           n == task[v].attempt
<1>1. /\ task[v].at = "health" /\ UNCHANGED <<open, phase, venv, gpu>>
  BY DEF RetryHealth, hostVars
<1>2. p \in Proc /\ n \in 1..MaxHealth /\ task[v].at \in Setup
  BY <1>1 DEF Inv, PanelInv, Setup
<1>3. /\ phase' \in [Viewer -> Phase] /\ venv' \in {"missing", "bare", "ready"}
      /\ \A w \in Viewer \ {v} : phase'[w] = phase[w]
  BY <1>1 DEF Inv, TypeOK
<1>4. CASE n = MaxHealth
  <2>1. /\ UseContainer(v)
        /\ proc' = [proc EXCEPT ![p] = [Killed(p) EXCEPT !.logged = FALSE]]
        /\ port' = PortAfter(proc')
    BY <1>4 DEF RetryHealth
  <2>2. [Killed(p) EXCEPT !.logged = FALSE] \in Process
    BY <1>2 DEF Inv, TypeOK, Killed, Process
  <2>3. proc' \in [Proc -> Process] /\ port' \in Proc \cup {None}
    BY <2>1, <2>2, PortTypes DEF Inv, TypeOK
  <2> QED
    BY <1>1, <1>2, <1>3, <2>1, <2>3, OutcomeKeeps
<1>5. CASE n # MaxHealth
  <2>1. /\ RendererHealthy(v, p) \/ HealthTimer(v, p, n + 1)
        /\ UNCHANGED <<proc, port>>
    BY <1>5 DEF RetryHealth
  <2>2. n + 1 \in 1..MaxHealth
    BY <1>2, <1>5, ViewerAssumption
  <2>3. proc' \in [Proc -> Process] /\ port' \in Proc \cup {None}
    BY <2>1 DEF Inv, TypeOK
  <2> QED
    BY <1>1, <1>2, <1>3, <2>1, <2>2, <2>3, OutcomeKeeps
<1> QED
  BY <1>4, <1>5

LEMMA PollKeeps ==
    ASSUME Inv, NEW v \in Viewer, PollStatus(v)
    PROVE  Inv'
<1>1. PICK result \in {"Connected", "Waiting"} : phase' = [phase EXCEPT ![v] = result]
  BY DEF PollStatus
<1>2. /\ task[v].at = "polling"
      /\ UNCHANGED <<open, render_source, native_renderer, task, proc, port, venv, gpu>>
  BY DEF PollStatus, hostVars
<1>3. phase' \in [Viewer -> Phase] /\ \A w \in Viewer \ {v} : phase'[w] = phase[w]
  BY <1>1 DEF Inv, TypeOK, Phase
<1>4. TypeOK'
  BY <1>2, <1>3 DEF Inv, TypeOK
<1>5. PanelInv(v)'
  BY <1>2 DEF Inv, PanelInv, Setup
<1> QED
  BY <1>2, <1>3, <1>4, <1>5, OnePanel

\* The renderer processes touch no panel.
LEMMA ProcessKeeps ==
    ASSUME Inv, NEW p \in Proc, ServeHttp(p) \/ CreateRenderer(p) \/ Crash(p)
    PROVE  Inv'
<1>1. UNCHANGED <<open, phase, render_source, native_renderer, task, venv, gpu>>
  BY DEF ServeHttp, CreateRenderer, Crash, Exit, panelVars, hostVars
<1>2. proc[p] \in Process
  BY DEF Inv, TypeOK
<1>3. \A life \in {"dead"}, http \in {"up", "failed"} :
        /\ [proc[p] EXCEPT !.life = life] \in Process
        /\ [proc[p] EXCEPT !.http = http] \in Process
        /\ [proc[p] EXCEPT !.renders = TRUE] \in Process
  BY <1>2 DEF Process
<1>4. ASSUME Exit(p)
      PROVE  proc' \in [Proc -> Process] /\ port' \in Proc \cup {None}
  BY <1>3, <1>4, PortTypes DEF Exit, Killed, Inv, TypeOK
<1>5. ASSUME ServeHttp(p)
      PROVE  proc' \in [Proc -> Process] /\ port' \in Proc \cup {None}
  BY <1>3, <1>5 DEF ServeHttp, Inv, TypeOK
<1>6. ASSUME CreateRenderer(p)
      PROVE  proc' \in [Proc -> Process] /\ port' \in Proc \cup {None}
  BY <1>3, <1>4, <1>6 DEF CreateRenderer, Inv, TypeOK
<1>7. proc' \in [Proc -> Process] /\ port' \in Proc \cup {None}
  BY <1>4, <1>5, <1>6 DEF Crash
<1>8. TypeOK'
  BY <1>1, <1>7 DEF Inv, TypeOK
<1> QED
  BY <1>1, <1>8 DEF Inv, PanelInv, Busy

LEMMA TaskKeeps ==
    ASSUME Inv, NEW v \in Viewer, TaskStep(v)
    PROVE  Inv'
<1>1. \A point \in {"ensure_image", "prepare_harness"} : point \in Setup
  BY DEF Setup
<1>2. CASE CommandEnds(v, "ensure_image", "prepare_harness")
  BY <1>1, <1>2, CommandKeeps
<1>3. CASE CommandEnds(v, "prepare_harness", "compose_up")
  BY <1>1, <1>3, CommandKeeps
<1> QED
  BY <1>2, <1>3, ComposeKeeps, RetryProbeKeeps, InstallKeeps, HealthKeeps, PollKeeps
     DEF TaskStep

-----------------------------------------------------------------------------

LEMMA InitHolds == Init => Inv
<1> SUFFICES ASSUME Init
             PROVE  Inv
  OBVIOUS
<1>1. Unborn \in Process
  BY DEF Unborn, Process
<1>2. TypeOK
  BY <1>1, TaskTypes DEF Init, TypeOK, Phase, Source
<1>3. \A v \in Viewer : PanelInv(v)
  BY DEF Init, PanelInv, NoTask, At, Waits, Busy, Setup
<1> QED
  BY <1>2, <1>3 DEF Inv

LEMMA NextKeeps == Inv /\ [Next]_vars => Inv'
<1> SUFFICES ASSUME Inv, [Next]_vars
             PROVE  Inv'
  OBVIOUS
<1>1. CASE UNCHANGED vars
  BY <1>1 DEF Inv, TypeOK, PanelInv, Busy, vars, panelVars, hostVars
<1>2. ASSUME NEW v \in Viewer, OpenPanel(v)
      PROVE  Inv'
  <2>1. /\ open' \in [Viewer -> BOOLEAN] /\ open'[v]
        /\ \A w \in Viewer \ {v} : open'[w] = open[w]
    BY <1>2 DEF OpenPanel, Inv, TypeOK
  <2> QED
    BY <1>2, <2>1, StartKeeps DEF OpenPanel
<1>3. ASSUME NEW v \in Viewer, Reconnect(v)
      PROVE  Inv'
  <2>1. /\ open' \in [Viewer -> BOOLEAN] /\ open'[v]
        /\ \A w \in Viewer \ {v} : open'[w] = open[w]
    BY <1>3 DEF Reconnect, Inv, TypeOK
  <2> QED
    BY <1>3, <2>1, StartKeeps DEF Reconnect
<1> QED
  BY <1>1, <1>2, <1>3, CloseKeeps, TaskKeeps, ProcessKeeps DEF Next

LEMMA InvAlways == Spec => []Inv
<1> QED
  BY InitHolds, NextKeeps, PTL DEF Spec

\* The panels' fields, the attempt counters of their tasks and the renderer
\* processes stay in range, however panels are opened, reconnected and closed.
THEOREM ViewerTypes == Spec => []TypeOK
<1>1. Inv => TypeOK
  BY DEF Inv
<1> QED
  BY <1>1, InvAlways, PTL

\* A panel that shows itself as busy has a connection task at work, so that
\* its disabled reconnect button is enabled again.
THEOREM NeverBusyWithoutTask == Spec => []BusyPanelHasTask
<1>1. Inv => BusyPanelHasTask
  BY DEF Inv, PanelInv, BusyPanelHasTask
<1> QED
  BY <1>1, InvAlways, PTL

\* The render_source that a connection task has copied agrees with the field
\* that camera commands read.
THEOREM FramesAndCameraAgree == Spec => []FramesFollowCamera
<1>1. Inv => FramesFollowCamera
  BY DEF Inv, PanelInv, FramesFollowCamera
<1> QED
  BY <1>1, InvAlways, PTL

-----------------------------------------------------------------------------

\* A step of v's task moves no other panel's stored renderer, and moves its
\* own only while it sets one up.
LEMMA TaskMovesOwn ==
    ASSUME Inv, NEW v \in Viewer, NEW w \in Viewer, TaskStep(v)
    PROVE  native_renderer'[w] = native_renderer[w] \/ (w = v /\ task[v].at \in Setup)
<1>1. CASE task[v].at \in Setup
  <2>1. \/ native_renderer' = native_renderer
        \/ \E p \in Proc \cup {None} :
             native_renderer' = [native_renderer EXCEPT ![v] = p]
    <3>1. native_renderer[v] = None
      BY <1>1 DEF Inv, PanelInv
    <3>2. task[v].handle \in Proc \cup {None}
      BY DEF Inv, TypeOK, Task
    <3>3. ASSUME SpawnRenderer(v)
          PROVE  \/ native_renderer' = native_renderer
                 \/ \E p \in Proc : native_renderer' = [native_renderer EXCEPT ![v] = p]
      BY <3>3 DEF SpawnRenderer, RendererHealthy, HealthTimer, UseContainer
    <3>4. ASSUME NEW n, Probe(v, n)
          PROVE  \/ native_renderer' = native_renderer
                 \/ \E p \in Proc : native_renderer' = [native_renderer EXCEPT ![v] = p]
      BY <3>3, <3>4 DEF Probe, SetupRenderer, Fail
    <3>5. ASSUME RetryHealth(v)
          PROVE  \/ native_renderer' = native_renderer
                 \/ \E p \in Proc \cup {None} :
                      native_renderer' = [native_renderer EXCEPT ![v] = p]
      BY <3>2, <3>5 DEF RetryHealth, RendererHealthy, HealthTimer, UseContainer
    <3>6. ASSUME VenvCreated(v) \/ PackagesInstalled(v)
          PROVE  \/ native_renderer' = native_renderer
                 \/ \E p \in Proc : native_renderer' = [native_renderer EXCEPT ![v] = p]
      BY <3>3, <3>6 DEF VenvCreated, PackagesInstalled, UseContainer
    <3>7. ASSUME NEW point, NEW next, CommandEnds(v, point, next)
          PROVE  native_renderer' = native_renderer
      BY <3>7 DEF CommandEnds, Fail, panelVars
    <3> QED
      BY <3>3, <3>4, <3>5, <3>6, <3>7
         DEF TaskStep, ComposeUpEnds, RetryProbe, PollStatus, Fail
  <2> QED
    BY <1>1, <2>1 DEF Inv, TypeOK
<1>2. CASE task[v].at \notin Setup
  <2>1. PollStatus(v)
    BY <1>2 DEF TaskStep, CommandEnds, ComposeUpEnds, RetryProbe, VenvCreated,
                PackagesInstalled, RetryHealth, Setup
  <2> QED
    BY <2>1 DEF PollStatus
<1> QED
  BY <1>1, <1>2

\* Opening, reconnecting or closing a panel kills the renderer it has stored.
LEMMA ReleaseKills ==
    ASSUME Inv, NEW v \in Viewer, NEW w \in Viewer, Start(v) \/ ClosePanel(v),
           NEW p \in Proc, p = native_renderer[w]
    PROVE  p = native_renderer'[w] \/ ~Alive(p)'
<1>1. proc' = Released(v) /\ native_renderer' = [native_renderer EXCEPT ![v] = None]
  BY DEF Start, ClosePanel
<1>2. CASE w = v
  BY <1>1, <1>2, ReleasedTypes DEF Inv, Alive
<1>3. CASE w # v
  BY <1>1, <1>3 DEF Inv, TypeOK
<1> QED
  BY <1>2, <1>3

\* A stored renderer stays stored or is killed.
LEMMA StoredIsKilled ==
    ASSUME Inv, Next, NEW w \in Viewer, NEW p \in Proc, p = native_renderer[w]
    PROVE  p = native_renderer'[w] \/ ~Alive(p)'
<1>1. task[w].at \notin Setup
  BY ViewerAssumption DEF Inv, PanelInv
<1>2. ASSUME NEW v \in Viewer, TaskStep(v)
      PROVE  p = native_renderer'[w]
  BY <1>1, <1>2, TaskMovesOwn
<1>3. ASSUME NEW q \in Proc, ServeHttp(q) \/ CreateRenderer(q) \/ Crash(q)
      PROVE  p = native_renderer'[w]
  BY <1>3 DEF ServeHttp, CreateRenderer, Crash, Exit, panelVars
<1> QED
  BY <1>2, <1>3, ReleaseKills DEF Next, OpenPanel, Reconnect

\* Whatever the user does and whichever answer comes, a panel lets go of a
\* running renderer only by cancelling a task that waits for its health.
THEOREM OrphansAreKnown == Spec => OrphansOnlyFromHealthWait
<1>1. Inv /\ [Next]_vars => [LetsGoOnlyOfAwaited]_vars
  <2> SUFFICES ASSUME Inv, Next,
                      NEW p \in Proc, Held(p), ~Held(p)', Alive(p)'
               PROVE  \E v \in Viewer : task[v].at = "health" /\ task[v].handle = p
    BY DEF LetsGoOnlyOfAwaited
  <2>1. PICK w \in Viewer : p \in {native_renderer[w], task[w].handle}
    BY DEF Held
  <2>2. p # native_renderer[w]
    BY StoredIsKilled DEF Held
  <2>3. task[w].handle = p /\ p # None
    BY <2>1, <2>2, ViewerAssumption
  <2> QED
    BY <2>3 DEF Inv, PanelInv
<1> QED
  BY <1>1, InvAlways, PTL DEF Spec, OrphansOnlyFromHealthWait

=============================================================================
