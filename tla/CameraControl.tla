---------------------------- MODULE CameraControl ----------------------------
(***************************************************************************)
(* Camera control in one Robot Viewer panel: drag and scroll gestures, the *)
(* one-request-in-flight pipeline with its coalesced backlog, and the HTTP *)
(* exchange, which a pooled connection may repeat.                         *)
(*                                                                         *)
(* The exchange blocks the foreground thread, so the camera task runs in   *)
(* one piece; between being spawned and being run it waits its turn.  The  *)
(* pointer moves along one axis; "across" says whether it also moved past  *)
(* the threshold along the other.                                          *)
(***************************************************************************)
EXTENDS Integers

CONSTANTS
    MaxPos,         \* pointer positions are 0..MaxPos
    Threshold,      \* CAMERA_DRAG_THRESHOLD_PX
    MaxEvents       \* bounds the user's events in a behaviour

ASSUME CameraAssumption ==
    /\ MaxPos \in Nat
    /\ Threshold \in Nat \ {0}
    /\ MaxEvents \in Nat

VARIABLES
    camera_drag,
    in_flight, pending,     \* camera_request
    camera_task,            \* the command of the task that waits to run
    camera,                 \* how far the server has turned the camera
    travelled,              \* how far finished drags went
    exact,                  \* nothing has failed, been repeated or replaced
    latest,                 \* the kind of the last command asked for
    events

vars == <<camera_drag, in_flight, pending, camera_task, camera,
          travelled, exact, latest, events>>

None == [kind |-> "none", by |-> 0]
Kind == {"orbit", "pan", "zoom", "reset"}
DragMode == {"orbit", "pan"}
Command(kind, by) == [kind |-> kind, by |-> by]

Pos == 0..MaxPos
NoDrag ==
    [mode |-> "orbit", start |-> 0, last |-> 0, held |-> FALSE, active |-> FALSE]
\* A drag that has not passed the threshold has gone nowhere yet.
Drag == {NoDrag} \cup
        {d \in [mode: DragMode, start: Pos, last: Pos, held: {TRUE}, active: BOOLEAN] :
           ~d.active => d.last = d.start}

TypeOK ==
    /\ camera_drag \in Drag
    /\ in_flight \in BOOLEAN
    /\ \A c \in {pending, camera_task} : c.kind \in Kind \cup {"none"} /\ c.by \in Int
    /\ camera \in Int /\ travelled \in Int
    /\ exact \in BOOLEAN
    /\ latest \in Kind \cup {"none"}
    /\ events \in 0..MaxEvents

Init ==
    /\ camera_drag = NoDrag
    /\ in_flight = FALSE
    /\ pending = None
    /\ camera_task = None
    /\ camera = 0
    /\ travelled = 0
    /\ exact = TRUE
    /\ latest = "none"
    /\ events = 0

Event ==
    /\ events < MaxEvents
    /\ events' = events + 1

-----------------------------------------------------------------------------
(* The request pipeline *)

\* Fault: commands of one kind replace each other.
Coalesce_Replaces(c, next) == next

\* CameraCommand::coalesce
Coalesce(c, next) ==
    IF c.kind = next.kind /\ c.kind # "reset"
    THEN [c EXCEPT !.by = @ + next.by]
    ELSE next

\* Fault: the backlog keeps what it has.
Backlog_KeepsFirst(command) == IF pending = None THEN command ELSE pending

Backlog(command) ==
    IF pending = None THEN command ELSE Coalesce(pending, command)

\* request_camera_frame.  Storing the new task cancels the one before it,
\* which only exists here when a reconnect cleared the flag under it.
Request(command) ==
    /\ latest' = command.kind
    /\ IF in_flight
       THEN /\ pending' = Backlog(command)
            /\ UNCHANGED <<in_flight, camera_task>>
       ELSE /\ in_flight' = TRUE
            /\ camera_task' = command
            /\ UNCHANGED pending
    /\ exact' = /\ exact
                /\ command.kind = "orbit"
                /\ in_flight \/ camera_task = None

\* What an exchange can come to: whether the panel gets a good reply and how
\* often the server has carried the command out.  A pooled connection, which
\* the frame polls leave behind, may fail even after the server has acted;
\* the panel then sends the command once more.
Outcomes == [good: {TRUE}, times: {1, 2}] \cup [good: {FALSE}, times: {0, 1, 2}]

\* apply_camera_command
Turned(from, command, times) ==
    IF times = 0 \/ command.kind \in {"zoom", "pan"} THEN from
    ELSE IF command.kind = "reset" THEN 0
    ELSE from + times * command.by

\* Fault: a failed request never clears the flag.
Completed_Wedges(good) ==
    IF good
    THEN /\ in_flight' = (pending # None)
         /\ camera_task' = pending
         /\ pending' = None
    ELSE /\ camera_task' = None
         /\ UNCHANGED <<in_flight, pending>>

\* The flag is cleared and the backlog, if there is one, requested at once.
Completed(good) ==
    /\ in_flight' = (pending # None)
    /\ camera_task' = pending
    /\ pending' = None

RunCameraTask ==
    /\ camera_task # None
    /\ \E o \in Outcomes :
         /\ camera' = Turned(camera, camera_task, o.times)
         /\ exact' = (exact /\ o.good /\ o.times = 1)
         /\ Completed(o.good)
    /\ UNCHANGED <<camera_drag, travelled, latest, events>>

-----------------------------------------------------------------------------
(* The user *)

\* start_camera_drag; a drag whose end was missed is replaced.
BeginDrag(mode, pos) ==
    /\ Event
    /\ camera_drag' =
         [mode |-> mode, start |-> pos, last |-> pos, held |-> TRUE, active |-> FALSE]
    /\ travelled' = travelled + (camera_drag.last - camera_drag.start)
    /\ UNCHANGED <<in_flight, pending, camera_task, camera, exact, latest>>

EndedDrag ==
    /\ camera_drag' = NoDrag
    /\ travelled' = travelled + (camera_drag.last - camera_drag.start)

\* stop_camera_drag, or a move that finds the button released.
FinishDrag ==
    /\ Event
    /\ camera_drag.held
    /\ EndedDrag
    /\ UNCHANGED <<in_flight, pending, camera_task, camera, exact, latest>>

Reference == IF camera_drag.active THEN camera_drag.last ELSE camera_drag.start

\* handle_camera_drag with the button still pressed.
MovePointer(pos, across) ==
    LET delta == pos - Reference
    IN  /\ Event
        /\ camera_drag.held
        /\ IF -Threshold < delta /\ delta < Threshold /\ ~across
           THEN UNCHANGED <<camera_drag, in_flight, pending, camera_task, exact, latest>>
           ELSE /\ camera_drag' = [camera_drag EXCEPT !.last = pos, !.active = TRUE]
                /\ Request(Command(camera_drag.mode, delta))
        /\ UNCHANGED <<travelled, camera>>

\* The scroll wheel and the reset button.
OtherCommand(kind) ==
    /\ Event
    /\ Request(Command(kind, 0))
    /\ UNCHANGED <<camera_drag, travelled, camera>>

\* start: the request state is cleared under a task that may still wait.
\* Commands go to the container from here on: the same server as before, or
\* another one.
Reconnect(same) ==
    /\ Event
    /\ EndedDrag
    /\ in_flight' = FALSE
    /\ pending' = None
    /\ exact' = (exact /\ same /\ pending = None)
    /\ UNCHANGED <<camera_task, camera, latest>>

\* setup_native_renderer succeeds: commands go to another server, which has
\* a camera of its own.
SwitchServer ==
    /\ Event
    /\ exact' = FALSE
    /\ camera' = 0
    /\ UNCHANGED <<camera_drag, travelled, in_flight, pending, camera_task, latest>>

Next ==
    \/ RunCameraTask
    \/ \E mode \in DragMode, pos \in Pos : BeginDrag(mode, pos)
    \/ \E pos \in Pos, across \in BOOLEAN : MovePointer(pos, across)
    \/ FinishDrag
    \/ \E kind \in {"zoom", "reset"} : OtherCommand(kind)
    \/ \E same \in BOOLEAN : Reconnect(same)
    \/ SwitchServer

Spec == Init /\ [][Next]_vars
-----------------------------------------------------------------------------
(* Properties *)

\* The flag that holds requests back always has a task that will clear it,
\* whatever failed before and whenever the panel reconnected: camera control
\* never gets stuck with a backlog.
FlagHasTask ==
    /\ in_flight => camera_task # None
    /\ pending # None => in_flight

\* Coalescing may drop commands, but never the latest one: it is the last
\* that the pipeline will send.
LatestIsLast ==
    in_flight =>
      latest = (IF pending # None THEN pending.kind ELSE camera_task.kind)

\* As long as nothing failed, was sent twice or was replaced, the camera is
\* turned by exactly what orbit drags moved the pointer: what the server has done,
\* what waits to be sent and the backlog add up to the drags, over any
\* number of gestures, missed ends and reconnects to the same server.
DragIsConserved ==
    exact =>
      camera + camera_task.by + pending.by
        = travelled + (camera_drag.last - camera_drag.start)
=============================================================================
