------------------------- MODULE CameraControlProofs -------------------------
(***************************************************************************)
(* Proofs about CameraControl, for any pointer range, threshold and number *)
(* of events.  Conservation is not inductive by itself: the sums only add  *)
(* up while every command under way is an orbit, and a new request starts  *)
(* from an empty backlog only because the flag and the backlog agree.      *)
(***************************************************************************)
EXTENDS CameraControl, TLAPS

CommandType == [kind: Kind \cup {"none"}, by: Int]

\* TypeOK with the two commands as records.
Types ==
    /\ TypeOK
    /\ pending \in CommandType
    /\ camera_task \in CommandType

\* While nothing was disturbed, only orbits are under way.
OnlyOrbits ==
    exact => {pending.kind, camera_task.kind} \subseteq {"orbit", "none"}

\* A command of no kind is the absent one.
NoneIsNone ==
    \A c \in {pending, camera_task} : c.kind = "none" => c = None

Inv == Types /\ FlagHasTask /\ LatestIsLast /\ DragIsConserved /\ OnlyOrbits
         /\ NoneIsNone

-----------------------------------------------------------------------------

\* A drag's two ends are positions, and an ended drag is no drag.
LEMMA DragFacts ==
    ASSUME camera_drag \in Drag
    PROVE  /\ camera_drag.start \in Int
           /\ camera_drag.last \in Int
           /\ camera_drag.last - camera_drag.start \in Int
           /\ NoDrag \in Drag
<1>1. NoDrag \in Drag
  BY DEF Drag
<1>2. CASE camera_drag = NoDrag
  BY <1>1, <1>2 DEF NoDrag
<1>3. CASE camera_drag \in [mode: DragMode, start: Pos, last: Pos, held: {TRUE},
                                active: BOOLEAN]
  BY <1>1, <1>3, CameraAssumption DEF Pos
<1> QED
  BY <1>2, <1>3 DEF Drag

\* Coalescing two commands gives a command of the later one's kind, and the
\* sum of both when they are orbits.
LEMMA CoalesceFacts ==
    ASSUME NEW c \in CommandType, NEW next \in CommandType, next.kind # "none"
    PROVE  /\ Coalesce(c, next) \in CommandType
           /\ Coalesce(c, next).kind = next.kind
           /\ c.kind = "orbit" /\ next.kind = "orbit" =>
                Coalesce(c, next).by = c.by + next.by
BY DEF Coalesce, CommandType, Kind

\* The absent command is a record like any other, with nothing to add.
LEMMA NoneFacts == None \in CommandType /\ None.by = 0 /\ None.kind = "none"
BY DEF None, CommandType

\* Two commands are typed the way TypeOK says it.
LEMMA CommandsTyped ==
    ASSUME NEW c \in CommandType, NEW d \in CommandType
    PROVE  \A e \in {c, d} : e.kind \in Kind \cup {"none"} /\ e.by \in Int
BY DEF CommandType

-----------------------------------------------------------------------------

\* request_camera_frame keeps the invariant's parts about commands, and adds
\* the new command's amount to what is under way when it is an orbit.
LEMMA RequestKeeps ==
    ASSUME Inv, NEW command \in CommandType, command.kind # "none",
           Request(command)
    PROVE  /\ pending' \in CommandType
           /\ camera_task' \in CommandType
           /\ in_flight' \in BOOLEAN
           /\ exact' \in BOOLEAN
           /\ latest' \in Kind
           /\ FlagHasTask'
           /\ LatestIsLast'
           /\ OnlyOrbits'
           /\ NoneIsNone'
           /\ exact' => /\ exact
                        /\ camera_task'.by + pending'.by =
                             camera_task.by + pending.by + command.by
<1>1. /\ pending \in CommandType /\ camera_task \in CommandType
      /\ in_flight \in BOOLEAN /\ exact \in BOOLEAN
  BY DEF Inv, Types, TypeOK
<1>2. command.kind \in Kind /\ command # None /\ command.by \in Int
  BY DEF CommandType, None
<1>3. latest' = command.kind
  BY DEF Request
<1>4. exact' = (exact /\ command.kind = "orbit" /\ (in_flight \/ camera_task = None))
  BY DEF Request
<1>5. CASE in_flight
  <2>1. pending' = Backlog(command) /\ in_flight' = in_flight /\ camera_task' = camera_task
    BY <1>5 DEF Request
  <2>2. CASE pending = None
    <3>1. pending' = command
      BY <2>1, <2>2 DEF Backlog
    <3>2. camera_task # None
      BY <1>5 DEF Inv, FlagHasTask
    <3>3. FlagHasTask' /\ LatestIsLast'
      BY <1>5, <1>2, <1>3, <2>1, <3>1, <3>2 DEF FlagHasTask, LatestIsLast
    <3>4. OnlyOrbits' /\ NoneIsNone'
      BY <1>1, <1>2, <1>4, <2>1, <3>1 DEF Inv, OnlyOrbits, NoneIsNone
    <3>5. camera_task'.by + pending'.by = camera_task.by + pending.by + command.by
      BY <1>1, <1>2, <2>1, <2>2, <3>1, NoneFacts DEF CommandType
    <3> QED
      BY <1>1, <1>2, <1>3, <1>4, <1>5, <2>1, <3>1, <3>3, <3>4, <3>5
  <2>3. CASE pending # None
    <3>1. pending' = Coalesce(pending, command)
      BY <2>1, <2>3 DEF Backlog
    <3>2. pending' \in CommandType /\ pending'.kind = command.kind
      BY <1>1, <1>2, <3>1, CoalesceFacts
    <3>3. pending' # None
      BY <1>2, <3>2, NoneFacts
    <3>4. FlagHasTask' /\ LatestIsLast'
      BY <1>5, <1>3, <2>1, <3>2, <3>3 DEF Inv, FlagHasTask, LatestIsLast
    <3>5. OnlyOrbits' /\ NoneIsNone'
      BY <1>1, <1>2, <1>4, <2>1, <3>2 DEF Inv, OnlyOrbits, NoneIsNone
    <3>6. exact' => camera_task'.by + pending'.by = camera_task.by + pending.by + command.by
      <4>1. SUFFICES ASSUME exact' PROVE pending'.by = pending.by + command.by
        BY <1>1, <1>2, <2>1 DEF CommandType
      <4>2. command.kind = "orbit" /\ exact
        BY <4>1, <1>4
      <4>3. pending.kind = "orbit"
        BY <4>2, <2>3 DEF Inv, OnlyOrbits, NoneIsNone
      <4> QED
        BY <1>1, <1>2, <3>1, <4>2, <4>3, CoalesceFacts
    <3> QED
      BY <1>1, <1>2, <1>3, <1>4, <1>5, <2>1, <3>2, <3>4, <3>5, <3>6
  <2> QED
    BY <2>2, <2>3
<1>6. CASE ~in_flight
  <2>1. in_flight' = TRUE /\ camera_task' = command /\ pending' = pending
    BY <1>6 DEF Request
  <2>2. pending = None
    BY <1>6 DEF Inv, FlagHasTask
  <2>3. FlagHasTask' /\ LatestIsLast'
    BY <1>2, <1>3, <2>1, <2>2 DEF FlagHasTask, LatestIsLast
  <2>4. OnlyOrbits' /\ NoneIsNone'
    BY <1>1, <1>2, <1>4, <2>1 DEF Inv, OnlyOrbits, NoneIsNone
  <2>5. exact' => camera_task = None
    BY <1>4, <1>6
  <2>6. exact' => camera_task'.by + pending'.by = camera_task.by + pending.by + command.by
    BY <1>1, <1>2, <2>1, <2>2, <2>5, NoneFacts DEF CommandType
  <2> QED
    BY <1>1, <1>2, <1>3, <1>4, <2>1, <2>3, <2>4, <2>6
<1> QED
  BY <1>1, <1>5, <1>6
-----------------------------------------------------------------------------

\* A camera task that runs, whatever becomes of its exchange.
LEMMA RunKeeps ==
    ASSUME Inv, RunCameraTask
    PROVE  Inv'
<1>1. /\ pending \in CommandType /\ camera_task \in CommandType
      /\ in_flight \in BOOLEAN /\ exact \in BOOLEAN
      /\ camera \in Int /\ travelled \in Int /\ TypeOK
  BY DEF Inv, Types, TypeOK
<1>2. /\ camera_task # None
      /\ UNCHANGED <<camera_drag, travelled, latest, events>>
  BY DEF RunCameraTask
<1>3. PICK o \in Outcomes :
        /\ camera' = Turned(camera, camera_task, o.times)
        /\ exact' = (exact /\ o.good /\ o.times = 1)
        /\ Completed(o.good)
  BY DEF RunCameraTask
<1>4. o.times \in {0, 1, 2} /\ o.good \in BOOLEAN
  BY <1>3 DEF Outcomes
<1>5. /\ in_flight' = (pending # None)
      /\ camera_task' = pending
      /\ pending' = None
  BY <1>3 DEF Completed
<1>6. camera' \in Int
  <2>1. camera_task.by \in Int
    BY <1>1 DEF CommandType
  <2>2. o.times * camera_task.by \in Int
    BY <1>4, <2>1
  <2> QED
    BY <1>1, <1>3, <2>2 DEF Turned
<1>7. TypeOK'
  <2>1. pending'.kind \in Kind \cup {"none"} /\ pending'.by \in Int
    BY <1>5, NoneFacts
  <2>2. camera_task'.kind \in Kind \cup {"none"} /\ camera_task'.by \in Int
    BY <1>1, <1>5 DEF CommandType
  <2> QED
    BY <1>1, <1>2, <1>3, <1>4, <1>5, <1>6, <2>1, <2>2 DEF TypeOK
<1>8. FlagHasTask' /\ NoneIsNone'
  BY <1>5, NoneFacts DEF FlagHasTask, NoneIsNone, Inv
<1>9. LatestIsLast'
  <2>1. ASSUME pending # None PROVE latest = pending.kind
    BY <2>1 DEF Inv, LatestIsLast, FlagHasTask
  <2> QED
    BY <2>1, <1>2, <1>5 DEF LatestIsLast
<1>10. OnlyOrbits'
  BY <1>3, <1>5, NoneFacts DEF OnlyOrbits, Inv
<1>11. DragIsConserved'
  <2>1. SUFFICES ASSUME exact'
                 PROVE  camera' + camera_task'.by + pending'.by
                          = travelled + (camera_drag.last - camera_drag.start)
    BY <1>2 DEF DragIsConserved
  <2>2. exact /\ o.times = 1
    BY <2>1, <1>3
  <2>3. camera_task.kind = "orbit"
    BY <2>2, <1>2 DEF Inv, OnlyOrbits, NoneIsNone
  <2>4. camera' = camera + camera_task.by
    <3>1. camera' = camera + 1 * camera_task.by
      BY <1>3, <2>2, <2>3 DEF Turned
    <3> QED
      BY <3>1, <1>1 DEF CommandType
  <2>5. camera + camera_task.by + pending.by
          = travelled + (camera_drag.last - camera_drag.start)
    BY <2>2 DEF Inv, DragIsConserved
  <2>6. camera_task'.by = pending.by /\ pending'.by = 0
    BY <1>5, NoneFacts
  <2>7. camera_task.by \in Int /\ pending.by \in Int
    BY <1>1 DEF CommandType
  <2> QED
    BY <1>1, <2>4, <2>5, <2>6, <2>7
<1>12. pending' \in CommandType /\ camera_task' \in CommandType
  BY <1>1, <1>5, NoneFacts
<1> QED
  BY <1>7, <1>8, <1>9, <1>10, <1>11, <1>12 DEF Inv, Types

\* A step that leaves the commands alone and only closes or opens a drag
\* moves the drag's travel into the total.
LEMMA DragClosed ==
    ASSUME Inv, camera_drag' \in Drag, events' \in 0..MaxEvents,
           camera_drag'.last - camera_drag'.start = 0,
           travelled' = travelled + (camera_drag.last - camera_drag.start),
           UNCHANGED <<in_flight, pending, camera_task, camera, exact, latest>>
    PROVE  Inv'
<1>1. /\ camera_drag.last - camera_drag.start \in Int /\ travelled \in Int
  BY DragFacts DEF Inv, Types, TypeOK
<1>2. travelled' \in Int
  BY <1>1
<1>3. Types'
  BY <1>2 DEF Inv, Types, TypeOK
<1>4. FlagHasTask' /\ LatestIsLast' /\ OnlyOrbits' /\ NoneIsNone'
  BY DEF Inv, FlagHasTask, LatestIsLast, OnlyOrbits, NoneIsNone
<1>5. travelled' + (camera_drag'.last - camera_drag'.start)
        = travelled + (camera_drag.last - camera_drag.start)
  BY <1>1
<1>6. DragIsConserved'
  BY <1>5 DEF Inv, DragIsConserved
<1> QED
  BY <1>3, <1>4, <1>6 DEF Inv

\* The bound on events is kept by every event.
LEMMA EventFacts ==
    ASSUME Inv, Event
    PROVE  events' \in 0..MaxEvents
BY CameraAssumption DEF Inv, Types, TypeOK, Event

\* Beginning a drag, or missing the end of the one before.
LEMMA BeginKeeps ==
    ASSUME Inv, NEW mode \in DragMode, NEW pos \in Pos, BeginDrag(mode, pos)
    PROVE  Inv'
<1>1. camera_drag' =
        [mode |-> mode, start |-> pos, last |-> pos, held |-> TRUE, active |-> FALSE]
  BY DEF BeginDrag
<1>2. camera_drag' \in Drag
  BY <1>1 DEF Drag
<1>3. camera_drag'.last - camera_drag'.start = 0
  BY <1>1, CameraAssumption DEF Pos
<1>4. events' \in 0..MaxEvents
  BY EventFacts DEF BeginDrag
<1> QED
  BY <1>2, <1>3, <1>4, DragClosed DEF BeginDrag

\* What an ended drag leaves behind.
LEMMA EndedFacts ==
    ASSUME Inv, EndedDrag
    PROVE  /\ camera_drag' \in Drag
           /\ camera_drag'.last - camera_drag'.start = 0
           /\ travelled' = travelled + (camera_drag.last - camera_drag.start)
           /\ travelled' \in Int
<1>1. camera_drag' = NoDrag /\ NoDrag \in Drag
  BY DragFacts DEF EndedDrag, Inv, Types, TypeOK
<1>2. travelled' \in Int
  BY DragFacts DEF EndedDrag, Inv, Types, TypeOK
<1> QED
  BY <1>1, <1>2 DEF EndedDrag, NoDrag

LEMMA FinishKeeps ==
    ASSUME Inv, FinishDrag
    PROVE  Inv'
<1>1. events' \in 0..MaxEvents
  BY EventFacts DEF FinishDrag
<1> QED
  BY <1>1, EndedFacts, DragClosed DEF FinishDrag

\* A pointer move that stays within the threshold, or commands an orbit.
LEMMA MoveKeeps ==
    ASSUME Inv, NEW pos \in Pos, NEW across \in BOOLEAN, MovePointer(pos, across)
    PROVE  Inv'
<1> DEFINE delta == pos - Reference
<1>1. /\ events' \in 0..MaxEvents
      /\ camera_drag.held
      /\ UNCHANGED <<travelled, camera>>
  BY EventFacts DEF MovePointer
<1>2. camera_drag \in [mode: DragMode, start: Pos, last: Pos, held: {TRUE},
                                active: BOOLEAN]
      /\ (~camera_drag.active => camera_drag.last = camera_drag.start)
  <2>1. camera_drag # NoDrag /\ camera_drag \in Drag
    BY <1>1 DEF NoDrag, Inv, Types, TypeOK
  <2> QED
    BY <2>1 DEF Drag
<1>3. Reference = camera_drag.last
  BY <1>2 DEF Reference
<1>4. delta \in Int /\ delta = pos - camera_drag.last
  BY <1>2, <1>3, CameraAssumption DEF Pos
<1>5. CASE UNCHANGED <<camera_drag, in_flight, pending, camera_task, exact, latest>>
  <2>1. Types'
    BY <1>1, <1>5 DEF Inv, Types, TypeOK
  <2> QED
    BY <2>1, <1>1, <1>5 DEF Inv, FlagHasTask, LatestIsLast, DragIsConserved,
                            OnlyOrbits, NoneIsNone
<1>6. CASE /\ camera_drag' = [camera_drag EXCEPT !.last = pos, !.active = TRUE]
           /\ Request(Command(camera_drag.mode, delta))
  <2> DEFINE command == Command(camera_drag.mode, delta)
  <2>1. command \in CommandType /\ command.kind # "none" /\ command.by = delta
    BY <1>2, <1>4 DEF Command, CommandType, Kind, DragMode
  <2> HIDE DEF command
  <2>2. /\ pending' \in CommandType /\ camera_task' \in CommandType
        /\ in_flight' \in BOOLEAN /\ exact' \in BOOLEAN /\ latest' \in Kind
        /\ FlagHasTask' /\ LatestIsLast' /\ OnlyOrbits' /\ NoneIsNone'
        /\ exact' => /\ exact
                     /\ camera_task'.by + pending'.by =
                          camera_task.by + pending.by + command.by
    BY <1>6, <2>1, RequestKeeps DEF command
  <2>3. camera_drag' \in Drag
    BY <1>2, <1>6 DEF Drag
  <2>4. camera_drag'.last = pos /\ camera_drag'.start = camera_drag.start
    BY <1>2, <1>6
  <2>5. DragIsConserved'
    <3>1. SUFFICES ASSUME exact'
                   PROVE  camera + camera_task'.by + pending'.by
                            = travelled + (pos - camera_drag.start)
      BY <1>1, <2>4 DEF DragIsConserved
    <3>2. camera + camera_task.by + pending.by
            = travelled + (camera_drag.last - camera_drag.start)
      BY <2>2, <3>1 DEF Inv, DragIsConserved
    <3>3. camera_task'.by + pending'.by
            = camera_task.by + pending.by + (pos - camera_drag.last)
      BY <1>4, <2>1, <2>2, <3>1
    <3>4. /\ camera \in Int /\ travelled \in Int /\ pos \in Int
          /\ camera_drag.last \in Int /\ camera_drag.start \in Int
          /\ camera_task.by \in Int /\ pending.by \in Int
          /\ camera_task'.by \in Int /\ pending'.by \in Int
      BY <1>2, <2>2, CameraAssumption DEF Inv, Types, TypeOK, Pos, CommandType
    <3> DEFINE t == camera_task.by
               p == pending.by
               t1 == camera_task'.by
               p1 == pending'.by
               last == camera_drag.last
               start == camera_drag.start
    <3>5. /\ camera + t + p = travelled + (last - start)
          /\ t1 + p1 = t + p + (pos - last)
          /\ camera \in Int /\ travelled \in Int /\ pos \in Int
          /\ last \in Int /\ start \in Int
          /\ t \in Int /\ p \in Int /\ t1 \in Int /\ p1 \in Int
      BY <3>2, <3>3, <3>4
    <3> HIDE DEF t, p, t1, p1, last, start
    <3>6. camera + t1 + p1 = travelled + (pos - start)
      BY <3>5
    <3> QED
      BY <3>6 DEF t1, p1, start
  <2>6. TypeOK'
    <3>1. /\ pending'.kind \in Kind \cup {"none"} /\ pending'.by \in Int
          /\ camera_task'.kind \in Kind \cup {"none"} /\ camera_task'.by \in Int
      BY <2>2 DEF CommandType
    <3> QED
      BY <1>1, <2>2, <2>3, <3>1 DEF Inv, Types, TypeOK
  <2> QED
    BY <2>2, <2>5, <2>6 DEF Inv, Types
<1> QED
  BY <1>5, <1>6 DEF MovePointer

\* The scroll wheel and the reset button end exactness for good.
LEMMA OtherKeeps ==
    ASSUME Inv, NEW kind \in {"zoom", "reset"}, OtherCommand(kind)
    PROVE  Inv'
<1> DEFINE command == Command(kind, 0)
<1>1. command \in CommandType /\ command.kind = kind /\ kind # "none" /\ kind # "orbit"
  BY DEF Command, CommandType, Kind
<1> HIDE DEF command
<1>2. /\ events' \in 0..MaxEvents /\ Request(command)
      /\ UNCHANGED <<camera_drag, travelled, camera>>
  BY EventFacts DEF OtherCommand, command
<1>3. /\ pending' \in CommandType /\ camera_task' \in CommandType
      /\ in_flight' \in BOOLEAN /\ exact' \in BOOLEAN /\ latest' \in Kind
      /\ FlagHasTask' /\ LatestIsLast' /\ OnlyOrbits' /\ NoneIsNone'
  BY <1>1, <1>2, RequestKeeps
<1>4. ~exact'
  BY <1>1, <1>2 DEF Request
<1>5. TypeOK'
  <2>1. /\ pending'.kind \in Kind \cup {"none"} /\ pending'.by \in Int
        /\ camera_task'.kind \in Kind \cup {"none"} /\ camera_task'.by \in Int
    BY <1>3 DEF CommandType
  <2> QED
    BY <1>2, <1>3, <2>1 DEF Inv, Types, TypeOK
<1> QED
  BY <1>3, <1>4, <1>5 DEF Inv, Types, DragIsConserved

\* A reconnect clears the flag under a task that may still wait.
LEMMA ReconnectKeeps ==
    ASSUME Inv, NEW same \in BOOLEAN, Reconnect(same)
    PROVE  Inv'
<1>1. /\ events' \in 0..MaxEvents /\ EndedDrag
      /\ in_flight' = FALSE /\ pending' = None
      /\ exact' = (exact /\ same /\ pending = None)
      /\ UNCHANGED <<camera_task, camera, latest>>
  BY EventFacts DEF Reconnect
<1>2. /\ camera_drag' \in Drag
      /\ camera_drag'.last - camera_drag'.start = 0
      /\ travelled' = travelled + (camera_drag.last - camera_drag.start)
      /\ travelled' \in Int
  BY <1>1, EndedFacts
<1>3. Types'
  <2>1. pending' \in CommandType /\ camera_task' \in CommandType
    BY <1>1, NoneFacts DEF Inv, Types
  <2> QED
    BY <1>1, <1>2, <2>1, CommandsTyped DEF Inv, Types, TypeOK
<1>4. FlagHasTask' /\ LatestIsLast' /\ OnlyOrbits' /\ NoneIsNone'
  BY <1>1, NoneFacts DEF Inv, FlagHasTask, LatestIsLast, OnlyOrbits, NoneIsNone
<1>5. DragIsConserved'
  <2>1. SUFFICES ASSUME exact'
                 PROVE  camera + camera_task.by + None.by = travelled' + 0
    BY <1>1, <1>2 DEF DragIsConserved
  <2>2. exact /\ pending = None
    BY <1>1, <2>1
  <2> QED
    BY <1>2, <2>2 DEF Inv, DragIsConserved
<1> QED
  BY <1>3, <1>4, <1>5 DEF Inv

LEMMA SwitchKeeps ==
    ASSUME Inv, SwitchServer
    PROVE  Inv'
<1>1. events' \in 0..MaxEvents
  BY EventFacts DEF SwitchServer
<1>2. Types'
  <2>1. pending' \in CommandType /\ camera_task' \in CommandType
    BY DEF SwitchServer, Inv, Types
  <2>2. in_flight' \in BOOLEAN /\ exact' \in BOOLEAN
    BY DEF SwitchServer, Inv, Types, TypeOK
  <2>3. camera_drag' \in Drag /\ latest' \in Kind \cup {"none"}
    BY DEF SwitchServer, Inv, Types, TypeOK
  <2>4. camera' \in Int /\ travelled' \in Int
    BY DEF SwitchServer, Inv, Types, TypeOK
  <2> QED
    BY <1>1, <2>1, <2>2, <2>3, <2>4, CommandsTyped DEF Types, TypeOK
<1> QED
  BY <1>2 DEF SwitchServer, Inv, FlagHasTask, LatestIsLast, DragIsConserved,
              OnlyOrbits, NoneIsNone

-----------------------------------------------------------------------------

LEMMA InitHolds == Init => Inv
<1> SUFFICES ASSUME Init PROVE Inv
  OBVIOUS
<1>1. Types
  <2>1. pending \in CommandType /\ camera_task \in CommandType
    BY NoneFacts DEF Init
  <2>2. camera_drag \in Drag
    BY DEF Init, Drag
  <2>3. events \in 0..MaxEvents
    BY CameraAssumption DEF Init
  <2>4. in_flight \in BOOLEAN /\ exact \in BOOLEAN
    BY DEF Init
  <2>5. camera \in Int /\ travelled \in Int /\ latest \in Kind \cup {"none"}
    BY DEF Init
  <2> QED
    BY <2>1, <2>2, <2>3, <2>4, <2>5, CommandsTyped DEF Types, TypeOK
<1>2. FlagHasTask /\ LatestIsLast /\ OnlyOrbits /\ NoneIsNone
  BY NoneFacts DEF Init, FlagHasTask, LatestIsLast, OnlyOrbits, NoneIsNone
<1>3. DragIsConserved
  BY NoneFacts DEF Init, DragIsConserved, NoDrag
<1> QED
  BY <1>1, <1>2, <1>3 DEF Inv

LEMMA StutterKeeps ==
    ASSUME Inv, UNCHANGED vars
    PROVE  Inv'
<1>1. Types'
  BY DEF vars, Inv, Types, TypeOK
<1> QED
  BY <1>1 DEF vars, Inv, FlagHasTask, LatestIsLast, DragIsConserved,
              OnlyOrbits, NoneIsNone

LEMMA NextKeeps == Inv /\ [Next]_vars => Inv'
<1> SUFFICES ASSUME Inv, [Next]_vars PROVE Inv'
  OBVIOUS
<1>1. CASE RunCameraTask
  BY <1>1, RunKeeps
<1>2. CASE \E mode \in DragMode, pos \in Pos : BeginDrag(mode, pos)
  BY <1>2, BeginKeeps
<1>3. CASE \E pos \in Pos, across \in BOOLEAN : MovePointer(pos, across)
  BY <1>3, MoveKeeps
<1>4. CASE FinishDrag
  BY <1>4, FinishKeeps
<1>5. CASE \E kind \in {"zoom", "reset"} : OtherCommand(kind)
  BY <1>5, OtherKeeps
<1>6. CASE \E same \in BOOLEAN : Reconnect(same)
  BY <1>6, ReconnectKeeps
<1>7. CASE SwitchServer
  BY <1>7, SwitchKeeps
<1>8. CASE UNCHANGED vars
  BY <1>8, StutterKeeps
<1> QED
  BY <1>1, <1>2, <1>3, <1>4, <1>5, <1>6, <1>7, <1>8 DEF Next

\* The invariant holds throughout.
LEMMA InvAlways == Spec => []Inv
BY InitHolds, NextKeeps, PTL DEF Spec

\* Type correctness; in particular a drag that is over leaves nothing behind.
THEOREM CameraTypes == Spec => []TypeOK
<1>1. Inv => TypeOK
  BY DEF Inv, Types
<1> QED
  BY <1>1, InvAlways, PTL

\* The in-flight flag always has a task that will clear it, so a failed or
\* repeated request and a reconnect never wedge camera control.
THEOREM CameraNeverWedges == Spec => []FlagHasTask
<1>1. Inv => FlagHasTask
  BY DEF Inv
<1> QED
  BY <1>1, InvAlways, PTL

\* Coalescing never drops the latest command.
THEOREM LatestCommandKept == Spec => []LatestIsLast
<1>1. Inv => LatestIsLast
  BY DEF Inv
<1> QED
  BY <1>1, InvAlways, PTL

\* The threshold, the backlog and coalescing neither lose nor add motion.
THEOREM DragMotionConserved == Spec => []DragIsConserved
<1>1. Inv => DragIsConserved
  BY DEF Inv
<1> QED
  BY <1>1, InvAlways, PTL
=============================================================================
