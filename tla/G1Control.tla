------------------------------ MODULE G1Control ------------------------------
(***************************************************************************)
(* Control arbitration inside the G1 simulator service: the part of        *)
(* G1MujocoState that decides which controller drives the actuators.       *)
(*                                                                         *)
(* Every action is one critical section of state.lock.  The actors are the *)
(* physics thread (200 Hz), the HTTP and WebSocket handlers that run       *)
(* client commands, the handlers of the read-only endpoints, which refresh *)
(* the watchdog too, and the clock.                                        *)
(*                                                                         *)
(* Data is abstracted to what the properties tell apart.  An actuator      *)
(* torque is the name of the controller that wrote it, deadlines are the   *)
(* clock ticks left before them, and joint angles, frame counters and the  *)
(* telemetry-only parts of the state are left out.                         *)
(***************************************************************************)
EXTENDS Integers, FiniteSets

CONSTANTS
    Client,         \* handlers that can run a smooth pose at the same time
    Pose,           \* names in NAMED_POSES
    FsmId,          \* locomotion FSM ids that clients select
    MotionName,     \* motion-switcher modes that clients select
    NMotors,        \* model.nu, the number of actuators
    HeldMotors,     \* actuators the policy does not drive (29-DOF only)
    Watchdog,       \* lowcmd_watchdog_seconds in ticks; 0 switches it off
    MaxMove,        \* longest bounded set_velocity, in ticks
    MaxFrames,      \* longest smooth pose, in frames
    PolicyFrames,   \* n_frames of the policy's reference trajectory
    PolicySubsteps, \* physics steps between two policy actions
    HasBundle       \* whether a policy bundle is loaded

Motor == 1..NMotors

ASSUME ConstantsAssumption ==
    /\ NMotors \in Nat
    /\ HeldMotors \subseteq Motor
    /\ Watchdog \in Nat
    /\ MaxMove \in Nat \ {0}
    /\ MaxFrames \in Nat \ {0}
    /\ PolicyFrames \in Nat \ {0}
    /\ PolicySubsteps \in Nat \ {0}
    /\ HasBundle \in BOOLEAN

VARIABLES
    paused, control_mode, active_pose,
    fsm_id, velocity, velocity_left,    \* loco_state
    motion_mode,                        \* motion_switcher_state["name"]
    lowcmd_state, ctrl,
    policy_state, timestep, solver, saved_solver,
    glides                              \* smooth poses in progress, by handler

locoVars == <<fsm_id, velocity, velocity_left>>
policyVars == <<policy_state, timestep, solver, saved_solver>>
vars == <<paused, control_mode, active_pose, locoVars, motion_mode,
          lowcmd_state, ctrl, policyVars, glides>>

None == "none"
NoDeadline == -1
Mode == {None, "lowcmd", "hold", "policy", "loco_velocity"}
Label == {None, "stand", "damp", "zero_torque", "loco_move", "lowcmd",
          "yoga_policy"} \cup Pose
Torque == {"zero", "lowcmd", "rejected", "hold", "policy"}
Zero == [m \in Motor |-> "zero"]

Torques == [Motor -> Torque]
LowcmdState == [left: {NoDeadline} \cup 0..Watchdog,
                active: BOOLEAN, stale: BOOLEAN]
PolicyState == [active: BOOLEAN, loop: BOOLEAN,
                frame: 0..(PolicyFrames - 1), counter: 0..(PolicySubsteps - 1)]
Glide == [pose: Pose \cup {None}, left: 0..MaxFrames]

\* left: ticks until expires_at, or NoDeadline when received_at is None.
NoLowcmd == [left |-> NoDeadline, active |-> FALSE, stale |-> FALSE]
FreshLowcmd == [left |-> Watchdog, active |-> TRUE, stale |-> FALSE]
IdlePolicy == [active |-> FALSE, loop |-> TRUE, frame |-> 0, counter |-> 0]
NoGlide == [pose |-> None, left |-> 0]

TypeOK ==
    /\ paused \in BOOLEAN
    /\ control_mode \in Mode
    /\ active_pose \in Label
    /\ fsm_id \in FsmId \cup {1}
    /\ velocity \in {"zero", "moving"}
    /\ velocity_left \in {NoDeadline} \cup 0..MaxMove
    /\ motion_mode \in MotionName \cup {""}
    /\ lowcmd_state \in LowcmdState
    /\ ctrl \in Torques
    /\ policy_state \in PolicyState
    /\ timestep \in {"default", "policy"}
    /\ solver \in {"default", "training"}
    /\ saved_solver \in {None, "default", "training"}
    /\ glides \in [Client -> Glide]

\* UNITREE_G1_AUTORUN decides whether physics runs from the start.
Init ==
    /\ paused \in BOOLEAN
    /\ control_mode = None
    /\ active_pose = None
    /\ fsm_id = 1
    /\ velocity = "zero"
    /\ velocity_left = NoDeadline
    /\ motion_mode = ""
    /\ lowcmd_state = NoLowcmd
    /\ ctrl = Zero
    /\ policy_state = IdlePolicy
    /\ timestep = "default"
    /\ solver = "default"
    /\ saved_solver = None
    /\ glides = [c \in Client |-> NoGlide]

-----------------------------------------------------------------------------
(* The lowcmd watchdog. *)

Expired(lc) == Watchdog > 0 /\ lc.left = 0

\* refresh_lowcmd_watchdog_locked, its effect on lowcmd_state.
RefreshedLowcmd(lc) ==
    IF lc.left = NoDeadline
    THEN NoLowcmd
    ELSE [lc EXCEPT !.active = ~Expired(lc), !.stale = Expired(lc)]

\* Fault: the stale command is reported but its torques stay.
RefreshedCtrl_KeepsTorque(lc, torques) == torques

\* Its effect on the torques: released once, when the command turns stale.
RefreshedCtrl(lc, torques) ==
    IF Expired(lc) /\ ~lc.stale THEN Zero ELSE torques

RefreshWatchdog ==
    /\ lowcmd_state' = RefreshedLowcmd(lowcmd_state)
    /\ ctrl' = RefreshedCtrl(lowcmd_state, ctrl)

-----------------------------------------------------------------------------
(* One physics step, shared by the physics thread and the step command.    *)
(* refresh, hold, policy and loco run in this order; the last three act in *)
(* different control modes, so at most one of them does anything.          *)

\* Modes without a controller of their own leave the torques as they are.
IdleSubstep ==
    /\ control_mode \in {None, "lowcmd"}
    /\ RefreshWatchdog
    /\ UNCHANGED <<paused, control_mode, active_pose, locoVars, policyVars>>

HoldSubstep ==
    /\ control_mode = "hold"
    /\ lowcmd_state' = RefreshedLowcmd(lowcmd_state)
    /\ ctrl' = [m \in Motor |-> "hold"]
    /\ UNCHANGED <<paused, control_mode, active_pose, locoVars, policyVars>>

\* stop_yoga_policy_locked
StoppedPolicy(frame, counter) ==
    /\ timestep' = "default"
    /\ solver' = IF saved_solver = None THEN solver ELSE saved_solver
    /\ saved_solver' = saved_solver
    /\ control_mode' = None
    /\ active_pose' = None
    /\ ctrl' = Zero
    /\ paused' = TRUE
    /\ policy_state' = [policy_state EXCEPT !.active = FALSE, !.frame = frame,
                                            !.counter = counter]

NextFrame(frame) == (frame + 1) % PolicyFrames

\* A run that does not loop ends when its frame index wraps around.
RunIsOver(frame) == ~policy_state.loop /\ frame = 0

\* Every PolicySubsteps steps the policy writes a new action.
PolicyActs ==
    LET frame == NextFrame(policy_state.frame)
    IN  /\ policy_state.counter = 0
        /\ IF RunIsOver(frame)
           THEN StoppedPolicy(frame, policy_state.counter)
           ELSE /\ policy_state' =
                     [policy_state EXCEPT !.frame = frame,
                                          !.counter = 1 % PolicySubsteps]
                /\ ctrl' = [m \in Motor |-> "policy"]
                /\ UNCHANGED <<paused, control_mode, active_pose, timestep,
                               solver, saved_solver>>

\* Between two actions only the actuators outside the policy are driven.
PolicyHoldsExtra ==
    LET torques == RefreshedCtrl(lowcmd_state, ctrl)
    IN  /\ policy_state.counter # 0
        /\ policy_state' =
             [policy_state EXCEPT !.counter = (@ + 1) % PolicySubsteps]
        /\ ctrl' = [m \in Motor |-> IF m \in HeldMotors THEN "policy"
                                                        ELSE torques[m]]
        /\ UNCHANGED <<paused, control_mode, active_pose, timestep, solver,
                       saved_solver>>

PolicySubstep ==
    /\ control_mode = "policy"
    /\ lowcmd_state' = RefreshedLowcmd(lowcmd_state)
    /\ PolicyActs \/ PolicyHoldsExtra
    /\ UNCHANGED locoVars

\* apply_loco_velocity_locked: a bounded move ends after its deadline.
LocoVelocity ==
    IF velocity_left = 0
    THEN /\ velocity' = "zero"
         /\ velocity_left' = NoDeadline
         /\ control_mode' = None
         /\ active_pose' = "stand"
         /\ paused' = TRUE
         /\ UNCHANGED fsm_id
    ELSE UNCHANGED <<paused, control_mode, active_pose, locoVars>>

LocoSubstep ==
    /\ control_mode = "loco_velocity"
    /\ RefreshWatchdog
    /\ LocoVelocity
    /\ UNCHANGED policyVars

Substep ==
    /\ IdleSubstep \/ HoldSubstep \/ PolicySubstep \/ LocoSubstep
    /\ UNCHANGED <<motion_mode, glides>>

-----------------------------------------------------------------------------
(* The physics thread: advance_for_wall_time *)

\* Fault: the paused branch returns before it looks at the watchdog.
PhysicsPaused_NoWatchdog ==
    /\ paused
    /\ UNCHANGED vars

PhysicsPaused ==
    /\ paused
    /\ RefreshWatchdog
    /\ UNCHANGED <<paused, control_mode, active_pose, locoVars, motion_mode,
                   policyVars, glides>>

PhysicsRunning ==
    /\ ~paused
    /\ Substep

Physics == PhysicsPaused \/ PhysicsRunning

\* One tick of the wall clock and of the monotonic clock.
Elapse(left) == IF left > 0 THEN left - 1 ELSE left

Tick ==
    /\ lowcmd_state.left > 0 \/ velocity_left > 0
    /\ lowcmd_state' = [lowcmd_state EXCEPT !.left = Elapse(@)]
    /\ velocity_left' = Elapse(velocity_left)
    /\ UNCHANGED <<paused, control_mode, active_pose, fsm_id, velocity,
                   motion_mode, ctrl, policyVars, glides>>

-----------------------------------------------------------------------------
(* Read-only endpoints *)

\* GET /status, GET /health and the simulation_state topic.
ReadStatus ==
    /\ RefreshWatchdog
    /\ UNCHANGED <<paused, control_mode, active_pose, locoVars, motion_mode,
                   policyVars, glides>>

\* GET /lowstate also ends an overdue move, even while paused.
ReadLowState ==
    /\ RefreshWatchdog
    /\ IF control_mode = "loco_velocity"
       THEN LocoVelocity
       ELSE UNCHANGED <<paused, control_mode, active_pose, locoVars>>
    /\ UNCHANGED <<motion_mode, policyVars, glides>>

-----------------------------------------------------------------------------
(* Client commands: handle_command *)

SetPaused(value) ==
    /\ paused' = value
    /\ active_pose' = IF value THEN active_pose ELSE None
    /\ UNCHANGED <<control_mode, locoVars, motion_mode, lowcmd_state, ctrl,
                   policyVars, glides>>

Reset ==
    /\ paused' = TRUE
    /\ control_mode' = None
    /\ active_pose' = None
    /\ fsm_id' = 1
    /\ velocity' = "zero"
    /\ velocity_left' = NoDeadline
    /\ lowcmd_state' = NoLowcmd
    /\ ctrl' = Zero
    /\ timestep' = "default"
    /\ policy_state' = [policy_state EXCEPT !.active = FALSE, !.counter = 0]
    /\ UNCHANGED <<motion_mode, solver, saved_solver, glides>>

StepOnce == Substep

\* Fault: each frame of a smooth pose lets the physics run.
Settle_Resumes(pose) ==
    /\ ctrl' = Zero
    /\ paused' = FALSE
    /\ active_pose' = pose
    /\ UNCHANGED <<control_mode, locoVars, motion_mode, lowcmd_state, policyVars>>

\* Fault: the torques of the previous controller stay.
Settle_KeepsTorque(pose) ==
    /\ paused' = TRUE
    /\ active_pose' = pose
    /\ UNCHANGED <<ctrl, control_mode, locoVars, motion_mode, lowcmd_state,
                   policyVars>>

\* _settle_locked, for a named pose and for each frame of a smooth one.
Settle(pose) ==
    /\ ctrl' = Zero
    /\ paused' = TRUE
    /\ active_pose' = pose
    /\ UNCHANGED <<control_mode, locoVars, motion_mode, lowcmd_state, policyVars>>

\* pose, the pose names themselves, and the loco arm tasks and stands.
ApplyNamedPose(pose) ==
    /\ Settle(pose)
    /\ UNCHANGED glides

\* animate_to_pose.  Compiling the target resets the simulator's data, so
\* the torques are gone before the first frame; each frame then takes the
\* lock on its own.
AnimateStart(c, pose, frames) ==
    /\ glides[c].left = 0
    /\ glides' = [glides EXCEPT ![c] = [pose |-> pose, left |-> frames]]
    /\ ctrl' = Zero
    /\ UNCHANGED <<paused, control_mode, active_pose, locoVars, motion_mode,
                   lowcmd_state, policyVars>>

AnimateFrame(c) ==
    /\ glides[c].left > 0
    /\ Settle(glides[c].pose)
    /\ glides' = [glides EXCEPT ![c] =
                    IF glides[c].left = 1 THEN NoGlide
                    ELSE [glides[c] EXCEPT !.left = @ - 1]]

SetHoldPose(pose) ==
    /\ ctrl' = Zero
    /\ control_mode' = "hold"
    /\ paused' = FALSE
    /\ active_pose' = pose
    /\ UNCHANGED <<locoVars, motion_mode, lowcmd_state, policyVars, glides>>

StartYogaPolicy(loop, frame) ==
    /\ HasBundle
    /\ timestep' = "policy"
    /\ saved_solver' = solver
    /\ solver' = "training"
    /\ ctrl' = Zero
    /\ policy_state' = [active |-> TRUE, loop |-> loop, frame |-> frame,
                        counter |-> 0]
    /\ control_mode' = "policy"
    /\ active_pose' = "yoga_policy"
    /\ paused' = FALSE
    /\ UNCHANGED <<locoVars, motion_mode, lowcmd_state, glides>>

\* Accepted in any mode and without a bundle.
StopYogaPolicy ==
    /\ StoppedPolicy(policy_state.frame, policy_state.counter)
    /\ UNCHANGED <<locoVars, motion_mode, lowcmd_state, glides>>

\* Fault: the controller in charge stays in charge.
Disarm_KeepsMode(label) ==
    /\ lowcmd_state' = NoLowcmd
    /\ velocity' = "zero"
    /\ velocity_left' = NoDeadline
    /\ paused' = TRUE
    /\ active_pose' = label
    /\ UNCHANGED control_mode

\* Fault: the physics goes on.
Disarm_KeepsRunning(label) ==
    /\ control_mode' = None
    /\ lowcmd_state' = NoLowcmd
    /\ velocity' = "zero"
    /\ velocity_left' = NoDeadline
    /\ active_pose' = label
    /\ UNCHANGED paused

\* The common part of damp, zero torque and release_mode.
Disarm(label) ==
    /\ control_mode' = None
    /\ lowcmd_state' = NoLowcmd
    /\ velocity' = "zero"
    /\ velocity_left' = NoDeadline
    /\ paused' = TRUE
    /\ active_pose' = label

SetFsmId(id) ==
    /\ fsm_id' = id
    /\ IF id \in {0, 1}
       THEN Disarm(IF id = 0 THEN "zero_torque" ELSE "damp")
       ELSE /\ active_pose' = IF id = 500 THEN "stand" ELSE active_pose
            /\ UNCHANGED <<control_mode, lowcmd_state, velocity, velocity_left,
                           paused>>
    /\ UNCHANGED <<motion_mode, ctrl, policyVars, glides>>

\* left = 0: no motion asked for, or a duration that is not positive.
\* NoDeadline: a duration of 864000 s or more, which is never checked.
SetVelocity(speed, left) ==
    /\ velocity' = speed
    /\ IF speed = "zero" \/ left = 0
       THEN /\ velocity_left' = NoDeadline
            /\ control_mode' = None
            /\ active_pose' = "stand"
            /\ paused' = TRUE
       ELSE /\ velocity_left' = left
            /\ control_mode' = "loco_velocity"
            /\ active_pose' = "loco_move"
            /\ paused' = FALSE
    /\ UNCHANGED <<fsm_id, motion_mode, lowcmd_state, ctrl, policyVars, glides>>

SelectMode(name) ==
    /\ motion_mode' = name
    /\ UNCHANGED <<paused, control_mode, active_pose, locoVars, lowcmd_state,
                   ctrl, policyVars, glides>>

ReleaseMode ==
    /\ motion_mode' = ""
    /\ fsm_id' = 1
    /\ Disarm("damp")
    /\ UNCHANGED <<ctrl, policyVars, glides>>

\* lowcmd and joint_targets: the first n motors are commanded.
LowCmd(n) ==
    /\ ctrl' = [m \in Motor |-> IF m <= n THEN "lowcmd" ELSE ctrl[m]]
    /\ lowcmd_state' = FreshLowcmd
    /\ control_mode' = "lowcmd"
    /\ active_pose' = "lowcmd"
    /\ paused' = TRUE
    /\ UNCHANGED <<locoVars, motion_mode, policyVars, glides>>

\* Fault: the arrival is recorded before the command is validated.
LowCmdRejected_Renews(n) ==
    /\ ctrl' = [m \in Motor |-> IF m <= n THEN "rejected" ELSE ctrl[m]]
    /\ lowcmd_state' = FreshLowcmd
    /\ UNCHANGED <<paused, control_mode, active_pose, locoVars, motion_mode,
                   policyVars, glides>>

\* A malformed entry, or header field, is found after n torques are written.
LowCmdRejected(n) ==
    /\ ctrl' = [m \in Motor |-> IF m <= n THEN "rejected" ELSE ctrl[m]]
    /\ UNCHANGED <<paused, control_mode, active_pose, locoVars, motion_mode,
                   lowcmd_state, policyVars, glides>>

PoseCommand ==
    \/ \E pose \in Pose : ApplyNamedPose(pose) \/ SetHoldPose(pose)
    \/ \E c \in Client, pose \in Pose, n \in 1..MaxFrames : AnimateStart(c, pose, n)

LocoCommand ==
    \/ \E id \in FsmId : SetFsmId(id)
    \/ \E speed \in {"zero", "moving"}, left \in {NoDeadline} \cup 0..MaxMove :
         SetVelocity(speed, left)

MotionCommand ==
    \/ \E name \in MotionName : SelectMode(name)
    \/ ReleaseMode

LowCommand ==
    \/ \E n \in 0..NMotors : LowCmd(n)
    \/ \E n \in Motor : LowCmdRejected(n)

PolicyCommand ==
    \/ \E loop \in BOOLEAN, frame \in 0..(PolicyFrames - 1) :
         StartYogaPolicy(loop, frame)
    \/ StopYogaPolicy

LifecycleCommand ==
    \/ \E value \in BOOLEAN : SetPaused(value)
    \/ Reset
    \/ StepOnce

ClientCommand ==
    \/ LifecycleCommand
    \/ PoseCommand
    \/ LocoCommand
    \/ MotionCommand
    \/ LowCommand
    \/ PolicyCommand

\* What happens without anybody asking for it, or asking only to read.
Background ==
    \/ Tick
    \/ Physics
    \/ \E c \in Client : AnimateFrame(c)
    \/ ReadStatus
    \/ ReadLowState

Next == ClientCommand \/ Background

Spec == Init /\ [][Next]_vars

\* The clocks advance, the physics thread runs for ever (an exception in it
\* is caught and logged) and a handler finishes the pose it animates.
Fairness ==
    /\ WF_vars(Tick)
    /\ WF_vars(Physics)
    /\ \A c \in Client : WF_vars(AnimateFrame(c))

FairSpec == Spec /\ Fairness
-----------------------------------------------------------------------------
(* Properties *)

\* The controller named by control_mode always has what it needs to run:
\* the policy its timestep and training solver options, a velocity move a
\* velocity, a low-level command a recorded arrival time for the watchdog.
\* Handlers that take a mode over must not clear another mode's state.
ModeHasItsState ==
    /\ control_mode = "policy" => /\ policy_state.active
                                  /\ solver = "training"
                                  /\ saved_solver # None
    /\ control_mode = "loco_velocity" => velocity = "moving"
    /\ control_mode = "lowcmd" => lowcmd_state.left # NoDeadline
    /\ timestep = "policy" <=> policy_state.active

\* Once the watchdog has declared the low-level command stale, no actuator
\* still carries a torque that an accepted command wrote, whoever noticed
\* the expiry and whatever ran since (refresh_lowcmd_watchdog_locked).
StaleReleasesTorque ==
    lowcmd_state.stale => \A m \in Motor : ctrl[m] # "lowcmd"

\* The physics thread, the clock, running animations and the read-only
\* endpoints never start anything: a paused robot stays paused, no
\* controller is put in charge, and no low-level torque appears.
NoSelfActivation ==
    [][Background =>
         /\ paused => paused'
         /\ control_mode' \in {control_mode, None}
         /\ \A m \in Motor : ctrl'[m] \in {"lowcmd", "rejected"} => ctrl'[m] = ctrl[m]]_vars

Commanded == {m \in Motor : ctrl[m] \in {"lowcmd", "rejected"}}

Lease == INSTANCE CommandLease WITH
           Actuator <- Motor, Duration <- Watchdog, NoLease <- NoDeadline,
           left <- lowcmd_state.left, expired <- lowcmd_state.stale,
           inCharge <- (control_mode = "lowcmd"), energized <- Commanded

\* Towards a client that streams low-level commands the service behaves as the
\* lease of CommandLease: only an accepted command opens or renews it and puts
\* low-level commands in charge; nothing but a disarming ends it before its time,
\* and then its torques and those of rejected commands go together; no other
\* step adds such a torque, and a rejected one, which does, leaves the lease alone
\* (handle_lowcmd_command, refresh_lowcmd_watchdog_locked, and every handler
\* that resets lowcmd_state, control_mode or ctrl).
ImplementsLease == Lease!Spec

\* From some point on every step is one that needs no command.
OperatorsFallSilent == <>[][Background]_vars

\* What silent clients left running comes to an end.  If clients stop sending,
\* the last low-level command is found stale, paused or not, and stays so; a
\* velocity move with a duration ends, and so does a policy run that does not
\* loop, unless an animation has paused the simulator (the watchdog,
\* apply_loco_velocity_locked, apply_policy_control_locked).
LeftoversEnd ==
    OperatorsFallSilent =>
      <>[](/\ lowcmd_state.left = NoDeadline \/ lowcmd_state.stale
           /\ control_mode = "loco_velocity" /\ velocity_left # NoDeadline => paused
           /\ control_mode = "policy" /\ ~policy_state.loop => paused)

-----------------------------------------------------------------------------
\* The training solver options are in force only around policy mode.  The
\* session log says so; violated, since a reset or another controller that takes
\* over from a policy leaves them (section 5 of the README).
SolverFollowsPolicyMode ==
    solver = "training" => control_mode = "policy"

=============================================================================
