----------------------------- MODULE SafetyStop -----------------------------
(***************************************************************************)
(* The safety-stop procedure shared by SimulatorClient.safety_stop and the *)
(* MCP server's safetyStop: four HTTP commands sent one after the other,   *)
(* each attempted whatever became of the one before, run against a         *)
(* simulator that other clients may be using at the same time.             *)
(***************************************************************************)
EXTENDS G1Control

CONSTANT MaxLate    \* requests of a stop that can be late at the same time

\* What a stop sends any client may send.
ASSUME StopAssumption ==
    /\ MaxLate \in Nat
    /\ "neutral" \in Pose /\ 1 \in FsmId

VARIABLES
    step,       \* next step to send: 1..4, 5 when done, 0 before the first stop
    verdict,    \* the "ok" the procedure has gathered so far, or "disturbed"
                \* if another client has sent a command since the stop began
    late,       \* steps the client gave up on that the server will still run
    reached     \* some step of an undisturbed stop has been executed

stopVars == <<step, verdict, late, reached>>
allVars == <<vars, stopVars>>

Idle == 0
Done == 5
StopSteps == 1..4

StopTypeOK ==
    /\ TypeOK
    /\ step \in 0..5
    /\ verdict \in {"ok", "failed", "disturbed"}
    /\ late \in SUBSET StopSteps
    /\ reached \in BOOLEAN

StopInit ==
    /\ Init
    /\ step = Idle
    /\ verdict = "ok"
    /\ late = {}
    /\ reached = FALSE

\* What the simulator does on each request of the stop.
Execute(s) ==
    \/ s = 1 /\ ReleaseMode
    \/ s = 2 /\ SetFsmId(1)
    \/ s = 3 /\ ApplyNamedPose("neutral")
    \/ s = 4 /\ SetPaused(TRUE)

BeginStop ==
    /\ step \in {Idle, Done}
    /\ step' = 1
    /\ verdict' = "ok"
    /\ reached' = FALSE
    /\ UNCHANGED <<vars, late>>

AfterFailure == IF verdict = "disturbed" THEN verdict ELSE "failed"

\* The request is executed; its reply may get lost, which counts as failed.
StepExecuted ==
    /\ step \in StopSteps
    /\ Execute(step)
    /\ step' = step + 1
    /\ verdict' \in {verdict, AfterFailure}
    /\ reached' = (verdict # "disturbed")
    /\ UNCHANGED late

\* The request fails and is never executed.
StepFails ==
    /\ step \in StopSteps
    /\ step' = step + 1
    /\ verdict' = AfterFailure
    /\ UNCHANGED <<vars, late, reached>>

\* The client times out while the handler still waits for state.lock.
StepTimesOut ==
    /\ step \in StopSteps
    /\ Cardinality(late \cup {step}) <= MaxLate
    /\ late' = late \cup {step}
    /\ step' = step + 1
    /\ verdict' = AfterFailure
    /\ UNCHANGED <<vars, reached>>

LateStep(s) ==
    /\ s \in late
    /\ Execute(s)
    /\ late' = late \ {s}
    /\ UNCHANGED <<step, verdict, reached>>

OtherClient ==
    /\ ClientCommand
    /\ verdict' = "disturbed"
    /\ reached' = FALSE
    /\ UNCHANGED <<step, late>>

Simulator ==
    /\ Background
    /\ UNCHANGED stopVars

StopNext ==
    \/ BeginStop
    \/ StepExecuted
    \/ StepFails
    \/ StepTimesOut
    \/ \E s \in StopSteps : LateStep(s)
    \/ OtherClient
    \/ Simulator

StopSpec == StopInit /\ [][StopNext]_allVars

-----------------------------------------------------------------------------
(* Properties *)

Passive ==
    /\ paused
    /\ control_mode = None
    /\ velocity = "zero"
    /\ lowcmd_state.left = NoDeadline
    /\ motion_mode = ""
    /\ ctrl = Zero

\* A stop that reports ok, and that no other client has interfered with
\* since it began, leaves the robot passive and it stays passive, whatever
\* was running before: animations still in progress, a policy, a move, a
\* stream of low-level commands, late requests of an earlier stop.
StopLeavesRobotPassive ==
    step = Done /\ verdict = "ok" => Passive

\* Each step of the stop pauses the simulator, so a stop of which only some
\* request got through has still halted the physics.
AnyStepHalts ==
    reached => paused

\* A stop that reports ok has returned the robot to the neutral pose.
StopNeutralizes ==
    step = Done /\ verdict = "ok" => active_pose = "neutral"
=============================================================================
