--------------------------- MODULE G1ControlProofs ---------------------------
(***************************************************************************)
(* Theorems about G1Control, for every number of clients, poses, motors,   *)
(* frames and every watchdog period; and, at the end, about the simulator  *)
(* under the stop procedure (SafetyStop), for any number of late requests. *)
(***************************************************************************)
EXTENDS SafetyStop, TLAPS

-----------------------------------------------------------------------------
(* The values the handlers assign have the types TypeOK names. *)

\* The modes and labels written in the code are modes and labels.
LEMMA Literals ==
    /\ {None, "lowcmd", "hold", "policy", "loco_velocity"} \subseteq Mode
    /\ {None, "stand", "damp", "zero_torque", "loco_move", "lowcmd",
        "yoga_policy"} \subseteq Label
    /\ Pose \subseteq Label
  BY DEF Mode, Label

\* The lengths of a motor command are integers.
LEMMA MotorCounts == \A n : n \in 0..NMotors \/ n \in Motor => n \in Int
  BY ConstantsAssumption DEF Motor

\* Every controller writes torques.
LEMMA TorqueTypes ==
    /\ Zero \in Torques
    /\ \A t \in Torque : [m \in Motor |-> t] \in Torques
    /\ \A t \in Torque, n \in Int, old \in Torques :
         [m \in Motor |-> IF m <= n THEN t ELSE old[m]] \in Torques
    /\ \A old \in Torques :
         [m \in Motor |-> IF m \in HeldMotors THEN "policy" ELSE old[m]] \in Torques
    /\ {"lowcmd", "rejected", "hold", "policy"} \subseteq Torque
  BY DEF Zero, Torques, Torque

\* The states of the lowcmd watchdog, and what time and a refresh make of them.
LEMMA LowcmdTypes ==
    /\ NoLowcmd \in LowcmdState
    /\ FreshLowcmd \in LowcmdState
    /\ \A lc \in LowcmdState :
         /\ RefreshedLowcmd(lc) \in LowcmdState
         /\ RefreshedLowcmd(lc).left = lc.left
         /\ [lc EXCEPT !.left = Elapse(@)] \in LowcmdState
  <1> USE ConstantsAssumption DEF NoDeadline, LowcmdState
  <1>1. NoLowcmd \in LowcmdState /\ FreshLowcmd \in LowcmdState
    BY DEF NoLowcmd, FreshLowcmd
  <1>2. ASSUME NEW lc \in LowcmdState
        PROVE  /\ RefreshedLowcmd(lc) \in LowcmdState
               /\ RefreshedLowcmd(lc).left = lc.left
    <2>1. Expired(lc) \in BOOLEAN
      BY DEF Expired
    <2> QED BY <2>1 DEF RefreshedLowcmd, NoLowcmd
  <1>3. ASSUME NEW lc \in LowcmdState
        PROVE  [lc EXCEPT !.left = Elapse(@)] \in LowcmdState
    BY DEF Elapse
  <1> QED BY <1>1, <1>2, <1>3

\* The deadline of a move, as time passes.
LEMMA ElapseType ==
    \A left \in {NoDeadline} \cup 0..MaxMove : Elapse(left) \in {NoDeadline} \cup 0..MaxMove
  BY ConstantsAssumption DEF Elapse, NoDeadline

\* A refresh of the watchdog returns torques.
LEMMA RefreshedCtrlType ==
    ASSUME NEW lc, NEW torques \in Torques
    PROVE  RefreshedCtrl(lc, torques) \in Torques
  BY TorqueTypes DEF RefreshedCtrl

\* The states of the policy runtime.
LEMMA PolicyTypes ==
    /\ IdlePolicy \in PolicyState
    /\ \A loop \in BOOLEAN, frame \in 0..(PolicyFrames - 1) :
         [active |-> TRUE, loop |-> loop, frame |-> frame, counter |-> 0] \in PolicyState
    /\ \A frame \in 0..(PolicyFrames - 1) : NextFrame(frame) \in 0..(PolicyFrames - 1)
    /\ \A counter \in 0..(PolicySubsteps - 1) :
         (counter + 1) % PolicySubsteps \in 0..(PolicySubsteps - 1)
    /\ 1 % PolicySubsteps \in 0..(PolicySubsteps - 1)
    /\ 0 \in 0..(PolicySubsteps - 1)
    /\ \A p \in PolicyState : /\ p.frame \in 0..(PolicyFrames - 1)
                             /\ p.counter \in 0..(PolicySubsteps - 1)
  <1>1. IdlePolicy \in PolicyState
    BY ConstantsAssumption DEF IdlePolicy, PolicyState
  <1>2. ASSUME NEW loop \in BOOLEAN, NEW frame \in 0..(PolicyFrames - 1)
        PROVE  [active |-> TRUE, loop |-> loop, frame |-> frame, counter |-> 0] \in PolicyState
    BY ConstantsAssumption DEF PolicyState
  <1>3. ASSUME NEW frame \in 0..(PolicyFrames - 1)
        PROVE  NextFrame(frame) \in 0..(PolicyFrames - 1)
    BY ConstantsAssumption DEF NextFrame
  <1>4. ASSUME NEW counter \in 0..(PolicySubsteps - 1)
        PROVE  (counter + 1) % PolicySubsteps \in 0..(PolicySubsteps - 1)
    BY ConstantsAssumption
  <1>5. /\ 1 % PolicySubsteps \in 0..(PolicySubsteps - 1)
        /\ 0 \in 0..(PolicySubsteps - 1)
    BY ConstantsAssumption
  <1>6. \A p \in PolicyState : /\ p.frame \in 0..(PolicyFrames - 1)
                               /\ p.counter \in 0..(PolicySubsteps - 1)
    BY DEF PolicyState
  <1> QED BY <1>1, <1>2, <1>3, <1>4, <1>5, <1>6

\* Ending a run keeps the policy's state a policy state.
LEMMA StoppedPolicyType ==
    ASSUME NEW p \in PolicyState, NEW frame \in 0..(PolicyFrames - 1),
           NEW counter \in 0..(PolicySubsteps - 1)
    PROVE  [p EXCEPT !.active = FALSE, !.frame = frame, !.counter = counter] \in PolicyState
  BY DEF PolicyState

\* So does advancing it.
LEMMA AdvancedPolicyType ==
    ASSUME NEW p \in PolicyState, NEW frame \in 0..(PolicyFrames - 1),
           NEW counter \in 0..(PolicySubsteps - 1)
    PROVE  /\ [p EXCEPT !.frame = frame, !.counter = counter] \in PolicyState
           /\ [p EXCEPT !.active = FALSE, !.counter = counter] \in PolicyState
           /\ [p EXCEPT !.counter = counter] \in PolicyState
  BY DEF PolicyState

\* The states of a smooth pose.
LEMMA GlideTypes ==
    /\ NoGlide \in Glide
    /\ \A pose \in Pose, n \in 1..MaxFrames : [pose |-> pose, left |-> n] \in Glide
    /\ \A g \in Glide : g.left > 0 => [g EXCEPT !.left = @ - 1] \in Glide
  BY ConstantsAssumption DEF NoGlide, Glide

-----------------------------------------------------------------------------
(* Type correctness *)

\* A physics step keeps the types.
LEMMA SubstepType == TypeOK /\ Substep => TypeOK'
<1> SUFFICES ASSUME TypeOK, Substep PROVE TypeOK'
  OBVIOUS
<1> USE DEF TypeOK
<1>0. /\ RefreshedLowcmd(lowcmd_state) \in LowcmdState
      /\ RefreshedCtrl(lowcmd_state, ctrl) \in Torques
  BY LowcmdTypes, RefreshedCtrlType
<1>1. CASE IdleSubstep
  BY <1>0, <1>1 DEF Substep, IdleSubstep, RefreshWatchdog, locoVars, policyVars
<1>2. CASE HoldSubstep
  BY <1>0, <1>2, TorqueTypes DEF Substep, HoldSubstep, locoVars, policyVars
<1>3. CASE LocoSubstep
  BY <1>0, <1>3, Literals DEF Substep, LocoSubstep, LocoVelocity, RefreshWatchdog,
     locoVars, policyVars, NoDeadline
<1>4. CASE PolicySubstep
  <2> DEFINE next == NextFrame(policy_state.frame)
  <2>0. /\ next \in 0..(PolicyFrames - 1)
        /\ policy_state.counter \in 0..(PolicySubsteps - 1)
        /\ (policy_state.counter + 1) % PolicySubsteps \in 0..(PolicySubsteps - 1)
    BY PolicyTypes
  <2> HIDE DEF next
  <2>1. CASE PolicyActs /\ RunIsOver(next)
    <3>0. StoppedPolicy(next, policy_state.counter)
      BY <2>1 DEF PolicyActs, next
    <3>1. policy_state' \in PolicyState
      BY <2>0, <3>0, StoppedPolicyType DEF StoppedPolicy
    <3> QED BY <1>0, <1>4, <3>0, <3>1, TorqueTypes, Literals
            DEF Substep, PolicySubstep, StoppedPolicy, locoVars
  <2>2. CASE PolicyActs /\ ~RunIsOver(next)
    <3>1. 1 % PolicySubsteps \in 0..(PolicySubsteps - 1)
      BY PolicyTypes
    <3>2. policy_state' = [policy_state EXCEPT !.frame = next,
                                               !.counter = 1 % PolicySubsteps]
      BY <2>2 DEF PolicyActs, next
    <3>3. policy_state' \in PolicyState
      BY <2>0, <3>1, <3>2, AdvancedPolicyType
    <3> QED BY <1>0, <1>4, <2>2, <3>3, TorqueTypes
            DEF Substep, PolicySubstep, PolicyActs, locoVars, next
  <2>3. CASE PolicyHoldsExtra
    <3>1. policy_state' = [policy_state EXCEPT !.counter =
                             (policy_state.counter + 1) % PolicySubsteps]
      BY <2>3 DEF PolicyHoldsExtra
    <3>2. policy_state' \in PolicyState
      BY <2>0, <3>1, AdvancedPolicyType
    <3>3. ctrl' \in Torques
      BY <1>0, <2>3, TorqueTypes DEF PolicyHoldsExtra
    <3> QED BY <1>0, <1>4, <2>3, <3>2, <3>3
            DEF Substep, PolicySubstep, PolicyHoldsExtra, locoVars
  <2> QED BY <1>4, <2>1, <2>2, <2>3 DEF PolicySubstep
<1> QED BY <1>1, <1>2, <1>3, <1>4 DEF Substep

\* A step that no client asked for keeps the types.
LEMMA BackgroundType == TypeOK /\ Background => TypeOK'
<1> SUFFICES ASSUME TypeOK, Background PROVE TypeOK'
  OBVIOUS
<1> USE DEF TypeOK
<1>0. /\ RefreshedLowcmd(lowcmd_state) \in LowcmdState
      /\ RefreshedCtrl(lowcmd_state, ctrl) \in Torques
  BY LowcmdTypes, RefreshedCtrlType
<1>1. CASE Tick
  <2>1. lowcmd_state' \in LowcmdState
    BY <1>1, LowcmdTypes DEF Tick
  <2>2. velocity_left' \in {NoDeadline} \cup 0..MaxMove
    BY <1>1, ElapseType DEF Tick
  <2> QED BY <1>1, <2>1, <2>2 DEF Tick, policyVars
<1>2. CASE PhysicsPaused
  BY <1>0, <1>2 DEF PhysicsPaused, RefreshWatchdog, locoVars, policyVars
<1>3. CASE PhysicsRunning
  BY <1>3, SubstepType DEF PhysicsRunning
<1>4. ASSUME NEW c \in Client, AnimateFrame(c) PROVE TypeOK'
  <2>1. glides[c] \in Glide /\ glides[c].left > 0
    BY <1>4 DEF AnimateFrame
  <2> DEFINE next == IF glides[c].left = 1 THEN NoGlide
                     ELSE [glides[c] EXCEPT !.left = @ - 1]
  <2>2. next \in Glide
    BY <2>1, GlideTypes
  <2>3. glides' = [glides EXCEPT ![c] = next]
    BY <1>4 DEF AnimateFrame
  <2> HIDE DEF next
  <2>4. glides' \in [Client -> Glide]
    BY <2>2, <2>3
  <2>5. glides[c].pose \in Label
    BY <2>1, Literals DEF Glide
  <2> QED BY <1>4, <2>4, <2>5, TorqueTypes
          DEF AnimateFrame, Settle, locoVars, policyVars
<1>5. CASE ReadStatus
  BY <1>0, <1>5 DEF ReadStatus, RefreshWatchdog, locoVars, policyVars
<1>6. CASE ReadLowState
  BY <1>0, <1>6, Literals DEF ReadLowState, LocoVelocity, RefreshWatchdog,
     locoVars, policyVars, NoDeadline
<1> QED BY <1>1, <1>2, <1>3, <1>4, <1>5, <1>6 DEF Background, Physics

\* A client's command keeps the types.
LEMMA CommandType == TypeOK /\ ClientCommand => TypeOK'
<1> SUFFICES ASSUME TypeOK, ClientCommand PROVE TypeOK'
  OBVIOUS
<1> USE DEF TypeOK
<1>1. ASSUME NEW value \in BOOLEAN, SetPaused(value) PROVE TypeOK'
  BY <1>1, Literals DEF SetPaused, locoVars, policyVars
<1>2. CASE Reset
  <2>1. policy_state' \in PolicyState
    BY <1>2, PolicyTypes, AdvancedPolicyType DEF Reset
  <2> QED BY <1>2, <2>1, TorqueTypes, LowcmdTypes, Literals DEF Reset
<1>3. CASE StepOnce
  BY <1>3, SubstepType DEF StepOnce
<1>4. ASSUME NEW pose \in Pose, ApplyNamedPose(pose) PROVE TypeOK'
  BY <1>4, TorqueTypes, Literals DEF ApplyNamedPose, Settle, locoVars, policyVars
<1>5. ASSUME NEW pose \in Pose, SetHoldPose(pose) PROVE TypeOK'
  BY <1>5, TorqueTypes, Literals DEF SetHoldPose, locoVars, policyVars
<1>6. ASSUME NEW c \in Client, NEW pose \in Pose, NEW n \in 1..MaxFrames,
             AnimateStart(c, pose, n)
      PROVE  TypeOK'
  BY <1>6, TorqueTypes, GlideTypes DEF AnimateStart, locoVars, policyVars
<1>7. ASSUME NEW id \in FsmId, SetFsmId(id) PROVE TypeOK'
  <2>1. CASE id \in {0, 1}
    BY <1>7, <2>1, LowcmdTypes, Literals DEF SetFsmId, Disarm, policyVars
  <2>2. CASE id \notin {0, 1}
    <3>1. active_pose' \in Label
      BY <1>7, <2>2, Literals DEF SetFsmId
    <3> QED BY <1>7, <2>2, <3>1 DEF SetFsmId, policyVars
  <2> QED BY <2>1, <2>2
<1>8. ASSUME NEW speed \in {"zero", "moving"},
             NEW left \in {NoDeadline} \cup 0..MaxMove, SetVelocity(speed, left)
      PROVE  TypeOK'
  BY <1>8, Literals DEF SetVelocity, policyVars
<1>9. ASSUME NEW name \in MotionName, SelectMode(name) PROVE TypeOK'
  BY <1>9 DEF SelectMode, locoVars, policyVars
<1>10. CASE ReleaseMode
  BY <1>10, LowcmdTypes, Literals DEF ReleaseMode, Disarm, policyVars
<1>11. ASSUME NEW n \in 0..NMotors, LowCmd(n) PROVE TypeOK'
  <2>1. n \in Int
    BY MotorCounts
  <2>2. ctrl' \in Torques
    BY <1>11, <2>1, TorqueTypes DEF LowCmd
  <2> QED BY <1>11, <2>2, LowcmdTypes, Literals DEF LowCmd, locoVars, policyVars
<1>12. ASSUME NEW n \in Motor, LowCmdRejected(n) PROVE TypeOK'
  <2>1. n \in Int
    BY MotorCounts
  <2>2. ctrl' \in Torques
    BY <1>12, <2>1, TorqueTypes DEF LowCmdRejected
  <2> QED BY <1>12, <2>2 DEF LowCmdRejected, locoVars, policyVars
<1>13. ASSUME NEW loop \in BOOLEAN, NEW frame \in 0..(PolicyFrames - 1),
              StartYogaPolicy(loop, frame)
       PROVE  TypeOK'
  BY <1>13, PolicyTypes, TorqueTypes, Literals DEF StartYogaPolicy, locoVars
<1>14. CASE StopYogaPolicy
  <2>1. policy_state' \in PolicyState
    BY <1>14, PolicyTypes, StoppedPolicyType DEF StopYogaPolicy, StoppedPolicy
  <2> QED BY <1>14, <2>1, TorqueTypes, Literals DEF StopYogaPolicy, StoppedPolicy, locoVars
<1> QED
  BY <1>1, <1>2, <1>3, <1>4, <1>5, <1>6, <1>7, <1>8, <1>9, <1>10, <1>11, <1>12,
     <1>13, <1>14
     DEF ClientCommand, LifecycleCommand, PoseCommand, LocoCommand, MotionCommand,
         LowCommand, PolicyCommand

\* Type correctness: no handler, thread or endpoint, in any order, takes the
\* state outside the sets TypeOK names; in particular the policy's frame
\* index and the watchdog's and the move's deadlines stay in range.
THEOREM TypeCorrect == Spec => []TypeOK
<1>1. Init => TypeOK
  BY LowcmdTypes, TorqueTypes, PolicyTypes, GlideTypes, Literals DEF Init, TypeOK
<1>2. TypeOK /\ [Next]_vars => TypeOK'
  <2>1. TypeOK /\ UNCHANGED vars => TypeOK'
    BY DEF TypeOK, vars, locoVars, policyVars
  <2> QED BY <2>1, BackgroundType, CommandType DEF Next
<1> QED BY <1>1, <1>2, PTL DEF Spec

-----------------------------------------------------------------------------
(* Safety.  The two invariants are inductive together with the type        *)
(* invariant and with the fact that a stale flag is never out of date.     *)

\* A command that has been declared stale has expired.
StaleIsExpired == lowcmd_state.stale => Expired(lowcmd_state)

\* The inductive invariant, beside the types.
Safe == ModeHasItsState /\ StaleReleasesTorque /\ StaleIsExpired

\* What a refresh does to a safe state: the lease keeps its deadline, the
\* flag is up to date, and no torque of a stale command is left.
LEMMA RefreshIsSafe ==
    ASSUME NEW lc \in LowcmdState, NEW torques \in Torques,
           lc.stale => Expired(lc),
           lc.stale => \A m \in Motor : torques[m] # "lowcmd"
    PROVE  LET lc2 == RefreshedLowcmd(lc)
               new == RefreshedCtrl(lc, torques)
           IN  /\ lc2.left = lc.left
               /\ lc2.stale => Expired(lc2)
               /\ lc2.stale => \A m \in Motor : new[m] # "lowcmd"
  <1> USE DEF LowcmdState, NoDeadline
  <1>1. CASE lc.left = NoDeadline
    BY <1>1 DEF RefreshedLowcmd, NoLowcmd
  <1>2. CASE lc.left # NoDeadline
    <2>1. Expired(lc) \in BOOLEAN
      BY DEF Expired
    <2>2. RefreshedLowcmd(lc) = [lc EXCEPT !.active = ~Expired(lc), !.stale = Expired(lc)]
      BY <1>2 DEF RefreshedLowcmd
    <2>3. /\ RefreshedLowcmd(lc).left = lc.left
          /\ RefreshedLowcmd(lc).stale = Expired(lc)
      BY <2>1, <2>2
    <2>4. Expired(lc) => \A m \in Motor : RefreshedCtrl(lc, torques)[m] # "lowcmd"
      BY DEF RefreshedCtrl, Zero
    <2> QED BY <2>3, <2>4 DEF Expired
  <1> QED BY <1>1, <1>2

\* A lowcmd state that is not stale asks for nothing.
LEMMA NotStale == /\ ~NoLowcmd.stale /\ NoLowcmd.left = NoDeadline
                  /\ ~FreshLowcmd.stale /\ FreshLowcmd.left # NoDeadline
  BY ConstantsAssumption DEF NoLowcmd, FreshLowcmd, NoDeadline

\* A state whose watchdog has just been refreshed, and whose torques are
\* free of low-level commands or are what the refresh left.
LEMMA RefreshedSafe ==
    ASSUME TypeOK, Safe,
           lowcmd_state' = RefreshedLowcmd(lowcmd_state),
           \/ ctrl' = RefreshedCtrl(lowcmd_state, ctrl)
           \/ \A m \in Motor : ctrl'[m] # "lowcmd"
    PROVE  /\ lowcmd_state'.left = lowcmd_state.left
           /\ StaleReleasesTorque'
           /\ StaleIsExpired'
  <1>1. lowcmd_state \in LowcmdState /\ ctrl \in Torques
    BY DEF TypeOK
  <1> QED BY <1>1, RefreshIsSafe DEF Safe, StaleReleasesTorque, StaleIsExpired

\* A physics step is safe.
LEMMA SubstepSafe == TypeOK /\ Safe /\ Substep => Safe'
<1> SUFFICES ASSUME TypeOK, Safe, Substep PROVE Safe'
  OBVIOUS
<1> USE DEF Safe
<1>1. CASE IdleSubstep
  <2>1. lowcmd_state'.left = lowcmd_state.left /\ StaleReleasesTorque' /\ StaleIsExpired'
    BY <1>1, RefreshedSafe DEF IdleSubstep, RefreshWatchdog
  <2> QED BY <1>1, <2>1 DEF IdleSubstep, ModeHasItsState, locoVars, policyVars
<1>2. CASE HoldSubstep
  <2>1. lowcmd_state'.left = lowcmd_state.left /\ StaleReleasesTorque' /\ StaleIsExpired'
    BY <1>2, RefreshedSafe DEF HoldSubstep
  <2> QED BY <1>2, <2>1 DEF HoldSubstep, ModeHasItsState, locoVars, policyVars
<1>3. CASE LocoSubstep
  <2>1. lowcmd_state'.left = lowcmd_state.left /\ StaleReleasesTorque' /\ StaleIsExpired'
    BY <1>3, RefreshedSafe DEF LocoSubstep, RefreshWatchdog
  <2> QED BY <1>3, <2>1 DEF LocoSubstep, LocoVelocity, ModeHasItsState, locoVars,
          policyVars, None
<1>4. CASE PolicySubstep
  <2>1. CASE PolicyActs /\ RunIsOver(NextFrame(policy_state.frame))
    <3>1. StoppedPolicy(NextFrame(policy_state.frame), policy_state.counter)
      BY <2>1 DEF PolicyActs
    <3>2. StaleReleasesTorque' /\ StaleIsExpired'
      BY <1>4, <3>1, RefreshedSafe DEF PolicySubstep, StoppedPolicy, Zero
    <3>3. policy_state'.active = FALSE
      BY <3>1 DEF StoppedPolicy, TypeOK, PolicyState
    <3> QED BY <3>1, <3>2, <3>3 DEF StoppedPolicy, ModeHasItsState, None
  <2>2. CASE PolicyActs /\ ~RunIsOver(NextFrame(policy_state.frame))
    <3>1. lowcmd_state'.left = lowcmd_state.left /\ StaleReleasesTorque' /\ StaleIsExpired'
      BY <1>4, <2>2, RefreshedSafe DEF PolicySubstep, PolicyActs
    <3>2. policy_state'.active = policy_state.active
      BY <2>2 DEF PolicyActs, TypeOK, PolicyState
    <3> QED BY <1>4, <2>2, <3>1, <3>2 DEF PolicySubstep, PolicyActs, ModeHasItsState, locoVars
  <2>3. CASE PolicyHoldsExtra
    <3> DEFINE torques == RefreshedCtrl(lowcmd_state, ctrl)
    <3>1. /\ ctrl \in Torques /\ torques \in Torques
          /\ lowcmd_state \in LowcmdState
      BY RefreshedCtrlType DEF TypeOK
    <3>2. lowcmd_state' = RefreshedLowcmd(lowcmd_state)
      BY <1>4 DEF PolicySubstep
    <3>3. /\ lowcmd_state'.left = lowcmd_state.left
          /\ StaleIsExpired'
          /\ lowcmd_state'.stale => \A m \in Motor : torques[m] # "lowcmd"
      BY <3>1, <3>2, RefreshIsSafe DEF StaleReleasesTorque, StaleIsExpired
    <3>4. \A m \in Motor : ctrl'[m] = "policy" \/ ctrl'[m] = torques[m]
      BY <2>3 DEF PolicyHoldsExtra
    <3>5. StaleReleasesTorque'
      BY <3>3, <3>4 DEF StaleReleasesTorque
    <3>6. policy_state'.active = policy_state.active
      BY <2>3 DEF PolicyHoldsExtra, TypeOK, PolicyState
    <3> QED BY <1>4, <2>3, <3>3, <3>5, <3>6
            DEF PolicySubstep, PolicyHoldsExtra, ModeHasItsState, locoVars
  <2> QED BY <1>4, <2>1, <2>2, <2>3 DEF PolicySubstep
<1> QED BY <1>1, <1>2, <1>3, <1>4 DEF Substep

\* A step that no client asked for is safe.
LEMMA BackgroundSafe == TypeOK /\ Safe /\ Background => Safe'
<1> SUFFICES ASSUME TypeOK, Safe, Background PROVE Safe'
  OBVIOUS
<1> USE DEF Safe
<1>1. CASE Tick
  <2>1. lowcmd_state \in LowcmdState
    BY DEF TypeOK
  <2>2. /\ lowcmd_state'.stale = lowcmd_state.stale
        /\ lowcmd_state.left = NoDeadline <=> lowcmd_state'.left = NoDeadline
        /\ lowcmd_state.left = 0 => lowcmd_state'.left = 0
    BY <1>1, <2>1, ConstantsAssumption DEF Tick, Elapse, LowcmdState, NoDeadline
  <2> QED BY <1>1, <2>2 DEF Tick, ModeHasItsState, StaleReleasesTorque, StaleIsExpired,
          Expired, policyVars
<1>2. CASE PhysicsPaused
  <2>1. lowcmd_state'.left = lowcmd_state.left /\ StaleReleasesTorque' /\ StaleIsExpired'
    BY <1>2, RefreshedSafe DEF PhysicsPaused, RefreshWatchdog
  <2> QED BY <1>2, <2>1 DEF PhysicsPaused, ModeHasItsState, locoVars, policyVars
<1>3. CASE PhysicsRunning
  BY <1>3, SubstepSafe DEF PhysicsRunning
<1>4. ASSUME NEW c \in Client, AnimateFrame(c) PROVE Safe'
  BY <1>4 DEF AnimateFrame, Settle, Zero, ModeHasItsState, StaleReleasesTorque,
     StaleIsExpired, Expired, locoVars, policyVars
<1>5. CASE ReadStatus
  <2>1. lowcmd_state'.left = lowcmd_state.left /\ StaleReleasesTorque' /\ StaleIsExpired'
    BY <1>5, RefreshedSafe DEF ReadStatus, RefreshWatchdog
  <2> QED BY <1>5, <2>1 DEF ReadStatus, ModeHasItsState, locoVars, policyVars
<1>6. CASE ReadLowState
  <2>1. lowcmd_state'.left = lowcmd_state.left /\ StaleReleasesTorque' /\ StaleIsExpired'
    BY <1>6, RefreshedSafe DEF ReadLowState, RefreshWatchdog
  <2> QED BY <1>6, <2>1 DEF ReadLowState, LocoVelocity, ModeHasItsState, locoVars,
          policyVars, None
<1> QED BY <1>1, <1>2, <1>3, <1>4, <1>5, <1>6 DEF Background, Physics

\* A client's command is safe.
LEMMA CommandSafe == TypeOK /\ Safe /\ ClientCommand => Safe'
<1> SUFFICES ASSUME TypeOK, Safe, ClientCommand PROVE Safe'
  OBVIOUS
<1> USE NotStale DEF Safe, ModeHasItsState, StaleReleasesTorque, StaleIsExpired, Expired
<1>1. ASSUME NEW value \in BOOLEAN, SetPaused(value) PROVE Safe'
  BY <1>1 DEF SetPaused, locoVars, policyVars
<1>2. CASE Reset
  <2>1. policy_state'.active = FALSE
    BY <1>2 DEF Reset, TypeOK, PolicyState
  <2> QED BY <1>2, <2>1 DEF Reset, None
<1>3. CASE StepOnce
  BY <1>3, SubstepSafe DEF StepOnce
<1>4. ASSUME NEW pose \in Pose, ApplyNamedPose(pose) PROVE Safe'
  BY <1>4 DEF ApplyNamedPose, Settle, Zero, locoVars, policyVars
<1>5. ASSUME NEW pose \in Pose, SetHoldPose(pose) PROVE Safe'
  BY <1>5 DEF SetHoldPose, Zero, locoVars, policyVars
<1>6. ASSUME NEW c \in Client, NEW pose \in Pose, NEW n \in 1..MaxFrames,
             AnimateStart(c, pose, n)
      PROVE  Safe'
  BY <1>6 DEF AnimateStart, Zero, locoVars, policyVars
<1>7. ASSUME NEW id \in FsmId, SetFsmId(id) PROVE Safe'
  <2>1. CASE id \in {0, 1}
    BY <1>7, <2>1 DEF SetFsmId, Disarm, policyVars, None
  <2>2. CASE id \notin {0, 1}
    BY <1>7, <2>2 DEF SetFsmId, policyVars
  <2> QED BY <2>1, <2>2
<1>8. ASSUME NEW speed \in {"zero", "moving"},
             NEW left \in {NoDeadline} \cup 0..MaxMove, SetVelocity(speed, left)
      PROVE  Safe'
  BY <1>8 DEF SetVelocity, policyVars, None
<1>9. ASSUME NEW name \in MotionName, SelectMode(name) PROVE Safe'
  BY <1>9 DEF SelectMode, locoVars, policyVars
<1>10. CASE ReleaseMode
  BY <1>10 DEF ReleaseMode, Disarm, policyVars, None
<1>11. ASSUME NEW n \in 0..NMotors, LowCmd(n) PROVE Safe'
  BY <1>11 DEF LowCmd, policyVars
<1>12. ASSUME NEW n \in Motor, LowCmdRejected(n) PROVE Safe'
  <2>1. \A m \in Motor : ctrl'[m] = "rejected" \/ ctrl'[m] = ctrl[m]
    BY <1>12 DEF LowCmdRejected
  <2> QED BY <1>12, <2>1 DEF LowCmdRejected, locoVars, policyVars
<1>13. ASSUME NEW loop \in BOOLEAN, NEW frame \in 0..(PolicyFrames - 1),
              StartYogaPolicy(loop, frame)
       PROVE  Safe'
  <2>1. policy_state'.active = TRUE
    BY <1>13 DEF StartYogaPolicy
  <2>2. saved_solver' # None
    BY <1>13 DEF StartYogaPolicy, TypeOK, None
  <2> QED BY <1>13, <2>1, <2>2 DEF StartYogaPolicy, Zero, locoVars
<1>14. CASE StopYogaPolicy
  <2>1. policy_state'.active = FALSE
    BY <1>14 DEF StopYogaPolicy, StoppedPolicy, TypeOK, PolicyState
  <2> QED BY <1>14, <2>1 DEF StopYogaPolicy, StoppedPolicy, Zero, None
<1> QED
  BY <1>1, <1>2, <1>3, <1>4, <1>5, <1>6, <1>7, <1>8, <1>9, <1>10, <1>11, <1>12,
     <1>13, <1>14
     DEF ClientCommand, LifecycleCommand, PoseCommand, LocoCommand, MotionCommand,
         LowCommand, PolicyCommand

\* The invariant is inductive.
LEMMA SafeStep == TypeOK /\ Safe /\ [Next]_vars => Safe'
<1>1. Safe /\ UNCHANGED vars => Safe'
  BY DEF Safe, ModeHasItsState, StaleReleasesTorque, StaleIsExpired, Expired,
     vars, locoVars, policyVars
<1> QED BY <1>1, BackgroundSafe, CommandSafe DEF Next

\* The invariant holds in every reachable state.
THEOREM SafeAlways == Spec => []Safe
<1>1. Init => Safe
  <2>1. ~IdlePolicy.active
    BY DEF IdlePolicy
  <2> QED BY <2>1, NotStale DEF Init, Safe, ModeHasItsState, StaleReleasesTorque,
          StaleIsExpired, None
<1> QED BY <1>1, SafeStep, TypeCorrect, PTL DEF Spec

\* The controller in charge always has the state it runs on, however the
\* handlers, the physics thread and the animations interleave.
THEOREM ModeCoherent == Spec => []ModeHasItsState
<1>1. Safe => ModeHasItsState
  BY DEF Safe
<1> QED BY <1>1, SafeAlways, PTL

\* No actuator carries the torque of a low-level command that the watchdog
\* has declared stale.
THEOREM StaleCommandsReleased == Spec => []StaleReleasesTorque
<1>1. Safe => StaleReleasesTorque
  BY DEF Safe
<1> QED BY <1>1, SafeAlways, PTL

-----------------------------------------------------------------------------
(* What background steps may not do *)

QuietStep ==
    /\ paused => paused'
    /\ control_mode' \in {control_mode, None}
    /\ \A m \in Motor : ctrl'[m] \in {"lowcmd", "rejected"} => ctrl'[m] = ctrl[m]

\* A refresh never adds a torque.
LEMMA RefreshAddsNothing ==
    \A m \in Motor : \/ RefreshedCtrl(lowcmd_state, ctrl)[m] = ctrl[m]
                     \/ RefreshedCtrl(lowcmd_state, ctrl)[m] = "zero"
  BY DEF RefreshedCtrl, Zero

\* A physics step starts nothing.
LEMMA SubstepIsQuiet == Substep => QuietStep
<1> SUFFICES ASSUME Substep PROVE QuietStep
  OBVIOUS
<1> USE RefreshAddsNothing DEF QuietStep
<1>1. CASE IdleSubstep
  BY <1>1 DEF IdleSubstep, RefreshWatchdog
<1>2. CASE HoldSubstep
  BY <1>2 DEF HoldSubstep
<1>3. CASE LocoSubstep
  BY <1>3 DEF LocoSubstep, RefreshWatchdog, LocoVelocity
<1>4. CASE PolicySubstep
  <2>1. CASE PolicyActs
    BY <2>1 DEF PolicyActs, StoppedPolicy, Zero
  <2>2. CASE PolicyHoldsExtra
    BY <2>2 DEF PolicyHoldsExtra
  <2> QED BY <1>4, <2>1, <2>2 DEF PolicySubstep
<1> QED BY <1>1, <1>2, <1>3, <1>4 DEF Substep

\* Neither does anything else that no client asked for.
LEMMA BackgroundQuiet == Background => QuietStep
<1> SUFFICES ASSUME Background PROVE QuietStep
  OBVIOUS
<1> USE RefreshAddsNothing
<1>1. CASE Tick
  BY <1>1 DEF Tick, QuietStep
<1>2. CASE PhysicsPaused
  BY <1>2 DEF PhysicsPaused, RefreshWatchdog, QuietStep
<1>3. CASE PhysicsRunning
  BY <1>3, SubstepIsQuiet DEF PhysicsRunning
<1>4. ASSUME NEW c \in Client, AnimateFrame(c) PROVE QuietStep
  BY <1>4 DEF AnimateFrame, Settle, Zero, QuietStep
<1>5. CASE ReadStatus
  BY <1>5 DEF ReadStatus, RefreshWatchdog, QuietStep
<1>6. CASE ReadLowState
  BY <1>6 DEF ReadLowState, RefreshWatchdog, LocoVelocity, QuietStep
<1> QED BY <1>1, <1>2, <1>3, <1>4, <1>5, <1>6 DEF Background, Physics

\* Nothing starts unless a client asks for it: physics, clocks, animations in
\* progress and the read-only endpoints never unpause the simulator, put a
\* controller in charge or add a low-level torque.
THEOREM NothingStartsByItself == Spec => NoSelfActivation
<1>1. [Next]_vars => [Background => QuietStep]_vars
  BY BackgroundQuiet
<1>2. [][Next]_vars => [][Background => QuietStep]_vars
  BY <1>1, PTL
<1> QED BY <1>2 DEF Spec, NoSelfActivation, QuietStep

-----------------------------------------------------------------------------
(* Refinement of the abstract lease *)

LeaseStep == [Lease!Next]_(Lease!leaseVars)

InCharge == control_mode = "lowcmd"

\* A step that leaves the lease alone and adds no low-level torque.
LEMMA KeepsLease ==
    ASSUME lowcmd_state'.left = lowcmd_state.left,
           lowcmd_state'.stale = lowcmd_state.stale,
           InCharge' => InCharge, Commanded' \subseteq Commanded
    PROVE  LeaseStep
  <1>1. (control_mode' = "lowcmd") \in {(control_mode = "lowcmd"), FALSE}
    BY DEF InCharge
  <1> QED BY <1>1 DEF LeaseStep, Lease!Next, Lease!TakeOver

\* A step that closes the lease and keeps its torques or takes all.
LEMMA ClosesLease ==
    ASSUME lowcmd_state' = NoLowcmd, control_mode' = None,
           ctrl' = ctrl \/ ctrl' = Zero
    PROVE  LeaseStep
  <1>1. lowcmd_state'.left = NoDeadline /\ lowcmd_state'.stale = FALSE
    BY DEF NoLowcmd
  <1>2. (control_mode' = "lowcmd") = FALSE
    BY DEF None
  <1>3. Commanded' \in {Commanded, {}}
    BY DEF Commanded, Zero
  <1> QED BY <1>1, <1>2, <1>3 DEF LeaseStep, Lease!Next, Lease!Close

\* A refresh of the watchdog, perhaps followed by a controller that writes
\* torques of its own, lets the lease expire or leaves it alone.
LEMMA RefreshesLease ==
    ASSUME TypeOK, Safe, InCharge' = InCharge,
           lowcmd_state' = RefreshedLowcmd(lowcmd_state),
           \A m \in Motor : ctrl'[m] \in {"lowcmd", "rejected"} =>
                              ctrl'[m] = RefreshedCtrl(lowcmd_state, ctrl)[m]
    PROVE  LeaseStep
  <1>0. lowcmd_state \in LowcmdState
    BY DEF TypeOK
  <1>1. CASE lowcmd_state.left = NoDeadline
    <2>1. /\ lowcmd_state'.left = lowcmd_state.left
          /\ lowcmd_state'.stale = FALSE
      BY <1>1 DEF RefreshedLowcmd, NoLowcmd
    <2>2. ~Expired(lowcmd_state)
      BY <1>1 DEF Expired, NoDeadline
    <2>3. lowcmd_state.stale = FALSE
      BY <1>0, <2>2 DEF Safe, StaleIsExpired, LowcmdState
    <2>4. Commanded' \subseteq Commanded
      BY <2>2 DEF Commanded, RefreshedCtrl
    <2> QED BY <2>1, <2>3, <2>4, KeepsLease
  <1>2. CASE lowcmd_state.left # NoDeadline
    <2>1. /\ lowcmd_state'.left = lowcmd_state.left
          /\ lowcmd_state'.stale = Expired(lowcmd_state)
      BY <1>0, <1>2 DEF RefreshedLowcmd, LowcmdState
    <2>2. lowcmd_state.stale \in BOOLEAN /\ Expired(lowcmd_state) \in BOOLEAN
      BY <1>0 DEF LowcmdState, Expired
    <2>3. CASE lowcmd_state.stale
      <3>1. Expired(lowcmd_state)
        BY <2>3 DEF Safe, StaleIsExpired
      <3>2. Commanded' \subseteq Commanded
        BY <2>3 DEF Commanded, RefreshedCtrl
      <3>3. lowcmd_state'.stale = lowcmd_state.stale
        BY <2>1, <2>2, <2>3, <3>1
      <3> QED BY <2>1, <3>2, <3>3, KeepsLease
    <2>4. CASE ~lowcmd_state.stale /\ Expired(lowcmd_state)
      <3>1. Watchdog > 0 /\ lowcmd_state.left = 0
        BY <2>4 DEF Expired
      <3>2. Commanded' = {}
        BY <2>4 DEF Commanded, RefreshedCtrl, Zero
      <3>3. (control_mode' = "lowcmd") = (control_mode = "lowcmd")
        BY DEF InCharge
      <3>4. lowcmd_state'.stale = TRUE
        BY <2>1, <2>2, <2>4
      <3> QED BY <2>1, <2>4, <3>1, <3>2, <3>3, <3>4 DEF LeaseStep, Lease!Next, Lease!Expire
    <2>5. CASE ~lowcmd_state.stale /\ ~Expired(lowcmd_state)
      <3>1. Commanded' \subseteq Commanded
        BY <2>5 DEF Commanded, RefreshedCtrl
      <3>2. lowcmd_state'.stale = lowcmd_state.stale
        BY <2>1, <2>2, <2>5
      <3> QED BY <2>1, <3>1, <3>2, KeepsLease
    <2> QED BY <2>3, <2>4, <2>5
  <1> QED BY <1>1, <1>2

\* Every physics step is a step of the lease.
LEMMA SubstepImplements == TypeOK /\ Safe /\ Substep => LeaseStep
<1> SUFFICES ASSUME TypeOK, Safe, Substep PROVE LeaseStep
  OBVIOUS
<1> USE DEF InCharge, None
<1>1. CASE IdleSubstep
  BY <1>1, RefreshesLease DEF IdleSubstep, RefreshWatchdog
<1>2. CASE HoldSubstep
  BY <1>2, RefreshesLease DEF HoldSubstep
<1>3. CASE LocoSubstep
  <2>1. InCharge' = InCharge
    BY <1>3 DEF LocoSubstep, LocoVelocity
  <2> QED BY <1>3, <2>1, RefreshesLease DEF LocoSubstep, RefreshWatchdog
<1>4. CASE PolicySubstep
  <2>1. CASE PolicyActs
    <3>1. /\ InCharge' = InCharge
          /\ \A m \in Motor : ctrl'[m] \notin {"lowcmd", "rejected"}
      BY <1>4, <2>1 DEF PolicySubstep, PolicyActs, StoppedPolicy, Zero
    <3> QED BY <1>4, <3>1, RefreshesLease DEF PolicySubstep
  <2>2. CASE PolicyHoldsExtra
    BY <1>4, <2>2, RefreshesLease DEF PolicySubstep, PolicyHoldsExtra
  <2> QED BY <1>4, <2>1, <2>2 DEF PolicySubstep
<1> QED BY <1>1, <1>2, <1>3, <1>4 DEF Substep

\* Every step of the service is a step of the lease.
LEMMA NextImplements == TypeOK /\ Safe /\ [Next]_vars => LeaseStep
<1> SUFFICES ASSUME TypeOK, Safe, [Next]_vars PROVE LeaseStep
  OBVIOUS
<1> USE DEF Commanded, InCharge, Zero, None
<1>1. CASE Tick
  <2>0. lowcmd_state \in LowcmdState
    BY DEF TypeOK
  <2>1. /\ lowcmd_state'.stale = lowcmd_state.stale
        /\ lowcmd_state'.left = Elapse(lowcmd_state.left)
        /\ UNCHANGED <<control_mode, ctrl>>
    BY <1>1, <2>0 DEF Tick, LowcmdState
  <2>2. CASE lowcmd_state.left > 0
    <3>1. lowcmd_state'.left = lowcmd_state.left - 1
      BY <2>1, <2>2 DEF Elapse
    <3>2. (control_mode' = "lowcmd") = (control_mode = "lowcmd")
      BY <2>1
    <3> QED BY <2>1, <2>2, <3>1, <3>2 DEF LeaseStep, Lease!Next, Lease!Tick
  <2>3. CASE ~(lowcmd_state.left > 0)
    BY <2>1, <2>3, KeepsLease DEF Elapse
  <2> QED BY <2>2, <2>3
<1>2. CASE PhysicsPaused
  BY <1>2, RefreshesLease DEF PhysicsPaused, RefreshWatchdog
<1>3. CASE Substep
  BY <1>3, SubstepImplements
<1>4. ASSUME NEW c \in Client, AnimateFrame(c) PROVE LeaseStep
  BY <1>4, KeepsLease DEF AnimateFrame, Settle
<1>5. CASE ReadStatus
  BY <1>5, RefreshesLease DEF ReadStatus, RefreshWatchdog
<1>6. CASE ReadLowState
  <2>1. InCharge' = InCharge
    BY <1>6 DEF ReadLowState, LocoVelocity
  <2> QED BY <1>6, <2>1, RefreshesLease DEF ReadLowState, RefreshWatchdog
<1>7. ASSUME NEW value \in BOOLEAN, SetPaused(value) PROVE LeaseStep
  BY <1>7, KeepsLease DEF SetPaused
<1>8. CASE Reset
  BY <1>8, ClosesLease DEF Reset
<1>9. ASSUME NEW pose \in Pose, ApplyNamedPose(pose) \/ SetHoldPose(pose) PROVE LeaseStep
  BY <1>9, KeepsLease DEF ApplyNamedPose, SetHoldPose, Settle
<1>10. ASSUME NEW c \in Client, NEW pose \in Pose, NEW n \in 1..MaxFrames,
              AnimateStart(c, pose, n)
       PROVE  LeaseStep
  BY <1>10, KeepsLease DEF AnimateStart
<1>11. ASSUME NEW id \in FsmId, SetFsmId(id) PROVE LeaseStep
  <2>1. CASE id \in {0, 1}
    BY <1>11, <2>1, ClosesLease DEF SetFsmId, Disarm
  <2>2. CASE id \notin {0, 1}
    BY <1>11, <2>2, KeepsLease DEF SetFsmId
  <2> QED BY <2>1, <2>2
<1>12. ASSUME NEW speed \in {"zero", "moving"},
              NEW left \in {NoDeadline} \cup 0..MaxMove, SetVelocity(speed, left)
       PROVE  LeaseStep
  BY <1>12, KeepsLease DEF SetVelocity
<1>13. ASSUME NEW name \in MotionName, SelectMode(name) PROVE LeaseStep
  BY <1>13, KeepsLease DEF SelectMode
<1>14. CASE ReleaseMode
  BY <1>14, ClosesLease DEF ReleaseMode, Disarm
<1>15. ASSUME NEW n \in 0..NMotors, LowCmd(n) PROVE LeaseStep
  <2>1. lowcmd_state'.left = Watchdog /\ lowcmd_state'.stale = FALSE
    BY <1>15 DEF LowCmd, FreshLowcmd
  <2>2. (control_mode' = "lowcmd") = TRUE
    BY <1>15 DEF LowCmd
  <2>3. PICK motors \in SUBSET Motor : motors = {m \in Motor : m <= n}
    OBVIOUS
  <2>4. Commanded' = Commanded \cup motors
    BY <1>15, <2>3 DEF LowCmd
  <2> QED BY <2>1, <2>2, <2>4 DEF LeaseStep, Lease!Next, Lease!Accept
<1>16. ASSUME NEW n \in Motor, LowCmdRejected(n) PROVE LeaseStep
  <2>1. UNCHANGED <<lowcmd_state, control_mode>>
    BY <1>16 DEF LowCmdRejected
  <2>2. (control_mode' = "lowcmd") = (control_mode = "lowcmd")
    BY <2>1
  <2>3. PICK motors \in SUBSET Motor : motors = {m \in Motor : m <= n}
    OBVIOUS
  <2>4. Commanded' = Commanded \cup motors
    BY <1>16, <2>3 DEF LowCmdRejected
  <2> QED BY <2>1, <2>2, <2>4 DEF LeaseStep, Lease!Next, Lease!Reject
<1>17. ASSUME NEW loop \in BOOLEAN, NEW frame \in 0..(PolicyFrames - 1),
              StartYogaPolicy(loop, frame)
       PROVE  LeaseStep
  BY <1>17, KeepsLease DEF StartYogaPolicy
<1>18. CASE StopYogaPolicy
  BY <1>18, KeepsLease DEF StopYogaPolicy, StoppedPolicy
<1>19. CASE UNCHANGED vars
  BY <1>19, KeepsLease DEF vars
<1> QED
  BY <1>1, <1>2, <1>3, <1>4, <1>5, <1>6, <1>7, <1>8, <1>9, <1>10, <1>11, <1>12,
     <1>13, <1>14, <1>15, <1>16, <1>17, <1>18, <1>19
     DEF Next, Background, Physics, PhysicsRunning, ClientCommand, LifecycleCommand,
         StepOnce, PoseCommand, LocoCommand, MotionCommand, LowCommand, PolicyCommand

\* For any motors, watchdog time and clients: the service with all its handlers
\* and threads implements the command lease.  Only an accepted command opens or
\* renews it and puts low-level commands in charge, it keeps its time, and at its
\* end the torques of accepted and of rejected commands go together.
THEOREM LeaseImplemented == Spec => ImplementsLease
<1>1. Init => Lease!Init
  <2> SUFFICES ASSUME Init PROVE Lease!Init
    OBVIOUS
  <2>1. lowcmd_state.left = NoDeadline /\ lowcmd_state.stale = FALSE
    BY DEF Init, NoLowcmd
  <2>2. (control_mode = "lowcmd") = FALSE /\ Commanded = {}
    BY DEF Init, None, Commanded, Zero
  <2> QED BY <2>1, <2>2 DEF Lease!Init
<1>2. TypeOK /\ Safe /\ [Next]_vars => [Lease!Next]_(Lease!leaseVars)
  BY NextImplements DEF LeaseStep
<1> QED BY <1>1, <1>2, TypeCorrect, SafeAlways, PTL DEF Spec, ImplementsLease, Lease!Spec

-----------------------------------------------------------------------------
(* The stop procedure.  Once the first request of an undisturbed stop has  *)
(* been executed nothing but a client's command can put a controller in    *)
(* charge again, and once its third has no torque is left to be kept.      *)

\* What release_mode leaves, whatever ran before.
Disarmed ==
    /\ paused
    /\ control_mode = None
    /\ velocity = "zero"
    /\ lowcmd_state.left = NoDeadline
    /\ motion_mode = ""

\* How far an undisturbed stop that has not failed has got: released after its
\* first request, free of torques after its third.
Progress ==
    verdict = "ok" /\ step \in 2..5 =>
        /\ Disarmed
        /\ step \in 4..5 => ctrl = Zero

StopVarsOK ==
    /\ step \in 0..5
    /\ verdict \in {"ok", "failed", "disturbed"}
    /\ late \in SUBSET StopSteps

StopInv == TypeOK /\ StopVarsOK /\ Progress

-----------------------------------------------------------------------------
\* The requests of a stop are commands of G1Control.
LEMMA ExecuteIsCommand ==
    ASSUME NEW s, Execute(s) PROVE ClientCommand
  BY StopAssumption
  DEF Execute, ClientCommand, MotionCommand, LocoCommand, PoseCommand, LifecycleCommand

\* So every step beside the stop's own bookkeeping is a step of the simulator.
LEMMA StopStepIsStep == [StopNext]_allVars => [Next]_vars
  BY ExecuteIsCommand
  DEF StopNext, BeginStop, StepExecuted, StepFails, StepTimesOut, LateStep, OtherClient,
      Simulator, Next, allVars

\* Each of the four requests pauses the simulator.
LEMMA ExecutePauses == ASSUME NEW s, Execute(s) PROVE paused'
  BY DEF Execute, ReleaseMode, SetFsmId, Disarm, ApplyNamedPose, Settle, SetPaused

\* The first request disarms the simulator.
LEMMA ReleaseDisarms == Execute(1) => Disarmed'
  <1>1. Execute(1) => ReleaseMode
    BY DEF Execute
  <1>. QED
    BY <1>1, NotStale DEF ReleaseMode, Disarm, Disarmed

\* The third one clears the torques.
LEMMA NeutralClears == Execute(3) => ctrl' = Zero
  BY DEF Execute, ApplyNamedPose, Settle

\* A late or repeated request takes nothing of this back.
LEMMA ExecuteKeeps ==
    ASSUME NEW s, Execute(s), Disarmed
    PROVE  Disarmed' /\ (ctrl = Zero => ctrl' = Zero)
  <1>. USE NotStale DEF Disarmed
  <1>1. CASE ReleaseMode
    BY <1>1 DEF ReleaseMode, Disarm
  <1>2. CASE SetFsmId(1)
    BY <1>2 DEF SetFsmId, Disarm
  <1>3. CASE ApplyNamedPose("neutral")
    BY <1>3 DEF ApplyNamedPose, Settle, locoVars
  <1>4. CASE SetPaused(TRUE)
    BY <1>4 DEF SetPaused, locoVars
  <1>. QED
    BY <1>1, <1>2, <1>3, <1>4 DEF Execute

\* Time starts no watchdog.
LEMMA NoDeadlineStays ==
    ASSUME NEW lc \in LowcmdState, lc.left = NoDeadline
    PROVE  [lc EXCEPT !.left = Elapse(@)].left = NoDeadline
  BY ConstantsAssumption DEF Elapse, LowcmdState, NoDeadline

\* Nor does what the simulator does by itself take anything back: the physics
\* thread, the clock, an animation still in progress, a read of its state.
LEMMA BackgroundKeeps ==
    ASSUME TypeOK, Background, Disarmed
    PROVE  Disarmed' /\ (ctrl = Zero => ctrl' = Zero)
  <1>. USE DEF Disarmed, locoVars
  <1>1. ASSUME RefreshWatchdog
        PROVE  lowcmd_state'.left = NoDeadline /\ ctrl' = ctrl
    <2>1. lowcmd_state.left = NoDeadline
      OBVIOUS
    <2>2. ~Expired(lowcmd_state)
      BY ONLY <2>1 DEF Expired, NoDeadline
    <2>. QED
      BY <1>1, <2>1, <2>2, NotStale DEF RefreshWatchdog, RefreshedLowcmd, RefreshedCtrl
  <1>2. CASE Tick
    <2>1. lowcmd_state \in LowcmdState
      BY DEF TypeOK
    <2>. QED
      BY <1>2, <2>1, NoDeadlineStays DEF Tick
  <1>3. CASE PhysicsPaused
    BY <1>1, <1>3 DEF PhysicsPaused
  <1>4. CASE PhysicsRunning
    BY <1>4 DEF PhysicsRunning
  <1>5. ASSUME NEW c \in Client, AnimateFrame(c)
        PROVE  Disarmed' /\ ctrl' = Zero
    BY <1>5 DEF AnimateFrame, Settle
  <1>6. CASE ReadStatus
    BY <1>1, <1>6 DEF ReadStatus
  <1>7. CASE ReadLowState
    BY <1>1, <1>7 DEF ReadLowState, None
  <1>. QED
    BY <1>2, <1>3, <1>4, <1>5, <1>6, <1>7 DEF Background, Physics

-----------------------------------------------------------------------------
LEMMA StopInitInv == StopInit => StopInv
  <1>1. Init => TypeOK
    BY LowcmdTypes, TorqueTypes, PolicyTypes, GlideTypes, Literals DEF Init, TypeOK
  <1>. QED
    BY <1>1 DEF StopInit, StopInv, StopVarsOK, Progress, Idle

LEMMA TypeStep == ASSUME TypeOK, [StopNext]_allVars PROVE TypeOK'
  <1>1. [Next]_vars
    BY StopStepIsStep
  <1>2. UNCHANGED vars => TypeOK'
    BY DEF TypeOK, vars, locoVars, policyVars
  <1>. QED
    BY <1>1, <1>2, BackgroundType, CommandType DEF Next

LEMMA StopInvStep == ASSUME StopInv, [StopNext]_allVars PROVE StopInv'
  <1>. USE DEF StopInv, StopVarsOK, Progress, StopSteps, Idle, Done
  <1>0. TypeOK'
    BY TypeStep
  <1>1. CASE BeginStop
    BY <1>0, <1>1 DEF BeginStop
  <1>2. CASE StepExecuted
    <2>1. StopVarsOK'
      BY <1>2 DEF StepExecuted, AfterFailure
    <2>2. ASSUME verdict' = "ok"
          PROVE  Disarmed' /\ (step' \in 4..5 => ctrl' = Zero)
      <3>1. verdict = "ok" /\ step' = step + 1 /\ step \in 1..4 /\ Execute(step)
        BY <1>2, <2>2 DEF StepExecuted, AfterFailure
      <3>2. CASE step = 1
        BY <3>1, <3>2, ReleaseDisarms
      <3>3. CASE step = 2
        BY <3>1, <3>3, ExecuteKeeps
      <3>4. CASE step = 3
        BY <3>1, <3>4, ExecuteKeeps, NeutralClears
      <3>5. CASE step = 4
        BY <3>1, <3>5, ExecuteKeeps
      <3>. QED
        BY <3>1, <3>2, <3>3, <3>4, <3>5
    <2>. QED
      BY <1>0, <2>1, <2>2
  <1>3. CASE StepFails \/ StepTimesOut
    <2>1. step' \in 0..5 /\ verdict' \in {"failed", "disturbed"}
      BY <1>3 DEF StepFails, StepTimesOut, AfterFailure
    <2>2. late' \in SUBSET StopSteps
      BY <1>3 DEF StepFails, StepTimesOut
    <2>. QED
      BY <1>0, <2>1, <2>2
  <1>4. ASSUME NEW s \in StopSteps, LateStep(s) PROVE StopInv'
    BY <1>0, <1>4, ExecuteKeeps DEF LateStep
  <1>5. CASE OtherClient
    BY <1>0, <1>5 DEF OtherClient
  <1>6. CASE Simulator
    BY <1>0, <1>6, BackgroundKeeps DEF Simulator, stopVars
  <1>7. CASE UNCHANGED allVars
    BY <1>0, <1>7 DEF allVars, vars, stopVars, locoVars, Disarmed
  <1>. QED
    BY <1>1, <1>2, <1>3, <1>4, <1>5, <1>6, <1>7 DEF StopNext

LEMMA StopInvariance == StopSpec => []StopInv
  <1>1. StopInv /\ [StopNext]_allVars => StopInv'
    BY StopInvStep
  <1>. QED
    BY StopInitInv, <1>1, PTL DEF StopSpec

-----------------------------------------------------------------------------
\* A stop that reports ok, undisturbed by other clients since it began, leaves
\* the robot passive for good, whatever was running before it and whichever
\* requests of an earlier stop arrive late (SimulatorClient.safety_stop).
THEOREM StoppedIsPassive == StopSpec => []StopLeavesRobotPassive
  <1>1. StopInv => StopLeavesRobotPassive
    <2>. SUFFICES ASSUME StopInv, step = Done, verdict = "ok" PROVE Passive
      BY DEF StopLeavesRobotPassive
    <2>1. step \in 2..5 /\ step \in 4..5
      BY DEF Done
    <2>. QED
      BY <2>1 DEF StopInv, Progress, Passive, Disarmed
  <1>. QED
    BY StopInvariance, <1>1, PTL

\* A stop of which any request got through has halted the physics, and nothing
\* but another client's command starts it again.
THEOREM StopHalts == StopSpec => []AnyStepHalts
  <1>1. StopInit => AnyStepHalts
    BY DEF StopInit, AnyStepHalts
  <1>2. ASSUME AnyStepHalts, [StopNext]_allVars PROVE AnyStepHalts'
    <2>. USE DEF AnyStepHalts
    <2>1. Background /\ paused => paused'
      BY BackgroundQuiet DEF QuietStep
    <2>2. CASE BeginStop \/ StepFails \/ StepTimesOut
      BY <1>2, <2>2 DEF BeginStop, StepFails, StepTimesOut, vars
    <2>3. CASE StepExecuted \/ \E s \in StopSteps : LateStep(s)
      BY <2>3, ExecutePauses DEF StepExecuted, LateStep
    <2>4. CASE OtherClient
      BY <2>4 DEF OtherClient
    <2>5. CASE Simulator
      BY <1>2, <2>1, <2>5 DEF Simulator, stopVars
    <2>6. CASE UNCHANGED allVars
      BY <1>2, <2>6 DEF allVars, vars, stopVars
    <2>. QED
      BY <1>2, <2>2, <2>3, <2>4, <2>5, <2>6 DEF StopNext
  <1>. QED
    BY <1>1, <1>2, PTL DEF StopSpec

\* A simulator that is being stopped, with its requests late, lost or repeated,
\* is still the simulator of G1Control, so what holds of that one holds of it.
THEOREM StopImplementsControl == StopSpec => Spec
  <1>1. StopInit => Init
    BY DEF StopInit
  <1>. QED
    BY <1>1, StopStepIsStep, PTL DEF StopSpec, Spec

\* In particular the controller in charge has its state, and a stale command's
\* torques are released, in the middle of a stop too.
THEOREM StopKeepsControl == StopSpec => [](ModeHasItsState /\ StaleReleasesTorque)
  BY StopImplementsControl, ModeCoherent, StaleCommandsReleased, PTL
=============================================================================
