------------------------ MODULE ManagedSessionProofs ------------------------
(***************************************************************************)
(* Theorems about ManagedSession, for any set of blocks.  A block can find  *)
(* its own container under the shared name only after it has started it,    *)
(* so whoever ends without a stop does not own what is there.               *)
(***************************************************************************)
EXTENDS ManagedSession, TLAPS

\* A block that has not started its container owns none (start_session).
NotYetStarted ==
    \A b \in Blocks : pc[b] \in {"removing", "starting"} => box.owner # b

Inv == TypeOK /\ NotYetStarted /\ NothingLeftBehind

\* The steps of the container change its state alone, and it stays there.
ContainerStep ==
    \/ Refuse \/ GiveUp \/ Serve \/ PeerDies \/ ReportExit \/ ContainerExits

LEMMA ContainerOnly ==
    ASSUME TypeOK, ContainerStep
    PROVE  /\ UNCHANGED <<pc, found, late, mishap>>
           /\ box' \in [owner : Blocks \cup {Earlier}, state : States]
           /\ box'.owner = box.owner
           /\ box'.state # "absent"
  <1>. USE DEF TypeOK, BoxGoes, States, Running
  <1>1. CASE Refuse  BY <1>1 DEF Refuse
  <1>2. CASE GiveUp  BY <1>2 DEF GiveUp
  <1>3. CASE Serve  BY <1>3 DEF Serve
  <1>4. CASE PeerDies  BY <1>4 DEF PeerDies
  <1>5. CASE ReportExit  BY <1>5 DEF ReportExit
  <1>6. CASE ContainerExits  BY <1>6 DEF ContainerExits
  <1>. QED  BY <1>1, <1>2, <1>3, <1>4, <1>5, <1>6 DEF ContainerStep

LEMMA InitInv == Init => Inv
  BY SessionAssumption
  DEF Init, Inv, TypeOK, NotYetStarted, NothingLeftBehind, Absent, States, Running,
      Calling, Over

\* What a docker command that timed out may have done all the same.
LEMMA TimedOutBox ==
    ASSUME TypeOK, NEW b \in Blocks, TimeOut(b)
    PROVE  /\ box' \in [owner : Blocks \cup {Earlier}, state : States]
           /\ box'.state = "absent" => box'.owner = Earlier
           /\ box'.owner \in {box.owner, Earlier, b}
  BY SMTT(30) DEF TypeOK, TimeOut, Absent, Created, States, Running, Calling

LEMMA TypeStep == ASSUME TypeOK, [Next]_vars PROVE TypeOK'
  <1>. USE SessionAssumption DEF TypeOK, Goto
  <1>1. ASSUME NEW b \in Blocks, Remove(b) PROVE TypeOK'
    BY <1>1 DEF Remove, Absent, States, Calling
  <1>2. ASSUME NEW b \in Blocks, Start(b) PROVE TypeOK'
    BY <1>2 DEF Start, Created, Absent, States, Running, Calling, Over
  <1>3. ASSUME NEW b \in Blocks, Inspect(b) PROVE TypeOK'
    BY <1>3 DEF Inspect, Calling
  <1>4. ASSUME NEW b \in Blocks, Read(b) PROVE TypeOK'
    BY <1>4 DEF Read, Calling, Over
  <1>5. ASSUME NEW b \in Blocks, Stop(b) PROVE TypeOK'
    BY <1>5 DEF Stop, Absent, States, Over
  <1>6. ASSUME NEW b \in Blocks, Deadline(b) PROVE TypeOK'
    BY <1>6 DEF Deadline
  <1>7. ASSUME NEW b \in Blocks, Exit(b) PROVE TypeOK'
    BY <1>7 DEF Exit, Calling, Over
  <1>8. ASSUME NEW b \in Blocks, TimeOut(b) PROVE TypeOK'
    BY <1>8, TimedOutBox DEF TimeOut, Calling, Over
  <1>9. CASE ContainerStep
    BY <1>9, ContainerOnly
  <1>10. CASE UNCHANGED vars
    BY <1>10 DEF vars
  <1>. QED
    BY <1>1, <1>2, <1>3, <1>4, <1>5, <1>6, <1>7, <1>8, <1>9, <1>10
    DEF Next, Advance, AllOver, ContainerStep

LEMMA InvStep == ASSUME Inv, [Next]_vars PROVE Inv'
  <1>. USE SessionAssumption DEF Inv, TypeOK, NotYetStarted, NothingLeftBehind, Goto
  <1>0. TypeOK'
    BY TypeStep
  <1>1. ASSUME NEW b \in Blocks, Remove(b) PROVE Inv'
    BY <1>0, <1>1 DEF Remove, Absent
  <1>2. ASSUME NEW b \in Blocks, Start(b) PROVE Inv'
    \* refused: the container under the name is not its own
    BY <1>0, <1>2 DEF Start, Created, Absent, Over
  <1>3. ASSUME NEW b \in Blocks, Inspect(b) PROVE Inv'
    BY <1>0, <1>3 DEF Inspect, Over
  <1>4. ASSUME NEW b \in Blocks, Read(b) PROVE Inv'
    \* raised without a stop: only a keeper
    BY <1>0, <1>4 DEF Read, Over
  <1>5. ASSUME NEW b \in Blocks, Stop(b) PROVE Inv'
    BY <1>0, <1>5 DEF Stop, Absent
  <1>6. ASSUME NEW b \in Blocks, Deadline(b) PROVE Inv'
    BY <1>0, <1>6 DEF Deadline
  <1>7. ASSUME NEW b \in Blocks, Exit(b) PROVE Inv'
    BY <1>0, <1>7 DEF Exit, Over
  <1>8. ASSUME NEW b \in Blocks, TimeOut(b) PROVE Inv'
    <2>1. /\ pc' = [pc EXCEPT ![b] = "raised"]
          /\ mishap' = mishap \cup {b}
          /\ box'.owner \in {box.owner, Earlier, b}
      BY <1>8, TimedOutBox DEF TimeOut
    <2>2. NotYetStarted'
      BY <2>1
    <2>3. NothingLeftBehind'
      BY <2>1 DEF Over
    <2>. QED
      BY <1>0, <2>2, <2>3
  <1>9. CASE ContainerStep
    BY <1>0, <1>9, ContainerOnly
  <1>10. CASE UNCHANGED vars
    BY <1>0, <1>10 DEF vars
  <1>. QED
    BY <1>1, <1>2, <1>3, <1>4, <1>5, <1>6, <1>7, <1>8, <1>9, <1>10
    DEF Next, Advance, AllOver, ContainerStep

LEMMA Invariance == Spec => []Inv
  <1>1. Inv /\ [Next]_vars => Inv'
    BY InvStep
  <1>. QED
    BY InitInv, <1>1, PTL DEF Spec

-----------------------------------------------------------------------------
\* Blocks and container stay in the states of the code, for any blocks.
THEOREM SessionTypes == Spec => []TypeOK
  <1>1. Inv => TypeOK
    BY DEF Inv
  <1>. QED
    BY Invariance, <1>1, PTL

\* However many blocks share the name, and whatever docker commands of others
\* fail: a block that is over leaves its container behind only if it keeps it, or
\* if its own creation or stop of it failed or a command of its own timed out
\* (OfficialG1ManagedSession.__enter__, __exit__).
THEOREM ContainersReaped == Spec => []NothingLeftBehind
  <1>1. Inv => NothingLeftBehind
    BY DEF Inv
  <1>. QED
    BY Invariance, <1>1, PTL
=============================================================================
