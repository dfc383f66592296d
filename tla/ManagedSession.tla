--------------------------- MODULE ManagedSession ---------------------------
(***************************************************************************)
(* Managed sessions of the official MuJoCo peer (OfficialG1ManagedSession   *)
(* of packages/cybernetic-robotics, official.py): `with' blocks in separate *)
(* processes that start, wait for, use and remove one Docker container with *)
(* a fixed name, and the container itself, which runs serve_official_mujoco *)
(* of the sidecar's entrypoint.  A step of a block is one docker command;   *)
(* blocks and container interleave between them.                            *)
(*                                                                          *)
(* Of the container's log only two facts are kept: whether its first report *)
(* says ok, and whether an exit report follows.                             *)
(***************************************************************************)
EXTENDS Integers

CONSTANTS
    Blocks,       \* the `with' blocks, each entered once
    Keepers,      \* those with keep_running
    Earlier       \* owner of a container that was there before

ASSUME SessionAssumption ==
    /\ Keepers \subseteq Blocks
    /\ Earlier \notin Blocks

VARIABLES
    pc,        \* where each block is
    found,     \* what its last docker inspect said of Running
    late,      \* its wait deadline has passed
    box,       \* the container: who created it, and how far it is
    mishap     \* history: blocks whose creation or stop of the container failed,
               \* or one of whose docker commands timed out

vars == <<pc, found, late, box, mishap>>

Absent == [owner |-> Earlier, state |-> "absent"]
Created(b, state) == [owner |-> b, state |-> state]
Running == {"booting", "refused", "serving", "silent", "reported"}

\* the report of the start says ok; the report of the exit is in the log
StartedOk == {"serving", "silent", "reported", "exited"}
ExitLogged == {"reported", "exited"}

Calling == {"removing", "starting", "inspecting", "reading", "cleaning", "leaving"}
Over == {"done", "raised"}

Init ==
    /\ pc = [b \in Blocks |-> "removing"]
    /\ found = [b \in Blocks |-> FALSE]
    /\ late = [b \in Blocks |-> FALSE]
    /\ box \in {Absent, [owner |-> Earlier, state |-> "serving"],
                [owner |-> Earlier, state |-> "exited"]}
    /\ mishap = {}

Goto(b, p) == pc' = [pc EXCEPT ![b] = p]

-----------------------------------------------------------------------------
\* start_session: docker rm -f through the unchecked runner, so that a removal
\* that fails goes unnoticed here.
Remove(b) ==
    /\ pc[b] = "removing"
    /\ Goto(b, "starting")
    /\ box' \in {Absent, box}
    /\ UNCHANGED <<found, late, mishap>>

\* docker compose run -d --name, checked: refused while any container has the
\* name; it may fail otherwise too, with or without having created one.  The
\* exception leaves __enter__ before its stop_session.
Start(b) ==
    /\ pc[b] = "starting"
    /\ \/ /\ box = Absent
          /\ box' = Created(b, "booting")
          /\ Goto(b, "inspecting")
          /\ UNCHANGED mishap
       \/ /\ box # Absent
          /\ Goto(b, "raised")
          /\ UNCHANGED <<box, mishap>>
       \/ /\ box = Absent
          /\ box' \in {Absent, Created(b, "created"), Created(b, "booting")}
          /\ Goto(b, "raised")
          /\ mishap' = mishap \cup {b}
    /\ UNCHANGED <<found, late>>

\* session_status is two unchecked commands: docker inspect, which tells nothing
\* when it fails ...
Inspect(b) ==
    /\ pc[b] = "inspecting"
    /\ \E told \in BOOLEAN :
         found' = [found EXCEPT ![b] = told /\ box.state \in Running]
    /\ Goto(b, "reading")
    /\ UNCHANGED <<late, box, mishap>>

\* ... and docker logs, which may fail too, or be those of another container.
ready(b) == found[b] /\ box.state \in StartedOk \ ExitLogged

\* wait_for_session_ready goes round while the peer runs, is not ready and
\* the deadline has not passed; __enter__ then enters, or stops the session
\* (unless it is to be kept) and raises.
Read(b) ==
    /\ pc[b] = "reading"
    /\ \E told \in BOOLEAN :
         Goto(b, IF told /\ ready(b) THEN "inside"
                 ELSE IF found[b] /\ ~late[b] THEN "inspecting"
                 ELSE IF b \in Keepers THEN "raised" ELSE "cleaning")
    /\ UNCHANGED <<found, late, box, mishap>>

Deadline(b) ==
    /\ pc[b] \in {"inspecting", "reading"} /\ ~late[b]
    /\ late' = [late EXCEPT ![b] = TRUE]
    /\ UNCHANGED <<pc, found, box, mishap>>

\* The body ends, by an exception or not; a session not to be kept is stopped.
Exit_Fault(b) ==
    /\ pc[b] = "inside"
    /\ Goto(b, "done")
    /\ UNCHANGED <<found, late, box, mishap>>
Exit(b) ==
    /\ pc[b] = "inside"
    /\ Goto(b, IF b \in Keepers THEN "done" ELSE "leaving")
    /\ UNCHANGED <<found, late, box, mishap>>

\* stop_session: docker rm -f again, unchecked as well; what it answers is
\* stored and not looked at.  (Its status commands come after the removal.)
Stop(b) ==
    /\ pc[b] \in {"cleaning", "leaving"}
    /\ Goto(b, IF pc[b] = "cleaning" THEN "raised" ELSE "done")
    /\ \/ box' = Absent /\ UNCHANGED mishap
       \/ mishap' = mishap \cup {b} /\ UNCHANGED box
    /\ UNCHANGED <<found, late>>

\* subprocess.run raises TimeoutExpired; the Docker daemon may have done what
\* it was asked, or not.  Nothing in start_session or __enter__ catches it.
TimeOut(b) ==
    /\ pc[b] \in Calling
    /\ mishap' = mishap \cup {b}
    /\ Goto(b, "raised")
    /\ box' \in {box} \cup
          CASE pc[b] \in {"removing", "cleaning", "leaving"} -> {Absent}
            [] pc[b] = "starting" /\ box = Absent -> {Created(b, "booting")}
            [] OTHER -> {}
    /\ UNCHANGED <<found, late>>

-----------------------------------------------------------------------------
\* serve_official_mujoco: without the simulator's binary it reports so and
\* exits; else it reports ok, polls the simulator, and reports its exit a
\* while after it happened.
BoxGoes(from, to) ==
    /\ box.state = from
    /\ box' = [box EXCEPT !.state = to]
    /\ UNCHANGED <<pc, found, late, mishap>>

Refuse == BoxGoes("booting", "refused")
GiveUp == BoxGoes("refused", "failed")
Serve == BoxGoes("booting", "serving")
PeerDies == BoxGoes("serving", "silent")
ReportExit == BoxGoes("silent", "reported")
ContainerExits == BoxGoes("reported", "exited")

-----------------------------------------------------------------------------
Advance(b) == Remove(b) \/ Start(b) \/ Inspect(b) \/ Read(b) \/ Stop(b)

\* Every block is over: the scripts have ended.
AllOver == (\A b \in Blocks : pc[b] \in Over) /\ UNCHANGED vars

Next ==
    \/ \E b \in Blocks : Advance(b) \/ Deadline(b) \/ Exit(b) \/ TimeOut(b)
    \/ Refuse \/ GiveUp \/ Serve \/ PeerDies \/ ReportExit \/ ContainerExits
    \/ AllOver

Spec == Init /\ [][Next]_vars

-----------------------------------------------------------------------------
States == Running \cup {"absent", "created", "failed", "exited"}

\* Blocks and container are in states of the code; a container that exists
\* has a state, and nobody owns one that does not.
TypeOK ==
    /\ pc \in [Blocks -> Calling \cup Over \cup {"inside"}]
    /\ found \in [Blocks -> BOOLEAN] /\ late \in [Blocks -> BOOLEAN]
    /\ box \in [owner : Blocks \cup {Earlier}, state : States]
    /\ box.state = "absent" => box.owner = Earlier
    /\ mishap \subseteq Blocks

\* A block that is over has left its container behind only if it is to keep it or
\* a docker command of its own went wrong: its creation failed half-way, its stop
\* failed, or one timed out.  Whatever the blocks removed or created under the
\* same name meanwhile, a failed removal before the start, a refused start, a
\* peer that never got ready and an unreadable status leave nothing behind.
NothingLeftBehind ==
    box.owner \in Blocks \ (Keepers \cup mishap) => pc[box.owner] \notin Over
=============================================================================
