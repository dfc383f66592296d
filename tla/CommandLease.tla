---------------------------- MODULE CommandLease ----------------------------
(***************************************************************************)
(* What the simulator promises to a client that streams low-level motor    *)
(* commands.  An accepted command puts the client in charge and opens a    *)
(* lease of a fixed duration, which only another accepted command renews.  *)
(* Nobody ends it early but a disarming command, and when it runs out all  *)
(* torques of low-level commands go at once.  A rejected command may leave *)
(* torques on the actuators, but it neither opens nor renews a lease: if   *)
(* none is open they stay until another controller takes the actuators.    *)
(***************************************************************************)
EXTENDS Integers

CONSTANTS
    Actuator,
    Duration,    \* of a lease, in clock ticks; 0 if leases never expire
    NoLease      \* value of left without a lease, a negative number

VARIABLES
    left,        \* ticks until the lease expires, or NoLease
    expired,     \* the lease has run out and its torques were taken away
    inCharge,    \* low-level commands are what drives the robot
    energized    \* actuators that carry a torque of a low-level command

leaseVars == <<left, expired, inCharge, energized>>

Init ==
    /\ left = NoLease
    /\ expired = FALSE
    /\ inCharge = FALSE
    /\ energized = {}

Accept ==
    /\ left' = Duration
    /\ expired' = FALSE
    /\ inCharge' = TRUE
    /\ \E motors \in SUBSET Actuator : energized' = energized \cup motors

Reject ==
    /\ \E motors \in SUBSET Actuator : energized' = energized \cup motors
    /\ UNCHANGED <<left, expired, inCharge>>

Tick ==
    /\ left > 0
    /\ left' = left - 1
    /\ UNCHANGED <<expired, inCharge, energized>>

Expire ==
    /\ Duration > 0 /\ left = 0 /\ ~expired
    /\ expired' = TRUE
    /\ energized' = {}
    /\ UNCHANGED <<left, inCharge>>

\* Ending a lease does not by itself take the torques away.
Close ==
    /\ left' = NoLease
    /\ expired' = FALSE
    /\ inCharge' = FALSE
    /\ energized' \in {energized, {}}

TakeOver ==
    /\ inCharge' \in {inCharge, FALSE}
    /\ energized' \subseteq energized
    /\ UNCHANGED <<left, expired>>

Next == Accept \/ Reject \/ Tick \/ Expire \/ Close \/ TakeOver

Spec == Init /\ [][Next]_leaseVars
=============================================================================
