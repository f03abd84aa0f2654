------------------------------ MODULE Commands ------------------------------
(***************************************************************************)
(* What a daemon's control socket promises: each command takes effect at   *)
(* most once, in one step, between its arrival and its answer; it is       *)
(* answered Ok only if it took effect, and Error only if it did not.  The  *)
(* process may end at any time, and then all effects are gone.             *)
(***************************************************************************)
CONSTANTS
    Clients,
    Requests,
    NoCommand,
    Initial,            \* the state in which the daemon starts
    Effect(_, _)        \* the state after a command: Effect(command, state)

VARIABLES
    state,              \* the state that commands change
    command,            \* the command that waits for its effect, or NoCommand
    outcome             \* what the client will be told: "none", "Ok", "Error"

vars == <<state, command, outcome>>

Idle(c) == command[c] = NoCommand /\ outcome[c] = "none"

Init ==
    /\ state = Initial
    /\ command = [c \in Clients |-> NoCommand]
    /\ outcome = [c \in Clients |-> "none"]

Issue(c, r) ==
    /\ Idle(c)
    /\ command' = [command EXCEPT ![c] = r]
    /\ UNCHANGED <<state, outcome>>

Succeed(c) ==
    /\ command[c] # NoCommand
    /\ state' = Effect(command[c], state)
    /\ command' = [command EXCEPT ![c] = NoCommand]
    /\ outcome' = [outcome EXCEPT ![c] = "Ok"]

Fail(c) ==
    /\ command[c] # NoCommand
    /\ command' = [command EXCEPT ![c] = NoCommand]
    /\ outcome' = [outcome EXCEPT ![c] = "Error"]
    /\ UNCHANGED state

Answer(c) ==
    /\ outcome[c] # "none"
    /\ outcome' = [outcome EXCEPT ![c] = "none"]
    /\ UNCHANGED <<state, command>>

Halt ==
    /\ state' = Initial
    /\ command' = [c \in Clients |-> NoCommand]
    /\ outcome' = [c \in Clients |-> "none"]

Next ==
    \/ \E c \in Clients, r \in Requests : Issue(c, r)
    \/ \E c \in Clients : Succeed(c) \/ Fail(c) \/ Answer(c)
    \/ Halt

Spec == Init /\ [][Next]_vars
=============================================================================
