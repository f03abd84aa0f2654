-------------------------------- MODULE Netop -------------------------------
(***************************************************************************)
(* netop (crates/netop/src/main.rs): state.set replaces the desired state, *)
(* and reconcile_loop goes through it in a pass every reconcile_secs.      *)
(*                                                                         *)
(* A pass is a stub: it logs every rule and every interface, and changes   *)
(* nothing in the kernel, so the model makes no claim that a desired state *)
(* is enforced.  A desired state is named by a version; `logged' has the   *)
(* version of the nftables rules and of the interfaces that this life of   *)
(* the daemon has logged last.  A pass holds the read lock from its first  *)
(* rule to its last interface.                                             *)
(***************************************************************************)
EXTENDS ControlPlane

CONSTANTS
    Versions,       \* desired states an operator may set
    Unset,          \* DesiredState::default()
    HasConfig,      \* does the configuration file exist
    ConfigSecs      \* its reconcile_secs; default_reconcile_secs without the key

ASSUME ConfigAssumption == HasConfig \in BOOLEAN /\ ConfigSecs \in Nat

VARIABLES
    desired,        \* the shared DesiredState
    logged,         \* what the passes have gone through last
    pass            \* where reconcile_loop is

netopVars == <<desired, logged, pass>>
netopAll == <<controlVars, netopVars>>

DesiredState == Versions \cup {Unset}

NetopRequests ==
    CommonRequests \cup {Request("state.set", s) : s \in Versions \cup {Broken}}

\* Without a file the derived Config::default() applies, not serde's default.
ReconcileSecs == IF HasConfig THEN ConfigSecs ELSE 0

-----------------------------------------------------------------------------
NothingLogged == [rules |-> Unset, ifaces |-> Unset]

NetopFresh ==
    /\ desired = Unset
    /\ logged = NothingLogged
    /\ pass = "spawned"

NetopInit == ControlInit /\ NetopFresh

\* interval(period), which asserts that the period is not zero.
StartLoop ==
    /\ alive
    /\ pass = "spawned"
    /\ pass' = IF ReconcileSecs > 0 THEN "first" ELSE "panicked"
    /\ UNCHANGED <<controlVars, desired, logged>>

\* The timer has fired and the read lock is granted.
BeginPass ==
    /\ alive
    /\ pass \in {"first", "idle"}
    /\ pass' = "rules"
    /\ UNCHANGED <<controlVars, desired, logged>>

ReconcileRules ==
    /\ alive
    /\ pass = "rules"
    /\ logged' = [logged EXCEPT !.rules = desired]
    /\ pass' = "ifaces"
    /\ UNCHANGED <<controlVars, desired>>

\* Variant: a pass that finds nothing to do ends the loop.
ReconcileIfacesOnce ==
    /\ alive
    /\ pass = "ifaces"
    /\ logged' = [logged EXCEPT !.ifaces = desired]
    /\ pass' = IF desired = Unset THEN "panicked" ELSE "idle"
    /\ UNCHANGED <<controlVars, desired>>

\* The last interface; the read guard is dropped at the end of the block.
ReconcileIfaces ==
    /\ alive
    /\ pass = "ifaces"
    /\ logged' = [logged EXCEPT !.ifaces = desired]
    /\ pass' = "idle"
    /\ UNCHANGED <<controlVars, desired>>

Reading == pass \in {"rules", "ifaces"}

\* Variant: the state is swapped without the lock that the pass holds.
SetStateUnlocked(c) ==
    /\ Requested(c, "state.set")
    /\ conn[c].req.arg # Broken
    /\ desired' = conn[c].req.arg
    /\ Replied(c, "Ok")
    /\ UNCHANGED <<logged, pass>>

\* Variant: a state that cannot be stored at once is dropped (try_write).
SetStateIfFree(c) ==
    /\ Requested(c, "state.set")
    /\ conn[c].req.arg # Broken
    /\ desired' = IF Reading THEN desired ELSE conn[c].req.arg
    /\ Replied(c, "Ok")
    /\ UNCHANGED <<logged, pass>>

\* state.set waits for the write lock.
SetState(c) ==
    /\ Requested(c, "state.set")
    /\ conn[c].req.arg # Broken
    /\ ~Reading
    /\ desired' = conn[c].req.arg
    /\ Replied(c, "Ok")
    /\ UNCHANGED <<logged, pass>>

SetBroken(c) ==
    /\ Requested(c, "state.set")
    /\ conn[c].req.arg = Broken
    /\ Replied(c, "Error")
    /\ UNCHANGED netopVars

NetopLoop == StartLoop \/ BeginPass \/ ReconcileRules \/ ReconcileIfaces

\* The state is in memory only, and no pass has put any of it elsewhere.
NetopLost == desired' = Unset /\ logged' = NothingLogged /\ pass' = "spawned"

NetopExit(c) == Shutdown(c) /\ NetopLost

NetopControl ==
    \/ ControlStep(NetopRequests) /\ UNCHANGED netopVars
    \/ \E c \in Conns : SetState(c) \/ SetBroken(c) \/ NetopExit(c)
    \/ AcceptFails /\ NetopLost
    \/ Start /\ UNCHANGED netopVars

NetopNext == NetopControl \/ NetopLoop

\* The steps of a connection's task that wait for nobody.
NetopTask(c) ==
    SetBroken(c) \/ NetopExit(c) \/ (ControlTask(c) /\ UNCHANGED netopVars)

(***************************************************************************)
(* The timer fires, and tokio polls the loop and the connections' tasks; a *)
(* state.set gets the write lock although passes take the read lock again  *)
(* and again, since tokio's RwLock queues fairly.                          *)
(***************************************************************************)
NetopSpec ==
    /\ NetopInit
    /\ [][NetopNext]_netopAll
    /\ WF_netopAll(NetopLoop)
    /\ \A c \in Conns : WF_netopAll(NetopTask(c)) /\ SF_netopAll(SetState(c))

-----------------------------------------------------------------------------
NetopTypeOK ==
    /\ desired \in DesiredState
    /\ logged \in [rules : DesiredState, ifaces : DesiredState]
    /\ pass \in {"spawned", "panicked", "first", "idle", "rules", "ifaces"}

\* Every finished pass has gone through the rules and the interfaces of one
\* desired state, whatever is set meanwhile: the read guard spans the pass
\* (main.rs:103-105).
OneStatePerPass == pass = "idle" => logged.rules = logged.ifaces

\* A desired state that is not replaced is gone through by a whole pass of
\* the loop that main.rs:4 promises ("Runs a reconciliation loop every 5
\* seconds").  That the pass enforces it is not stated: it is a stub.
PassComes ==
    \A s \in Versions :
      (alive /\ desired = s) ~>
        (logged = [rules |-> s, ifaces |-> s] \/ desired # s \/ ~alive)
=============================================================================
