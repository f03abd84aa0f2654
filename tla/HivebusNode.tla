----------------------------- MODULE HivebusNode ----------------------------
(***************************************************************************)
(* One hivebus daemon seen alone: its membership table under every order   *)
(* of frames, detector passes, ticks and steps of the wall clock, which is *)
(* what last_seen and `now' are read from.  Nothing is assumed of the      *)
(* peers: any well-formed frame may arrive at any time, late, twice or     *)
(* never.  A LEAVE is one of them although no daemon of this repository    *)
(* sends it; SpecWithoutLeave is the system without it.                    *)
(*                                                                         *)
(* Three tasks write the table: listener_task, failure_detector_task and,  *)
(* by restarting the process, main.  Each handler holds the write lock     *)
(* from its first access of the table to its last, so it is one action;    *)
(* the detector reads the clock before it asks for the lock, so it is two. *)
(***************************************************************************)
EXTENDS Membership

CONSTANT Self       \* this node's id

ASSUME SelfAssumption == Self \in Ids

VARIABLES
    members,    \* the membership table
    lag         \* ticks since the detector read `now', Idle between passes

vars == <<members, lag>>

Peers == Ids \ {Self}       \* listener_task ignores frames that carry our id

\* What a peer's gossip_task may send: a non-empty table without itself.
ViewsOf(nid) ==
    UNION {[D -> GossipEntry] : D \in (SUBSET (Ids \ {nid})) \ {{}}}

-----------------------------------------------------------------------------
Init ==
    /\ members = EmptyTable
    /\ lag = Idle

RecvHeartbeat(nid, inc, from) ==
    /\ members' = HeardHeartbeat(members, nid, inc, from)
    /\ UNCHANGED lag

RecvAnnounce(nid, inc, addr) ==
    /\ members' = HeardAnnounce(members, nid, inc, addr)
    /\ UNCHANGED lag

RecvLeave(nid) ==
    /\ members' = HeardLeave(members, nid)
    /\ UNCHANGED lag

RecvGossip(nid, from, view) ==
    /\ members' = HeardGossip(members, Self, from, view)
    /\ UNCHANGED lag

\* `let now = SystemTime::now();'
DetectorNow ==
    /\ lag = Idle
    /\ lag' = 0
    /\ UNCHANGED members

\* The rest of the pass, from `members.write().await' on.
DetectorScan ==
    /\ lag # Idle
    /\ members' = FailureScan(members, Self, lag)
    /\ lag' = Idle

\* Time passes; the bound MaxLag is on the wait for the lock.
Tick ==
    /\ lag < MaxLag
    /\ members' = [i \in DOMAIN members |->
                     [members[i] EXCEPT !.age = Older(@)]]
    /\ lag' = IF lag = Idle THEN Idle ELSE lag + 1

\* The wall clock is set back by a tick, or by several in a row; set forward
\* it is no different from ticks.  The bound is on how far that goes, and an
\* age that is at its cap, and no longer counted, does not come back.
StepBack ==
    /\ \A i \in DOMAIN members : -MaxStep < members[i].age /\ members[i].age < MaxAge
    /\ lag # Idle => lag > -MaxStep
    /\ members' = [i \in DOMAIN members |-> [members[i] EXCEPT !.age = @ - 1]]
    /\ lag' = IF lag = Idle THEN Idle ELSE lag - 1

\* The process ends (Shutdown or a crash) and main runs again.
Restart ==
    /\ members' = EmptyTable
    /\ lag' = Idle

Listen ==
    \E nid \in Peers :
      \/ \E inc \in Incs, a \in Addrs :
           RecvHeartbeat(nid, inc, a) \/ RecvAnnounce(nid, inc, a)
      \/ \E a \in Addrs, view \in ViewsOf(nid) : RecvGossip(nid, a, view)

NextWithoutLeave ==
    Listen \/ DetectorNow \/ DetectorScan \/ Tick \/ StepBack \/ Restart

Next == NextWithoutLeave \/ \E nid \in Peers : RecvLeave(nid)

Spec == Init /\ [][Next]_vars

SpecWithoutLeave == Init /\ [][NextWithoutLeave]_vars

(***************************************************************************)
(* The clock advances, and tokio polls the detector again after its timer  *)
(* fires and again after the lock is granted (its RwLock is fair).         *)
(***************************************************************************)
FairSpec ==
    Spec /\ WF_vars(Tick) /\ WF_vars(DetectorNow) /\ WF_vars(DetectorScan)

-----------------------------------------------------------------------------
(***************************************************************************)
(* Invariants.                                                             *)
(***************************************************************************)

\* The table is a table and the detector's lag is within its bound.
TypeOK ==
    /\ IsTable(members)
    /\ lag \in Idle .. MaxLag

\* A node never lists itself as a peer (main.rs:207, 285), whatever its
\* peers gossip about it: GetNodes adds its own line and must not repeat it.
SelfNotListed == Self \notin DOMAIN members

\* The cached flags never name two peers, nor a peer that this node itself
\* would beat (main.rs:342-346), although frames replace entries between
\* the passes that compute them.
OneStar ==
    \A i \in DOMAIN members :
      members[i].master =>
        /\ i < Self
        /\ \A j \in DOMAIN members : members[j].master => j = i

NodesReply == GetNodes(members, Self)

-----------------------------------------------------------------------------
(***************************************************************************)
(* Action properties.                                                      *)
(***************************************************************************)

HeardFrom(i) ==
    \E inc \in Incs, a \in Addrs :
      RecvHeartbeat(i, inc, a) \/ RecvAnnounce(i, inc, a)

\* Hearsay about a listed peer (GOSSIP), and the detector, never rejuvenate
\* it, never take its incarnation back and never move its address: only a
\* frame of the peer itself does (main.rs:295-299).  Setting the clock back
\* makes peers younger and touches nothing else.
HearsayIsWeak ==
    [][\A i \in Peers :
         (i \in DOMAIN members /\ i \in DOMAIN members' /\ ~HeardFrom(i)) =>
            /\ members'[i].inc >= members[i].inc
            /\ StepBack \/ members'[i].age >= members[i].age
            /\ members'[i].addr = members[i].addr]_vars

\* When a pass ends, GetNodes shows exactly one master, it is the one that
\* GetMaster names, and no Suspect or Dead node carries the star: the flags
\* are computed from the states of the same pass (main.rs:329-346).
ScanElects ==
    [][DetectorScan =>
         \E n \in NodesReply' :
           /\ Stars(NodesReply') = {n}
           /\ n.id = GetMaster(members', Self)
           /\ n.state = "Alive"]_vars

\* A pass removes only peers silent for the cleanup time (module comment,
\* main.rs:18, and the task's comment, main.rs:309: "removes stale entries").
StaleOnlyRemoved ==
    [][DetectorScan =>
         \A i \in DOMAIN members \ DOMAIN members' :
           members[i].age >= CleanupAge]_vars

-----------------------------------------------------------------------------
(***************************************************************************)
(* Liveness.                                                               *)
(***************************************************************************)

CountedAlive(i) == i \in DOMAIN members /\ members[i].state = "Alive"

\* A peer from which no frame comes any more does not stay electable on the
\* strength of other nodes' gossip: again and again the detector takes it
\* out of the Alive set (main.rs:329-340), wherever earlier steps of the
\* clock have left its last_seen (main.rs:236, 325).
SilentPeerDemoted ==
    \A i \in Peers :
      <>[][~HeardFrom(i) /\ ~StepBack]_vars => []<>~CountedAlive(i)
=============================================================================
