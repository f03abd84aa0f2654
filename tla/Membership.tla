----------------------------- MODULE Membership -----------------------------
(***************************************************************************)
(* The membership table of the hivebus daemon (crates/hivebus/src/main.rs) *)
(* and the pure part of every operation on it: what each frame handler of  *)
(* listener_task, each pass of failure_detector_task, each gossip round    *)
(* and each control-plane query computes while it holds the lock of the    *)
(* table.  The modules that give these operators their interleavings       *)
(* extend this one.                                                        *)
(*                                                                         *)
(* A table (HashMap<u16, NodeInfo>) is a function whose domain is the set  *)
(* of listed peers.  Time is counted in ticks and is relative: an entry    *)
(* keeps the `age' of its last_seen, the ticks since it was written.       *)
(***************************************************************************)
EXTENDS Integers, FiniteSets

CONSTANTS
    Ids,            \* node ids (u16) of this deployment
    Addrs,          \* socket addresses a frame can come from or carry
    Incs,           \* incarnation numbers (u32)
    SuspectAge,     \* heartbeat_interval_ms * suspect_misses
    DeadAge,        \* dead_secs
    CleanupAge,     \* cleanup_threshold, 300 s
    MaxLag,         \* bound: longest wait of the detector for the lock
    MaxStep         \* bound: how far a last_seen may come to lie in the future
                    \* because the wall clock was set back

(***************************************************************************)
(* Config is not validated by the program, so nothing relates the three    *)
(* thresholds to each other.                                               *)
(***************************************************************************)
ASSUME IdsAssumption == Ids \subseteq Nat
ASSUME IncsAssumption == Incs \subseteq Nat
ASSUME AgesAssumption ==
    /\ SuspectAge \in Nat
    /\ DeadAge \in Nat
    /\ CleanupAge \in Nat
    /\ MaxLag \in Nat
    /\ MaxStep \in Nat

-----------------------------------------------------------------------------
NodeState == {"Alive", "Suspect", "Dead"}

(***************************************************************************)
(* Ages are counted up to the first value at which the detector drops an   *)
(* entry whatever its lag.  They are negative when the clock has been set  *)
(* back behind last_seen.  A detector that is between two passes has the   *)
(* lag Idle.                                                               *)
(***************************************************************************)
MaxAge == CleanupAge + MaxLag

Idle == -(MaxStep + 1)

Older(age) == IF age < MaxAge THEN age + 1 ELSE age

(***************************************************************************)
(* NodeInfo without node_id, which is the key.  The host name is folded    *)
(* into addr: both are placeholders until an ANNOUNCE, and both come from  *)
(* it afterwards.                                                          *)
(***************************************************************************)
NodeInfo == [addr : Addrs, state : NodeState, inc : Incs,
             age : -MaxStep .. MaxAge, master : BOOLEAN]

IsTable(m) ==
    /\ DOMAIN m \subseteq Ids
    /\ m = [i \in DOMAIN m |-> m[i]]
    /\ \A i \in DOMAIN m : m[i] \in NodeInfo

EmptyTable == [i \in {} |-> {}]

Put(m, i, info) == [j \in DOMAIN m \cup {i} |-> IF j = i THEN info ELSE m[j]]

\* Variant: last_seen is stamped from a clock that runs ahead.
NewPeerAhead(addr, state, inc) ==
    [addr |-> addr, state |-> state, inc |-> inc, age |-> Idle, master |-> FALSE]

NewPeer(addr, state, inc) ==
    [addr |-> addr, state |-> state, inc |-> inc, age |-> 0, master |-> FALSE]

\* What m.entry(i).or_insert_with(new) refers to.
EntryOr(m, i, new) == IF i \in DOMAIN m THEN m[i] ELSE new

-----------------------------------------------------------------------------
(***************************************************************************)
(* The four frame handlers of listener_task.                               *)
(***************************************************************************)
\* Variant: a heartbeat does not clear a suspicion.
RefreshedStillSuspect(info, inc) == [info EXCEPT !.inc = inc, !.age = 0]

Refreshed(info, inc) == [info EXCEPT !.state = "Alive", !.inc = inc, !.age = 0]

HeardHeartbeat(m, nid, inc, from) ==
    Put(m, nid, Refreshed(EntryOr(m, nid, NewPeer(from, "Alive", inc)), inc))

\* An ANNOUNCE replaces the whole entry, the master flag included.
HeardAnnounce(m, nid, inc, addr) == Put(m, nid, NewPeer(addr, "Alive", inc))

HeardLeave(m, nid) ==
    IF nid \in DOMAIN m THEN [m EXCEPT ![nid].state = "Dead"] ELSE m

(***************************************************************************)
(* A GOSSIP frame carries [state, inc] for each peer the sender lists.  An *)
(* unknown peer is inserted as just seen, under the sender's address; a    *)
(* known one takes over state and incarnation when the gossiped            *)
(* incarnation is at least the known one, and its age is left alone.       *)
(***************************************************************************)
GossipEntry == [state : NodeState, inc : Incs]

\* Variant: gossip is believed whatever its incarnation.
MergeAny(info, entry) == [info EXCEPT !.state = entry.state, !.inc = entry.inc]

\* Variant: the sender's epoch_ms, some time ago, is taken as last_seen.
MergeTrustsEpoch(info, entry) ==
    IF entry.inc >= info.inc
      THEN [info EXCEPT !.state = entry.state, !.inc = entry.inc,
                        !.age = IF @ > 1 THEN 1 ELSE @]
      ELSE info

\* Variant: each merge counts the incarnation up.
MergeBumps(info, entry) ==
    IF entry.inc >= info.inc
      THEN [info EXCEPT !.state = entry.state, !.inc = entry.inc + 1]
      ELSE info

Merge(info, entry) ==
    IF entry.inc >= info.inc
      THEN [info EXCEPT !.state = entry.state, !.inc = entry.inc]
      ELSE info

\* Variant: this node's own entry is not skipped.
HeardGossipOfSelf(m, self, from, view) ==
    LET Known(i) == EntryOr(m, i, NewPeer(from, view[i].state, view[i].inc))
    IN  [i \in DOMAIN m \cup DOMAIN view |->
            IF i \in DOMAIN view THEN Merge(Known(i), view[i]) ELSE m[i]]

\* Variant: an unknown peer is taken to be Alive.
HeardGossipOptimist(m, self, from, view) ==
    [i \in DOMAIN m \cup (DOMAIN view \ {self}) |->
        IF i \notin DOMAIN m THEN NewPeer(from, "Alive", view[i].inc)
        ELSE IF i \in DOMAIN view \ {self} THEN Merge(m[i], view[i])
        ELSE m[i]]

HeardGossip(m, self, from, view) ==
    LET named == DOMAIN view \ {self}
        Known(i) == EntryOr(m, i, NewPeer(from, view[i].state, view[i].inc))
    IN  [i \in DOMAIN m \cup named |->
            IF i \in named THEN Merge(Known(i), view[i]) ELSE m[i]]

\* The entries gossip_task puts in a frame.
GossipView(m) == [i \in DOMAIN m |-> [state |-> m[i].state, inc |-> m[i].inc]]

-----------------------------------------------------------------------------
(***************************************************************************)
(* Election: the lowest id among the Alive peers and this node.            *)
(***************************************************************************)
\* Variant: this node is no candidate as long as there are others.
AliveIdsOfPeers(m, self) ==
    LET alive == {i \in DOMAIN m : m[i].state = "Alive"}
    IN  IF alive = {} THEN {self} ELSE alive

AliveIds(m, self) == {i \in DOMAIN m : m[i].state = "Alive"} \cup {self}

MasterFrom(m, self) ==
    CHOOSE i \in AliveIds(m, self) : \A j \in AliveIds(m, self) : i <= j


AgeAtNow(info, lag) == IF info.age < lag THEN MaxAge ELSE info.age - lag

Retained(m, lag) == {i \in DOMAIN m : AgeAtNow(m[i], lag) < CleanupAge}

\* Variant: a peer is suspected when it reaches the threshold.
JudgedEarly(info, lag) ==
    IF AgeAtNow(info, lag) >= DeadAge THEN "Dead"
    ELSE IF AgeAtNow(info, lag) >= SuspectAge /\ info.state = "Alive" THEN "Suspect"
    ELSE info.state

Judged(info, lag) ==
    IF AgeAtNow(info, lag) > DeadAge THEN "Dead"
    ELSE IF AgeAtNow(info, lag) > SuspectAge /\ info.state = "Alive" THEN "Suspect"
    ELSE info.state

MarkStates(m, lag) ==
    [i \in Retained(m, lag) |-> [m[i] EXCEPT !.state = Judged(m[i], lag)]]

MarkMaster(m, self) ==
    [i \in DOMAIN m |-> [m[i] EXCEPT !.master = (i = MasterFrom(m, self))]]

\* Variant: the election comes before the verdicts of the pass.
FailureScanElectsFirst(m, self, lag) == MarkStates(MarkMaster(m, self), lag)

FailureScan(m, self, lag) == MarkMaster(MarkStates(m, lag), self)

-----------------------------------------------------------------------------
(***************************************************************************)
(* The control-plane queries.  GetNodes answers with the cached master     *)
(* flags of the peers and a freshly computed one for this node; GetMaster  *)
(* runs the election on the table as it is.  The reply to GetNodes is a    *)
(* list sorted by id: it is represented by the set of its lines, and a     *)
(* line by its id, state and master mark.                                  *)
(***************************************************************************)
LocalNodeInfo(self, isMaster) ==
    [id |-> self, state |-> "Alive", master |-> isMaster]

GetNodes(m, self) ==
    {[id |-> i, state |-> m[i].state, master |-> m[i].master] : i \in DOMAIN m}
      \cup {LocalNodeInfo(self, MasterFrom(m, self) = self)}

GetMaster(m, self) == MasterFrom(m, self)

\* The lines of a reply to GetNodes that show a master.
Stars(nodes) == {n \in nodes : n.master}
=============================================================================
