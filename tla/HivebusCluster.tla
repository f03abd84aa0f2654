--------------------------- MODULE HivebusCluster ---------------------------
(***************************************************************************)
(* A cluster of hivebus daemons on one network segment: hosts that start,  *)
(* stop and start again, their periodic tasks, and the UDP frames between  *)
(* them, which may be lost, delivered twice, late or out of order.         *)
(*                                                                         *)
(* Each host runs heartbeat_task, gossip_task, failure_detector_task and   *)
(* listener_task over its own membership table.  Time advances by Tick,    *)
(* which waits for the timers that have fired and for the frames whose     *)
(* delay is used up; everything between two ticks is interleaved freely.   *)
(* Node ids are unique here: a host is its id.                             *)
(*                                                                         *)
(* Subjects slices the model.  The handlers treat the keys of a table      *)
(* independently, so the entries of some hosts can be followed in all      *)
(* tables without those of the others: the tasks and frames that can touch *)
(* no such entry are left out.  Subjects = Ids is the whole system.        *)
(***************************************************************************)
EXTENDS Membership, Sequences

CONSTANTS
    Subjects,       \* the hosts whose entries are followed
    HbPeriod,       \* heartbeat_interval_ms
    ScanPeriod,     \* the detector's interval, 100 ms
    GossipPeriod,   \* the gossip interval, 500 ms
    GossipCapacity, \* entries that fit a 508-byte frame
    RestartDelay,   \* systemd's RestartSec: ticks a stopped host stays down
    MaxDelay,       \* bound: ticks a frame is in flight
    MaxLoss,        \* bound: frames the network loses
    MaxStarts,      \* bound: how often each host starts
    Clocks,         \* the incarnations that a host's starts may get, in order
    Stoppable       \* bound: the hosts that stop at some time

\* The source of a host's frames, and the control address it announces.
Udp(h) == <<"udp", h>>
Ctl(h) == <<"ctl", h>>

ASSUME ClusterAssumption ==
    /\ Subjects \subseteq Ids
    /\ \A h \in Ids : Udp(h) \in Addrs /\ Ctl(h) \in Addrs
    /\ HbPeriod \in Nat \ {0} /\ ScanPeriod \in Nat \ {0}
    /\ GossipPeriod \in Nat \ {0}
    /\ RestartDelay \in Nat
    /\ GossipCapacity \in Nat /\ MaxDelay \in Nat /\ MaxLoss \in Nat
    /\ MaxStarts \in [Ids -> Nat]
    /\ \A c \in Clocks : c \in Seq(Incs) /\ \A h \in Ids : MaxStarts[h] <= Len(c)

VARIABLES
    up,             \* is the daemon running
    starts,         \* how often it has been started
    clock,          \* what epoch_ms() as u32 yields at the first start, the second, ...
    members,        \* its membership table
    lag,            \* ticks since its detector read `now', or Idle
    due,            \* ticks until each of its timers fires
    net,            \* the frames in flight
    losses          \* frames lost so far

vars == <<up, starts, clock, members, lag, due, net, losses>>

Timers == [hb : 0 .. HbPeriod, scan : 0 .. ScanPeriod,
           gossip : 0 .. GossipPeriod, start : 0 .. RestartDelay]

\* tokio's interval fires at once when its task starts.
AllDue == [hb |-> 0, scan |-> 0, gossip |-> 0, start |-> 0]

Views == UNION {[D -> GossipEntry] : D \in SUBSET Subjects}

Frame ==
    [kind : {"Heartbeat", "Announce"}, src : Subjects, dst : Ids, inc : Incs,
     left : 0 .. MaxDelay]
      \cup [kind : {"Gossip"}, src : Ids, dst : Ids, view : Views,
            left : 0 .. MaxDelay]

(***************************************************************************)
(* A frame goes to every other host by broadcast, multicast or both; a     *)
(* host ignores its own frames.                                            *)
(***************************************************************************)
Others(h) == Ids \ {h}

\* The hosts that can have followed entries in their tables.
Observers == {h \in Ids : Subjects \ {h} # {}}

Direct(kind, h, inc) ==
    {[kind |-> kind, src |-> h, dst |-> d, inc |-> inc, left |-> MaxDelay] :
       d \in Others(h)}

\* Gossip that tells a host of nobody but itself has no effect on it.
Gossiped(h, view) ==
    {[kind |-> "Gossip", src |-> h, dst |-> d, view |-> view, left |-> MaxDelay] :
       d \in {o \in Others(h) : DOMAIN view \ {o} # {}}}

-----------------------------------------------------------------------------
Init ==
    /\ up = [h \in Ids |-> FALSE]
    /\ starts = [h \in Ids |-> 0]
    /\ clock \in Clocks
    /\ members = [h \in Ids |-> EmptyTable]
    /\ lag = [h \in Ids |-> Idle]
    /\ due = [h \in Ids |-> AllDue]
    /\ net = {}
    /\ losses = 0

\* main: a new incarnation with an empty table announces itself, once.
Start(h) ==
    /\ ~up[h]
    /\ due[h].start = 0
    /\ starts[h] < MaxStarts[h]
    /\ up' = [up EXCEPT ![h] = TRUE]
    /\ starts' = [starts EXCEPT ![h] = @ + 1]
    /\ due' = [due EXCEPT ![h] = AllDue]
    /\ net' = IF h \in Subjects
                THEN net \cup Direct("Announce", h, clock[starts'[h]])
                ELSE net
    /\ UNCHANGED <<clock, members, lag, losses>>

\* The process ends, by a crash or by ControlOp::Shutdown, which exits
\* without a LEAVE.  Frames waiting in its socket are gone.
Stop(h) ==
    /\ up[h]
    /\ h \in Stoppable
    /\ up' = [up EXCEPT ![h] = FALSE]
    /\ members' = [members EXCEPT ![h] = EmptyTable]
    /\ lag' = [lag EXCEPT ![h] = Idle]
    /\ due' = [due EXCEPT ![h] = [AllDue EXCEPT !.start = RestartDelay]]
    /\ net' = {f \in net : f.dst # h}
    /\ UNCHANGED <<starts, clock, losses>>

\* A round of heartbeat_task.
Heartbeat(h) ==
    /\ up[h]
    /\ due[h].hb = 0
    /\ due' = [due EXCEPT ![h].hb = HbPeriod]
    /\ net' = net \cup Direct("Heartbeat", h, clock[starts[h]])
    /\ UNCHANGED <<up, starts, clock, members, lag, losses>>

\* A round of gossip_task: nothing is sent for an empty table, nor for one
\* that does not fit a frame.
Gossip(h) ==
    /\ up[h]
    /\ due[h].gossip = 0
    /\ due' = [due EXCEPT ![h].gossip = GossipPeriod]
    /\ LET view == GossipView(members[h])
       IN  net' = IF DOMAIN view # {} /\ Cardinality(DOMAIN view) <= GossipCapacity
                    THEN net \cup Gossiped(h, view)
                    ELSE net
    /\ UNCHANGED <<up, starts, clock, members, lag, losses>>

\* failure_detector_task reads the clock ...
DetectorNow(h) ==
    /\ up[h]
    /\ lag[h] = Idle
    /\ due[h].scan = 0
    /\ due' = [due EXCEPT ![h].scan = ScanPeriod]
    /\ lag' = [lag EXCEPT ![h] = 0]
    /\ UNCHANGED <<up, starts, clock, members, net, losses>>

\* Variant: a pass that judges the peers and leaves the flags as they are.
DetectorScanNoElection(h) ==
    /\ lag[h] # Idle
    /\ members' = [members EXCEPT ![h] = MarkStates(@, lag[h])]
    /\ lag' = [lag EXCEPT ![h] = Idle]
    /\ UNCHANGED <<up, starts, clock, due, net, losses>>

\* ... and then gets the lock.
DetectorScan(h) ==
    /\ lag[h] # Idle
    /\ members' = [members EXCEPT ![h] = FailureScan(@, h, lag[h])]
    /\ lag' = [lag EXCEPT ![h] = Idle]
    /\ UNCHANGED <<up, starts, clock, due, net, losses>>

\* What listener_task makes of a frame.
Handled(f) ==
    LET m == members[f.dst]
    IN  CASE f.kind = "Heartbeat" -> HeardHeartbeat(m, f.src, f.inc, Udp(f.src))
          [] f.kind = "Announce"  -> HeardAnnounce(m, f.src, f.inc, Ctl(f.src))
          [] f.kind = "Gossip"    -> HeardGossip(m, f.dst, Udp(f.src), f.view)

\* A frame is received ...
Receive(f) ==
    /\ up[f.dst]
    /\ members' = [members EXCEPT ![f.dst] = Handled(f)]
    /\ net' = net \ {f}
    /\ UNCHANGED <<up, starts, clock, lag, due, losses>>

\* ... or a first copy of it, since heartbeats and announcements are sent
\* both by broadcast and by multicast.
ReceiveCopy(f) ==
    /\ up[f.dst]
    /\ f.kind # "Gossip"
    /\ members' = [members EXCEPT ![f.dst] = Handled(f)]
    /\ UNCHANGED <<up, starts, clock, lag, due, net, losses>>

\* The network loses a frame.
Lose(f) ==
    /\ up[f.dst]
    /\ losses < MaxLoss
    /\ net' = net \ {f}
    /\ losses' = losses + 1
    /\ UNCHANGED <<up, starts, clock, members, lag, due>>

\* A frame finds no daemon to receive it.
Vanish(f) ==
    /\ ~up[f.dst]
    /\ net' = net \ {f}
    /\ UNCHANGED <<up, starts, clock, members, lag, due, losses>>

Down(n) == IF n > 0 THEN n - 1 ELSE 0

Tick ==
    /\ \A f \in net : f.left > 0
    /\ \A h \in Subjects : up[h] => due[h].hb > 0
    /\ \A h \in Observers : up[h] => due[h].scan > 0 /\ due[h].gossip > 0
    /\ \A h \in Ids : lag[h] < MaxLag
    /\ members' = [h \in Ids |-> [i \in DOMAIN members[h] |->
                     [members[h][i] EXCEPT !.age = Older(@)]]]
    /\ lag' = [h \in Ids |-> IF lag[h] = Idle THEN Idle ELSE lag[h] + 1]
    /\ due' = [h \in Ids |-> [t \in DOMAIN due[h] |-> Down(due[h][t])]]
    /\ net' = {[f EXCEPT !.left = @ - 1] : f \in net}
    /\ UNCHANGED <<up, starts, clock, losses>>

Arrival == \E f \in net : Receive(f) \/ Lose(f) \/ Vanish(f)

\* What happens by itself: time, arrivals and the tasks of the daemons.
Work ==
    \/ \E h \in Subjects : Heartbeat(h)
    \/ \E h \in Observers : Gossip(h) \/ DetectorNow(h) \/ DetectorScan(h)
    \/ Arrival
    \/ Tick

Next ==
    \/ \E h \in Ids : Start(h) \/ Stop(h)
    \/ \E f \in net : ReceiveCopy(f)
    \/ Work

Spec == Init /\ [][Next]_vars

(***************************************************************************)
(* Time does not stop, and tokio runs the tasks whose timers have fired or *)
(* whose lock is free: one condition for all of them is enough, since Tick *)
(* waits for the others.  Nothing makes a host start or stop.              *)
(***************************************************************************)
Fairness == WF_vars(Work)

FairSpec == Spec /\ Fairness

-----------------------------------------------------------------------------
(***************************************************************************)
(* Invariants.                                                             *)
(***************************************************************************)

\* Every part of the state has its type, and a daemon that is down has none.
TypeOK ==
    /\ up \in [Ids -> BOOLEAN]
    /\ clock \in Clocks
    /\ \A h \in Ids : starts[h] \in 0 .. MaxStarts[h]
    /\ members = [h \in Ids |-> members[h]]
    /\ \A h \in Ids : IsTable(members[h])
    /\ lag \in [Ids -> Idle .. MaxLag]
    /\ due \in [Ids -> Timers]
    /\ net \subseteq Frame
    /\ losses \in 0 .. MaxLoss
    /\ \A h \in Ids : ~up[h] => members[h] = EmptyTable /\ lag[h] = Idle

\* The incarnations that tables and frames carry for a host.
Recorded(i) ==
    {members[h][i].inc : h \in {g \in Ids : i \in DOMAIN members[g]}}
      \cup {f.inc : f \in {g \in net : g.kind # "Gossip" /\ g.src = i}}
      \cup {f.view[i].inc : f \in {g \in net : g.kind = "Gossip" /\ i \in DOMAIN g.view}}

\* No table and no frame ever holds an incarnation that the host has not
\* yet had, however gossip is merged, repeated or reordered (main.rs:286-299),
\* also when the u32 start time has wrapped: otherwise a restarted host could
\* not win over the rumours about it.
IncarnationsOwned ==
    \A i \in Ids : Recorded(i) \subseteq {clock[k] : k \in 1 .. starts[i]}

CountedAlive(h, i) == i \in DOMAIN members[h] /\ members[h][i].state = "Alive"

\* The heartbeats of a running host reach the others before they suspect it.
TimelyHeartbeats == HbPeriod + MaxDelay <= SuspectAge /\ HbPeriod + MaxDelay <= DeadAge

\* As long as no frame is lost, a host that runs since its first start is
\* held Alive by all that list it: neither a slow or repeated frame, nor the
\* detector, nor gossip about it makes it suspect (main.rs:220-238, 295-299,
\* 329-340).
NoFalseSuspicion ==
    TimelyHeartbeats /\ losses = 0 =>
      \A h, i \in Ids :
        (up[i] /\ starts[i] = 1 /\ i \in DOMAIN members[h])
          => members[h][i].state = "Alive"

-----------------------------------------------------------------------------
(***************************************************************************)
(* Action properties and refinement.                                       *)
(***************************************************************************)

\* Some table or some frame says that i is Alive.
RumouredAlive(i) ==
    \/ \E h \in Ids : CountedAlive(h, i)
    \/ \E f \in net : \/ f.kind # "Gossip" /\ f.src = i
                      \/ f.kind = "Gossip" /\ i \in DOMAIN f.view
                           /\ f.view[i].state = "Alive"

\* Once nothing in the cluster says any more that a stopped host is Alive,
\* nothing says so again until it has been started: entries that gossip
\* inserts anew after a cleanup come back as they were (main.rs:286-298).
NoResurrection ==
    [][\A i \in Ids : (~RumouredAlive(i) /\ ~up[i] /\ ~up'[i]) => ~RumouredAlive(i)']_vars

\* Each daemon of the cluster behaves as the daemon of HivebusNode: what is
\* shown there for arbitrary frames holds of it.
Node(h) == INSTANCE HivebusNode
             WITH Self <- h, members <- members[h], lag <- lag[h]

EachIsNode ==
    /\ \A h \in Ids : Node(h)!Init
    /\ [][\A h \in Ids : [Node(h)!NextWithoutLeave]_<<members[h], lag[h]>>]_vars

-----------------------------------------------------------------------------
(***************************************************************************)
(* Liveness.                                                               *)
(***************************************************************************)

\* Between two daemons that go on running each counts the other as Alive
\* again and again, whatever was lost, delayed or said of an earlier life.
\* That it does so for ever cannot be claimed: a detector pass that waited
\* for the lock drops an entry that was refreshed meanwhile, until the next
\* heartbeat brings it back (main.rs:220-238, 321-327).
RunningFound ==
    \A i \in Subjects : \A h \in Ids \ {i} :
      <>[](up[h] /\ up[i]) => []<>CountedAlive(h, i)


\* A host that has stopped for good is in the end forgotten by the others
\* (main.rs:18 "Cleanup threshold  : 5 min", 309 "removes stale entries").
DeadForgotten ==
    \A i \in Subjects :
      <>[]~up[i] => <>[](\A h \in Ids \ {i} : i \notin DOMAIN members[h])
=============================================================================
