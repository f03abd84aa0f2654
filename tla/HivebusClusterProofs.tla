------------------------ MODULE HivebusClusterProofs ------------------------
(***************************************************************************)
(* Proofs about a cluster of hivebus daemons, for any number of hosts, any *)
(* periods and thresholds, any delays and losses.                          *)
(***************************************************************************)
EXTENDS HivebusCluster, MembershipProofs

(***************************************************************************)
(* The inductive invariant, in parts.  First the types, with what the      *)
(* tasks rely on: a running daemon has an incarnation, no table lists its  *)
(* own host, and no frame goes to its sender or tells of it.               *)
(***************************************************************************)
HostsOK ==
    /\ up \in [Ids -> BOOLEAN]
    /\ starts \in [Ids -> Nat]
    /\ \A h \in Ids : starts[h] <= MaxStarts[h]
    /\ \A h \in Ids : up[h] => starts[h] >= 1
    /\ clock \in Clocks

TimersOK ==
    /\ lag \in [Ids -> {Idle} \cup 0 .. MaxLag]
    /\ due \in [Ids -> Timers]
    /\ losses \in 0 .. MaxLoss

TablesOK ==
    /\ members = [h \in Ids |-> members[h]]
    /\ \A h \in Ids : /\ IsTable(members[h])
                      /\ DOMAIN members[h] \subseteq Subjects \ {h}
                      /\ ~up[h] => members[h] = EmptyTable /\ lag[h] = Idle

NetOK ==
    \A f \in net :
      /\ f \in Frame
      /\ f.src # f.dst
      /\ f.kind = "Gossip" => DOMAIN f.view # {} /\ f.src \notin DOMAIN f.view

Types == HostsOK /\ TimersOK /\ TablesOK /\ NetOK

-----------------------------------------------------------------------------
(***************************************************************************)
(* Facts about frames, incarnations and empty tables.                      *)
(***************************************************************************)

\* The fields of a frame.
LEMMA FrameFacts ==
    ASSUME NEW f \in Frame
    PROVE  /\ f.dst \in Ids /\ f.src \in Ids /\ f.left \in 0 .. MaxDelay
           /\ f.kind \in {"Heartbeat", "Announce", "Gossip"}
           /\ f.kind # "Gossip" => f.src \in Subjects /\ f.inc \in Incs
           /\ f.kind = "Gossip" => IsView(f.view) /\ DOMAIN f.view \subseteq Subjects
                                   /\ f.view \in [DOMAIN f.view -> GossipEntry]
  BY ClusterAssumption DEF Frame, Views, IsView

\* What heartbeat_task and announce send.
LEMMA DirectFrames ==
    ASSUME NEW kind \in {"Heartbeat", "Announce"}, NEW h \in Subjects,
           NEW inc \in Incs, NEW f \in Direct(kind, h, inc)
    PROVE  /\ f \in Frame
           /\ f.kind = kind /\ f.src = h /\ f.src # f.dst /\ f.inc = inc
           /\ f.left = MaxDelay
  BY ClusterAssumption DEF Direct, Others, Frame

\* What gossip_task sends.
LEMMA GossipFrames ==
    ASSUME NEW h \in Ids, NEW view \in Views, NEW f \in Gossiped(h, view)
    PROVE  /\ f \in Frame
           /\ f.kind = "Gossip" /\ f.src = h /\ f.src # f.dst /\ f.view = view
           /\ DOMAIN view # {}
  BY ClusterAssumption DEF Gossiped, Others, Frame

\* A running daemon's incarnation is one.
LEMMA IncarnationType ==
    ASSUME HostsOK, NEW h \in Ids, NEW k \in 1 .. starts[h]
    PROVE  clock[k] \in Incs
  <1>1. clock \in Seq(Incs) /\ MaxStarts[h] <= Len(clock) /\ MaxStarts[h] \in Nat
    BY ClusterAssumption DEF HostsOK
  <1>2. starts[h] \in Nat /\ starts[h] <= MaxStarts[h]
    BY DEF HostsOK
  <1>3. k \in 1 .. Len(clock)
    BY <1>1, <1>2
  <1> QED BY <1>1, <1>3

\* An empty table is a table.
LEMMA EmptyIsTable == IsTable(EmptyTable) /\ DOMAIN EmptyTable = {}
  BY DEF EmptyTable, IsTable

\* A gossip_task's view of a followed table.
LEMMA ViewOfTable ==
    ASSUME NEW m, IsTable(m), DOMAIN m \subseteq Subjects
    PROVE  /\ GossipView(m) \in Views
           /\ DOMAIN GossipView(m) = DOMAIN m
           /\ \A i \in DOMAIN m : /\ GossipView(m)[i].inc = m[i].inc
                                  /\ GossipView(m)[i].state = m[i].state
  <1>1. \A i \in DOMAIN m : [state |-> m[i].state, inc |-> m[i].inc] \in GossipEntry
    BY DEF IsTable, NodeInfo, GossipEntry
  <1>2. GossipView(m) \in [DOMAIN m -> GossipEntry]
    BY <1>1 DEF GossipView
  <1> QED BY <1>2 DEF GossipView, Views

-----------------------------------------------------------------------------
(***************************************************************************)
(* What listener_task makes of a frame.                                    *)
(***************************************************************************)

\* Incarnation and state of an entry come from the old entry, from a frame of
\* the peer itself or from gossip, each time together; its age is the old
\* one or zero, and a heartbeat makes it zero.
Origin(f, m, new, j) ==
    /\ \/ /\ j \in DOMAIN m
          /\ new[j].inc = m[j].inc /\ new[j].state = m[j].state
       \/ /\ f.kind # "Gossip" /\ j = f.src
          /\ new[j].inc = f.inc /\ new[j].state = "Alive"
       \/ /\ f.kind = "Gossip" /\ j \in DOMAIN f.view
          /\ new[j].inc = f.view[j].inc /\ new[j].state = f.view[j].state
    /\ new[j].age = 0 \/ (j \in DOMAIN m /\ new[j].age = m[j].age)
    /\ (f.kind = "Heartbeat" /\ j = f.src) => new[j].age = 0

\* A handler yields a table of followed peers with entries of these origins.
LEMMA HandledFacts ==
    ASSUME Types, NEW f \in net
    PROVE  /\ IsTable(Handled(f))
           /\ DOMAIN Handled(f) \subseteq Subjects \ {f.dst}
           /\ \A j \in DOMAIN Handled(f) : Origin(f, members[f.dst], Handled(f), j)
  <1> DEFINE m == members[f.dst]
             new == Handled(f)
  <1>1. /\ f.dst \in Ids /\ f.src \in Ids /\ f.src # f.dst
        /\ f.kind \in {"Heartbeat", "Announce", "Gossip"}
        /\ f.kind # "Gossip" => f.src \in Subjects /\ f.inc \in Incs
        /\ f.kind = "Gossip" => IsView(f.view) /\ DOMAIN f.view \subseteq Subjects
    BY FrameFacts DEF Types, NetOK
  <1>2. IsTable(m) /\ DOMAIN m \subseteq Subjects \ {f.dst}
    BY <1>1 DEF Types, TablesOK
  <1>3. Udp(f.src) \in Addrs /\ Ctl(f.src) \in Addrs
    BY <1>1, ClusterAssumption
  <1>4. CASE f.kind = "Heartbeat"
    <2>1. new = HeardHeartbeat(m, f.src, f.inc, Udp(f.src))
      BY <1>4 DEF Handled
    <2> HIDE DEF m, new
    <2>2. /\ IsTable(new) /\ DOMAIN new = DOMAIN m \cup {f.src}
          /\ \A j \in DOMAIN m : j # f.src => new[j] = m[j]
      <3>1. LET x == HeardHeartbeat(m, f.src, f.inc, Udp(f.src))
            IN  /\ IsTable(x)
                /\ DOMAIN x = DOMAIN m \cup {f.src}
                /\ \A j \in DOMAIN m : j # f.src => x[j] = m[j]
                /\ x[f.src].master => f.src \in DOMAIN m /\ m[f.src].master
        <4>1. f.src \in Ids /\ f.inc \in Incs /\ Udp(f.src) \in Addrs
          BY <1>1, <1>3, <1>4
        <4>2. IsTable(m)
          BY <1>2
        <4> QED BY <4>1, <4>2, HeartbeatIsTable, Zenon
      <3> QED BY <2>1, <3>1
    <2>3. new[f.src].inc = f.inc /\ new[f.src].state = "Alive" /\ new[f.src].age = 0
      BY <1>1, <1>2, <1>3, <1>4, <2>1, DirectEntry
    <2>4. \A j \in DOMAIN new : Origin(f, m, new, j)
      BY <1>4, <2>2, <2>3 DEF Origin
    <2> QED BY <1>1, <1>2, <1>4, <2>2, <2>4 DEF m, new
  <1>5. CASE f.kind = "Announce"
    <2>1. new = HeardAnnounce(m, f.src, f.inc, Ctl(f.src))
      BY <1>5 DEF Handled
    <2> HIDE DEF m, new
    <2>2. /\ IsTable(new) /\ DOMAIN new = DOMAIN m \cup {f.src}
          /\ \A j \in DOMAIN m : j # f.src => new[j] = m[j]
      <3>1. LET x == HeardAnnounce(m, f.src, f.inc, Ctl(f.src))
            IN  /\ IsTable(x)
                /\ DOMAIN x = DOMAIN m \cup {f.src}
                /\ \A j \in DOMAIN m : j # f.src => x[j] = m[j]
                /\ ~x[f.src].master
        <4>1. f.src \in Ids /\ f.inc \in Incs /\ Ctl(f.src) \in Addrs
          BY <1>1, <1>3, <1>5
        <4>2. IsTable(m)
          BY <1>2
        <4> QED BY <4>1, <4>2, AnnounceIsTable, Zenon
      <3> QED BY <2>1, <3>1
    <2>3. new[f.src].inc = f.inc /\ new[f.src].state = "Alive" /\ new[f.src].age = 0
      BY <1>1, <1>2, <1>3, <1>5, <2>1, DirectEntry
    <2>4. \A j \in DOMAIN new : Origin(f, m, new, j)
      BY <1>5, <2>2, <2>3 DEF Origin
    <2> QED BY <1>1, <1>2, <1>5, <2>2, <2>4 DEF m, new
  <1>6. CASE f.kind = "Gossip"
    <2>1. new = HeardGossip(m, f.dst, Udp(f.src), f.view)
      BY <1>6 DEF Handled
    <2> HIDE DEF m, new
    <2>2. /\ IsTable(new) /\ DOMAIN new = DOMAIN m \cup (DOMAIN f.view \ {f.dst})
          /\ KeptBy(m, new)
          /\ \A j \in DOMAIN new : FromTableOrView(m, f.view, f.dst, new, j)
      <3>1. LET x == HeardGossip(m, f.dst, Udp(f.src), f.view)
            IN  /\ IsTable(x) /\ DOMAIN x = DOMAIN m \cup (DOMAIN f.view \ {f.dst})
                /\ KeptBy(m, x)
                /\ \A j \in DOMAIN x : FromTableOrView(m, f.view, f.dst, x, j)
        <4>1. IsView(f.view) /\ Udp(f.src) \in Addrs
          BY <1>1, <1>3, <1>6
        <4>2. IsTable(m)
          BY <1>2
        <4> QED BY <4>1, <4>2, GossipIsTable, Zenon
      <3> QED BY <2>1, <3>1
    <2>3. \A j \in DOMAIN new : Origin(f, m, new, j)
      BY <1>6, <2>2 DEF Origin, FromTableOrView, KeptBy
    <2> QED BY <1>1, <1>2, <1>6, <2>2, <2>3 DEF m, new
  <1> QED BY <1>1, <1>4, <1>5, <1>6

\* Receiving a frame, or a first copy of it, keeps the tables.
LEMMA ReceiveTables ==
    ASSUME Types, NEW f \in net, UNCHANGED <<up, lag>>, up[f.dst],
           members' = [members EXCEPT ![f.dst] = Handled(f)]
    PROVE  TablesOK'
  <1>1. f.dst \in Ids
    BY FrameFacts DEF Types, NetOK
  <1>2. members' = [h \in Ids |-> IF h = f.dst THEN Handled(f) ELSE members[h]]
    BY <1>1 DEF Types, TablesOK
  <1> QED BY <1>1, <1>2, HandledFacts DEF Types, TablesOK

-----------------------------------------------------------------------------
(***************************************************************************)
(* The types are kept, action by action.                                   *)
(***************************************************************************)

\* The network still has only frames after some of them have left it.
LEMMA NetShrinks ==
    ASSUME NetOK, net' \subseteq net
    PROVE  NetOK'
  BY DEF NetOK

\* A host's start gives it the next incarnation.
LEMMA StartTypes ==
    ASSUME Types, NEW h \in Ids, Start(h)
    PROVE  Types'
  <1> USE DEF Types
  <1>1. HostsOK'
    <2>1. starts[h] \in Nat /\ MaxStarts[h] \in Nat /\ starts[h] < MaxStarts[h]
      BY ClusterAssumption DEF HostsOK, Start
    <2>2. starts' = [g \in Ids |-> IF g = h THEN starts[g] + 1 ELSE starts[g]]
      BY DEF HostsOK, Start
    <2>3. up' = [g \in Ids |-> IF g = h THEN TRUE ELSE up[g]]
      BY DEF HostsOK, Start
    <2> QED BY <2>1, <2>2, <2>3 DEF HostsOK, Start
  <1>2. TimersOK'
    BY ClusterAssumption DEF TimersOK, Start, AllDue, Timers
  <1>3. TablesOK'
    BY DEF TablesOK, HostsOK, Start
  <1>4. NetOK'
    <2>1. CASE h \in Subjects
      <3>1. starts'[h] = starts[h] + 1 /\ starts'[h] \in 1 .. starts'[h]
        BY DEF HostsOK, Start
      <3>2. clock' = clock /\ clock \in Clocks /\ starts'[h] <= MaxStarts[h]
        BY <1>1 DEF HostsOK, Start
      <3>3. clock[starts'[h]] \in Incs
        <4>1. clock \in Seq(Incs) /\ MaxStarts[h] <= Len(clock) /\ MaxStarts[h] \in Nat
          BY <3>2, ClusterAssumption
        <4>2. starts'[h] \in 1 .. Len(clock)
          BY <3>1, <3>2, <4>1 DEF HostsOK
        <4> QED BY <4>1, <4>2
      <3>4. net' = net \cup Direct("Announce", h, clock[starts'[h]])
        BY <2>1 DEF Start
      <3>5. \A f \in Direct("Announce", h, clock[starts'[h]]) :
              f \in Frame /\ f.src # f.dst /\ f.kind # "Gossip"
        BY <2>1, <3>3, DirectFrames
      <3> QED BY <3>4, <3>5 DEF NetOK
    <2>2. CASE h \notin Subjects
      BY <2>2, NetShrinks DEF Start
    <2> QED BY <2>1, <2>2
  <1> QED BY <1>1, <1>2, <1>3, <1>4

\* A stopped host keeps nothing.
LEMMA StopTypes ==
    ASSUME Types, NEW h \in Ids, Stop(h)
    PROVE  Types'
  <1> USE DEF Types
  <1>1. HostsOK'
    BY DEF HostsOK, Stop
  <1>2. TimersOK'
    <2>1. [AllDue EXCEPT !.start = RestartDelay] \in Timers
      BY ClusterAssumption DEF AllDue, Timers
    <2> QED BY <2>1 DEF TimersOK, Stop
  <1>3. TablesOK'
    <2>1. members' = [g \in Ids |-> IF g = h THEN EmptyTable ELSE members[g]]
      BY DEF TablesOK, Stop
    <2>2. lag' = [g \in Ids |-> IF g = h THEN Idle ELSE lag[g]]
      BY DEF TimersOK, Stop
    <2>3. up' = [g \in Ids |-> IF g = h THEN FALSE ELSE up[g]]
      BY DEF HostsOK, Stop
    <2> QED BY <2>1, <2>2, <2>3, EmptyIsTable DEF TablesOK
  <1>4. NetOK'
    BY NetShrinks DEF Stop
  <1> QED BY <1>1, <1>2, <1>3, <1>4

\* A timer that has fired is set to its period.
LEMMA TimerSet ==
    ASSUME TimersOK, NEW h \in Ids
    PROVE  /\ [due EXCEPT ![h].hb = HbPeriod] \in [Ids -> Timers]
           /\ [due EXCEPT ![h].gossip = GossipPeriod] \in [Ids -> Timers]
           /\ [due EXCEPT ![h].scan = ScanPeriod] \in [Ids -> Timers]
  <1>1. due[h] \in Timers
    BY DEF TimersOK
  <1>2. /\ [due[h] EXCEPT !.hb = HbPeriod] \in Timers
        /\ [due[h] EXCEPT !.gossip = GossipPeriod] \in Timers
        /\ [due[h] EXCEPT !.scan = ScanPeriod] \in Timers
    <2>1. HbPeriod \in 0 .. HbPeriod /\ GossipPeriod \in 0 .. GossipPeriod
            /\ ScanPeriod \in 0 .. ScanPeriod
      BY ClusterAssumption
    <2>2. ASSUME NEW d \in Timers
          PROVE  /\ [d EXCEPT !.hb = HbPeriod] \in Timers
                 /\ [d EXCEPT !.gossip = GossipPeriod] \in Timers
                 /\ [d EXCEPT !.scan = ScanPeriod] \in Timers
      BY <2>1 DEF Timers
    <2> QED BY <1>1, <2>2
  <1> QED BY <1>2 DEF TimersOK

\* The rounds of heartbeat_task send frames of the host's incarnation.
LEMMA HeartbeatTypes ==
    ASSUME Types, NEW h \in Subjects, Heartbeat(h)
    PROVE  Types'
  <1> USE DEF Types
  <1>1. h \in Ids
    BY ClusterAssumption
  <1>2. HostsOK' /\ TablesOK'
    BY DEF HostsOK, TablesOK, Heartbeat
  <1>3. TimersOK'
    BY <1>1, TimerSet DEF TimersOK, Heartbeat
  <1>4. clock[starts[h]] \in Incs
    <2>1. starts[h] \in 1 .. starts[h]
      BY <1>1 DEF HostsOK, Heartbeat
    <2> QED BY <1>1, <2>1, IncarnationType
  <1>5. \A f \in Direct("Heartbeat", h, clock[starts[h]]) :
          f \in Frame /\ f.src # f.dst /\ f.kind # "Gossip"
    BY <1>4, DirectFrames
  <1>6. NetOK'
    BY <1>5 DEF NetOK, Heartbeat
  <1> QED BY <1>2, <1>3, <1>6

\* The rounds of gossip_task send what the table lists.
LEMMA GossipTypes ==
    ASSUME Types, NEW h \in Ids, Gossip(h)
    PROVE  Types'
  <1> USE DEF Types
  <1>1. HostsOK' /\ TablesOK'
    BY DEF HostsOK, TablesOK, Gossip
  <1>2. TimersOK'
    BY TimerSet DEF TimersOK, Gossip
  <1> DEFINE view == GossipView(members[h])
  <1>3. IsTable(members[h]) /\ DOMAIN members[h] \subseteq Subjects \ {h}
    BY DEF TablesOK
  <1>4. view \in Views /\ DOMAIN view = DOMAIN members[h]
    BY <1>3, ViewOfTable
  <1>5. net' \subseteq net \cup Gossiped(h, view)
    BY DEF Gossip
  <1> HIDE DEF view
  <1>6. \A f \in Gossiped(h, view) :
          /\ f \in Frame /\ f.src # f.dst /\ f.src = h
          /\ f.view = view /\ DOMAIN view # {}
    BY <1>4, GossipFrames
  <1>7. NetOK'
    BY <1>3, <1>4, <1>5, <1>6 DEF NetOK
  <1> QED BY <1>1, <1>2, <1>7

\* The detector reads its clock.
LEMMA DetectorNowTypes ==
    ASSUME Types, NEW h \in Ids, DetectorNow(h)
    PROVE  Types'
  <1> USE DEF Types
  <1>1. HostsOK' /\ NetOK'
    BY DEF HostsOK, NetOK, DetectorNow
  <1>2. lag' = [g \in Ids |-> IF g = h THEN 0 ELSE lag[g]]
    BY DEF TimersOK, DetectorNow
  <1>3. TimersOK'
    <2>1. due' \in [Ids -> Timers]
      BY TimerSet DEF DetectorNow
    <2>2. lag' \in [Ids -> {Idle} \cup 0 .. MaxLag]
      BY <1>2, AgesAssumption DEF TimersOK
    <2> QED BY <2>1, <2>2 DEF TimersOK, DetectorNow
  <1>4. TablesOK'
    BY <1>2 DEF TablesOK, DetectorNow
  <1> QED BY <1>1, <1>3, <1>4

\* What a pass makes of a host's table.
LEMMA ScanFacts ==
    ASSUME Types, NEW h \in Ids, DetectorScan(h)
    PROVE  /\ members' = [g \in Ids |-> IF g = h THEN members'[h] ELSE members[g]]
           /\ IsTable(members'[h])
           /\ DOMAIN members'[h] \subseteq DOMAIN members[h]
           /\ \A i \in DOMAIN members'[h] :
                /\ members'[h][i].inc = members[h][i].inc
                /\ members'[h][i].age = members[h][i].age
                /\ members'[h][i].state = Judged(members[h][i], lag[h])
                /\ AgeAtNow(members[h][i], lag[h]) < CleanupAge
  <1>1. members' = [g \in Ids |->
                      IF g = h THEN FailureScan(members[h], h, lag[h]) ELSE members[g]]
    BY DEF Types, TablesOK, DetectorScan
  <1>2. members'[h] = FailureScan(members[h], h, lag[h])
    BY <1>1
  <1>3. IsTable(members[h])
    BY DEF Types, TablesOK
  <1> QED BY <1>1, <1>2, <1>3, FailureScanIsTable

\* The detector's pass.
LEMMA DetectorScanTypes ==
    ASSUME Types, NEW h \in Ids, DetectorScan(h)
    PROVE  Types'
  <1> USE DEF Types
  <1>1. HostsOK' /\ NetOK'
    BY DEF HostsOK, NetOK, DetectorScan
  <1>2. lag' = [g \in Ids |-> IF g = h THEN Idle ELSE lag[g]]
    BY DEF TimersOK, DetectorScan
  <1>3. TimersOK'
    BY <1>2 DEF TimersOK, DetectorScan
  <1>4. up[h] /\ up' = up
    BY DEF DetectorScan, TablesOK
  <1>5. TablesOK'
    <2> SUFFICES ASSUME NEW g \in Ids
                 PROVE  /\ IsTable(members'[g])
                        /\ DOMAIN members'[g] \subseteq Subjects \ {g}
                        /\ ~up'[g] => members'[g] = EmptyTable /\ lag'[g] = Idle
      BY ScanFacts DEF TablesOK
    <2>1. CASE g = h
      BY <1>4, <2>1, ScanFacts DEF TablesOK
    <2>2. CASE g # h
      <3>1. members'[g] = members[g]
        BY <2>2, ScanFacts
      <3> QED BY <1>2, <1>4, <2>2, <3>1 DEF TablesOK
    <2> QED BY <2>1, <2>2
  <1> QED BY <1>1, <1>3, <1>5

\* Arrivals, losses and frames that find nobody.
LEMMA ArrivalTypes ==
    ASSUME Types, NEW f \in net,
           Receive(f) \/ ReceiveCopy(f) \/ Lose(f) \/ Vanish(f)
    PROVE  Types'
  <1> USE DEF Types
  <1>1. HostsOK'
    BY DEF HostsOK, Receive, ReceiveCopy, Lose, Vanish
  <1>2. TimersOK'
    BY ClusterAssumption DEF TimersOK, Receive, ReceiveCopy, Lose, Vanish
  <1>3. NetOK'
    BY NetShrinks DEF Receive, ReceiveCopy, Lose, Vanish
  <1>4. TablesOK'
    <2>1. CASE Receive(f) \/ ReceiveCopy(f)
      BY <2>1, ReceiveTables DEF Receive, ReceiveCopy
    <2>2. CASE Lose(f) \/ Vanish(f)
      BY <2>2 DEF TablesOK, Lose, Vanish
    <2> QED BY <2>1, <2>2
  <1> QED BY <1>1, <1>2, <1>3, <1>4

\* The passing of time makes entries older and frames later.
LEMMA TickFrames ==
    ASSUME NetOK, Tick, NEW f \in net
    PROVE  LET new == [f EXCEPT !.left = @ - 1]
           IN  /\ new \in Frame
               /\ new.left = f.left - 1
               /\ new.kind = f.kind /\ new.src = f.src /\ new.dst = f.dst
               /\ f.kind # "Gossip" => new.inc = f.inc
               /\ f.kind = "Gossip" => new.view = f.view
  <1>1. f \in Frame /\ f.left > 0
    BY DEF NetOK, Tick
  <1>2. MaxDelay \in Nat
    BY ClusterAssumption
  <1>3. CASE f \in [kind : {"Heartbeat", "Announce"}, src : Subjects, dst : Ids,
                    inc : Incs, left : 0 .. MaxDelay]
    BY <1>1, <1>2, <1>3 DEF Frame
  <1>4. CASE f \in [kind : {"Gossip"}, src : Ids, dst : Ids, view : Views,
                    left : 0 .. MaxDelay]
    BY <1>1, <1>2, <1>4 DEF Frame
  <1> QED BY <1>1, <1>3, <1>4 DEF Frame

\* Timers run down to zero.
LEMMA TickTimers ==
    ASSUME TimersOK, Tick, NEW h \in Ids
    PROVE  due'[h] \in Timers /\ due'[h].hb = Down(due[h].hb)
  <1>1. due[h] \in Timers /\ DOMAIN due[h] = {"hb", "scan", "gossip", "start"}
    BY DEF TimersOK, Timers
  <1>2. due'[h] = [t \in {"hb", "scan", "gossip", "start"} |-> Down(due[h][t])]
    BY <1>1 DEF Tick
  <1>3. \A n \in Nat : \A d \in 0 .. n : Down(d) \in 0 .. n
    BY DEF Down
  <1>4. /\ due[h].hb \in 0 .. HbPeriod /\ due[h].scan \in 0 .. ScanPeriod
        /\ due[h].gossip \in 0 .. GossipPeriod /\ due[h].start \in 0 .. RestartDelay
    BY <1>1 DEF Timers
  <1>5. /\ Down(due[h].hb) \in 0 .. HbPeriod /\ Down(due[h].scan) \in 0 .. ScanPeriod
        /\ Down(due[h].gossip) \in 0 .. GossipPeriod
        /\ Down(due[h].start) \in 0 .. RestartDelay
    BY <1>3, <1>4, ClusterAssumption
  <1>6. due'[h] = [hb |-> Down(due[h].hb), scan |-> Down(due[h].scan),
                   gossip |-> Down(due[h].gossip), start |-> Down(due[h].start)]
    BY <1>2
  <1> QED BY <1>5, <1>6 DEF Timers

\* The tables that a tick leaves.
LEMMA TickTables ==
    ASSUME TablesOK, Tick, NEW h \in Ids
    PROVE  /\ IsTable(members'[h])
           /\ DOMAIN members'[h] = DOMAIN members[h]
           /\ \A i \in DOMAIN members[h] :
                /\ members'[h][i].inc = members[h][i].inc
                /\ members'[h][i].state = members[h][i].state
                /\ members'[h][i].age \in Int
                /\ members'[h][i].age <= members[h][i].age + 1
  <1> DEFINE m == members[h]
  <1>1. IsTable(m)
    BY DEF TablesOK
  <1>2. members'[h] = [i \in DOMAIN m |-> [m[i] EXCEPT !.age = Older(@)]]
    BY DEF Tick
  <1>3. \A i \in DOMAIN m : m[i] \in NodeInfo /\ m[i].age \in Int
    BY <1>1, AgesAssumption DEF IsTable, NodeInfo, MaxAge
  <1>4. \A i \in DOMAIN m : members'[h][i].age = Older(m[i].age)
    BY <1>2, <1>3 DEF NodeInfo
  <1>5. \A i \in DOMAIN m : Older(m[i].age) \in Int /\ Older(m[i].age) <= m[i].age + 1
    BY <1>3, AgesAssumption DEF Older, MaxAge
  <1> HIDE DEF m
  <1>6. LET new == [i \in DOMAIN m |-> [m[i] EXCEPT !.age = Older(@)]]
        IN  /\ IsTable(new)
            /\ DOMAIN new = DOMAIN m
            /\ \A i \in DOMAIN m :
                 /\ new[i].master = m[i].master
                 /\ new[i].inc = m[i].inc
                 /\ new[i].addr = m[i].addr
                 /\ new[i].state = m[i].state
                 /\ new[i].age >= m[i].age
    BY <1>1, OlderIsTable, Zenon
  <1> QED BY <1>2, <1>4, <1>5, <1>6 DEF m

\* Time passes.
LEMMA TickTypes ==
    ASSUME Types, Tick
    PROVE  Types'
  <1> USE DEF Types
  <1>1. HostsOK'
    BY DEF HostsOK, Tick
  <1>2. TimersOK'
    <2>1. lag' \in [Ids -> {Idle} \cup 0 .. MaxLag]
      <3>1. \A h \in Ids : lag[h] \in {Idle} \cup 0 .. MaxLag /\ lag[h] < MaxLag
        BY DEF TimersOK, Tick
      <3>2. \A h \in Ids : lag[h] # Idle => lag[h] + 1 \in 0 .. MaxLag
        BY <3>1, AgesAssumption
      <3> QED BY <3>2 DEF Tick
    <2>2. due' \in [Ids -> Timers]
      BY TickTimers DEF Tick
    <2> QED BY <2>1, <2>2 DEF TimersOK, Tick
  <1>3. TablesOK'
    <2>1. members' = [h \in Ids |-> members'[h]]
      BY DEF Tick
    <2> SUFFICES ASSUME NEW h \in Ids
                 PROVE  /\ IsTable(members'[h])
                        /\ DOMAIN members'[h] \subseteq Subjects \ {h}
                        /\ ~up'[h] => members'[h] = EmptyTable /\ lag'[h] = Idle
      BY <2>1 DEF TablesOK
    <2>2. ~up'[h] => members'[h] = EmptyTable /\ lag'[h] = Idle
      BY EmptyIsTable DEF TablesOK, Tick, EmptyTable
    <2> QED BY <2>2, TickTables DEF TablesOK
  <1>4. NetOK'
    <2> SUFFICES ASSUME NEW f \in net, NEW g, g = [f EXCEPT !.left = @ - 1]
                 PROVE  /\ g \in Frame
                        /\ g.src # g.dst
                        /\ g.kind = "Gossip" => DOMAIN g.view # {} /\ g.src \notin DOMAIN g.view
      BY DEF NetOK, Tick
    <2> QED BY TickFrames DEF NetOK
  <1> QED BY <1>1, <1>2, <1>3, <1>4

\* Every step keeps the types.
LEMMA NextTypes == Types /\ [Next]_vars => Types'
  <1> SUFFICES ASSUME Types, [Next]_vars PROVE Types'
    OBVIOUS
  <1>1. CASE UNCHANGED vars
    BY <1>1 DEF vars, Types, HostsOK, TimersOK, TablesOK, NetOK
  <1>2. CASE \E h \in Ids : Start(h) \/ Stop(h)
    BY <1>2, StartTypes, StopTypes
  <1>3. CASE \E f \in net : Receive(f) \/ ReceiveCopy(f) \/ Lose(f) \/ Vanish(f)
    BY <1>3, ArrivalTypes
  <1>4. CASE \E h \in Subjects : Heartbeat(h)
    BY <1>4, HeartbeatTypes
  <1>5. CASE \E h \in Observers : Gossip(h) \/ DetectorNow(h) \/ DetectorScan(h)
    BY <1>5, GossipTypes, DetectorNowTypes, DetectorScanTypes DEF Observers
  <1>6. CASE Tick
    BY <1>6, TickTypes
  <1> QED BY <1>1, <1>2, <1>3, <1>4, <1>5, <1>6 DEF Next, Work, Arrival

\* At the start no daemon runs and nothing is on the network.
LEMMA InitTypes == Init => Types
  <1> SUFFICES ASSUME Init PROVE Types
    OBVIOUS
  <1>1. HostsOK
    BY ClusterAssumption DEF Init, HostsOK
  <1>2. TimersOK
    BY ClusterAssumption DEF Init, TimersOK, AllDue, Timers
  <1>3. TablesOK /\ NetOK
    BY EmptyIsTable DEF Init, TablesOK, NetOK
  <1> QED BY <1>1, <1>2, <1>3 DEF Types

\* The types hold throughout.
LEMMA TypesHold == Spec => []Types
  BY InitTypes, NextTypes, PTL DEF Spec

\* Tables, timers and frames are well-formed in clusters of any size, under
\* any losses, delays and restarts, and a stopped daemon keeps nothing.
THEOREM TypeCorrect == Spec => []TypeOK
  <1>1. Types => TypeOK
    <2> SUFFICES ASSUME Types PROVE TypeOK
      OBVIOUS
    <2>1. \A h \in Ids : starts[h] \in 0 .. MaxStarts[h]
      BY ClusterAssumption DEF Types, HostsOK
    <2>2. lag \in [Ids -> Idle .. MaxLag]
      BY AgesAssumption DEF Types, TimersOK, Idle
    <2> QED BY <2>1, <2>2 DEF Types, HostsOK, TimersOK, TablesOK, NetOK, TypeOK
  <1> QED BY <1>1, TypesHold, PTL

-----------------------------------------------------------------------------
(***************************************************************************)
(* Where the entries and the frames after a step come from.                *)
(***************************************************************************)

\* Entry j of the table of h was there before, and is not Alive unless it was;
\* or it comes from a frame of j or from gossip about j.
EntryFrom(h, j) ==
    \/ /\ j \in DOMAIN members[h]
       /\ members'[h][j].inc = members[h][j].inc
       /\ members'[h][j].state = "Alive" => members[h][j].state = "Alive"
    \/ \E f \in net : /\ f.kind # "Gossip" /\ f.src = j
                      /\ members'[h][j].inc = f.inc
    \/ \E f \in net : /\ f.kind = "Gossip" /\ j \in DOMAIN f.view
                      /\ members'[h][j].inc = f.view[j].inc
                      /\ members'[h][j].state = f.view[j].state

\* Frame f says what g says.
Repeats(f, g) ==
    /\ f.kind = g.kind /\ f.src = g.src
    /\ f.kind # "Gossip" => f.inc = g.inc
    /\ f.kind = "Gossip" => f.view = g.view

\* Frame f was under way before, or a running host sends it about itself, or
\* it tells what a table lists.
FrameFrom(f) ==
    \/ \E g \in net : Repeats(f, g)
    \/ /\ f.kind # "Gossip" /\ f.src \in Ids /\ up'[f.src]
       /\ f.inc = clock[starts'[f.src]]
    \/ /\ f.kind = "Gossip"
       /\ \E h \in Ids : \A i \in DOMAIN f.view :
            /\ i \in DOMAIN members[h]
            /\ f.view[i].inc = members[h][i].inc
            /\ f.view[i].state = members[h][i].state

\* A pass of the detector makes no peer Alive.
LEMMA JudgedAlive ==
    ASSUME NEW info, NEW k, Judged(info, k) = "Alive"
    PROVE  info.state = "Alive"
  BY DEF Judged

\* Every entry comes from the table or from a frame.
LEMMA EntriesFrom ==
    ASSUME Types, [Next]_vars, NEW h \in Ids, NEW j \in DOMAIN members'[h]
    PROVE  EntryFrom(h, j)
  <1>1. CASE members'[h] = members[h]
    BY <1>1 DEF EntryFrom
  <1>2. CASE \E g \in Ids : Stop(g)
    <2>1. PICK g \in Ids : Stop(g)
      BY <1>2
    <2>2. CASE g = h
      <3>1. members'[h] = EmptyTable
        BY <2>1, <2>2 DEF Stop, Types, TablesOK
      <3> QED BY <3>1, EmptyIsTable
    <2>3. CASE g # h
      BY <1>1, <2>1, <2>3 DEF Stop, Types, TablesOK
    <2> QED BY <2>2, <2>3
  <1>3. CASE \E g \in Ids : DetectorScan(g)
    <2>1. PICK g \in Ids : DetectorScan(g)
      BY <1>3
    <2>2. CASE g = h
      <3>1. /\ j \in DOMAIN members[h]
            /\ members'[h][j].inc = members[h][j].inc
            /\ members'[h][j].state = Judged(members[h][j], lag[h])
        BY <2>1, <2>2, ScanFacts
      <3> QED BY <3>1, JudgedAlive DEF EntryFrom
    <2>3. CASE g # h
      BY <1>1, <2>1, <2>3, ScanFacts
    <2> QED BY <2>2, <2>3
  <1>4. CASE \E f \in net : Receive(f) \/ ReceiveCopy(f)
    <2>1. PICK f \in net : Receive(f) \/ ReceiveCopy(f)
      BY <1>4
    <2>2. f.dst \in Ids
      BY FrameFacts DEF Types, NetOK
    <2>3. members' = [g \in Ids |-> IF g = f.dst THEN Handled(f) ELSE members[g]]
      BY <2>1, <2>2 DEF Receive, ReceiveCopy, Types, TablesOK
    <2>4. CASE h = f.dst
      <3>1. members'[h] = Handled(f)
        BY <2>3, <2>4
      <3>2. Origin(f, members[h], members'[h], j)
        BY <2>4, <3>1, HandledFacts
      <3> QED BY <3>2 DEF Origin, EntryFrom
    <2>5. CASE h # f.dst
      BY <1>1, <2>3, <2>5
    <2> QED BY <2>4, <2>5
  <1>5. CASE Tick
    BY <1>5, TickTables DEF EntryFrom, Types
  <1>6. CASE members' = members
    BY <1>1, <1>6
  <1>7. CASE \E g \in Ids : Start(g)
    BY <1>6, <1>7 DEF Start
  <1>8. CASE \E g \in Ids : Heartbeat(g) \/ Gossip(g) \/ DetectorNow(g)
    BY <1>6, <1>8 DEF Heartbeat, Gossip, DetectorNow
  <1>9. CASE \E f \in net : Lose(f) \/ Vanish(f)
    BY <1>6, <1>9 DEF Lose, Vanish
  <1>10. Subjects \subseteq Ids /\ Observers \subseteq Ids
    BY ClusterAssumption DEF Observers
  <1> QED BY <1>2, <1>3, <1>4, <1>5, <1>6, <1>7, <1>8, <1>9, <1>10
          DEF Next, Work, Arrival, vars

\* Every frame was there, is its sender's own or tells of a table.
LEMMA FramesFrom ==
    ASSUME Types, [Next]_vars, NEW f \in net'
    PROVE  FrameFrom(f)
  <1>1. CASE f \in net
    BY <1>1 DEF FrameFrom, Repeats
  <1>2. CASE net' \subseteq net
    BY <1>1, <1>2
  <1>3. ASSUME NEW h \in Ids, Start(h)
        PROVE  FrameFrom(f)
    <2>1. CASE f \notin net
      <3>1. h \in Subjects /\ f \in Direct("Announce", h, clock[starts'[h]])
        BY <1>3, <2>1 DEF Start
      <3>2. f.kind = "Announce" /\ f.src = h /\ f.inc = clock[starts'[h]]
        BY <3>1 DEF Direct
      <3>3. up'[h]
        BY <1>3 DEF Start, Types, HostsOK
      <3> QED BY <3>2, <3>3 DEF FrameFrom
    <2> QED BY <1>1, <2>1
  <1>4. ASSUME NEW h \in Ids, Heartbeat(h)
        PROVE  FrameFrom(f)
    <2>1. CASE f \notin net
      <3>1. f \in Direct("Heartbeat", h, clock[starts[h]])
        BY <1>4, <2>1 DEF Heartbeat
      <3>2. f.kind = "Heartbeat" /\ f.src = h /\ f.inc = clock[starts[h]]
        BY <3>1 DEF Direct
      <3>3. up'[h] /\ starts'[h] = starts[h]
        BY <1>4 DEF Heartbeat
      <3> QED BY <3>2, <3>3 DEF FrameFrom
    <2> QED BY <1>1, <2>1
  <1>5. ASSUME NEW h \in Ids, Gossip(h)
        PROVE  FrameFrom(f)
    <2>1. CASE f \notin net
      <3>1. f \in Gossiped(h, GossipView(members[h]))
        BY <1>5, <2>1 DEF Gossip
      <3>2. f.kind = "Gossip" /\ f.view = GossipView(members[h])
        BY <3>1 DEF Gossiped
      <3>3. IsTable(members[h]) /\ DOMAIN members[h] \subseteq Subjects
        BY DEF Types, TablesOK
      <3> QED BY <3>2, <3>3, ViewOfTable DEF FrameFrom
    <2> QED BY <1>1, <2>1
  <1>6. CASE Tick
    <2>1. PICK g \in net : f = [g EXCEPT !.left = @ - 1]
      BY <1>6 DEF Tick
    <2> QED BY <1>6, <2>1, TickFrames DEF FrameFrom, Repeats, Types
  <1>7. CASE \E h \in Ids : Stop(h) \/ DetectorNow(h) \/ DetectorScan(h)
    BY <1>2, <1>7 DEF Stop, DetectorNow, DetectorScan
  <1>8. CASE \E g \in net : Receive(g) \/ ReceiveCopy(g) \/ Lose(g) \/ Vanish(g)
    BY <1>2, <1>8 DEF Receive, ReceiveCopy, Lose, Vanish
  <1>9. CASE UNCHANGED vars
    BY <1>2, <1>9 DEF vars
  <1>10. Subjects \subseteq Ids /\ Observers \subseteq Ids
    BY ClusterAssumption DEF Observers
  <1> QED BY <1>3, <1>4, <1>5, <1>6, <1>7, <1>8, <1>9, <1>10 DEF Next, Work, Arrival

\* Incarnations are given once and for all.
LEMMA StartsGrow ==
    ASSUME Types, [Next]_vars, NEW h \in Ids
    PROVE  starts'[h] \in Nat /\ starts'[h] >= starts[h] /\ clock' = clock
  <1>1. starts \in [Ids -> Nat]
    BY DEF Types, HostsOK
  <1>2. CASE UNCHANGED <<starts, clock>>
    BY <1>1, <1>2
  <1>3. ASSUME NEW g \in Ids, Start(g)
        PROVE  starts'[h] \in Nat /\ starts'[h] >= starts[h] /\ clock' = clock
    BY <1>1, <1>3 DEF Start
  <1>4. CASE \E g \in Ids : Stop(g) \/ Heartbeat(g) \/ Gossip(g)
                              \/ DetectorNow(g) \/ DetectorScan(g)
    BY <1>2, <1>4 DEF Stop, Heartbeat, Gossip, DetectorNow, DetectorScan
  <1>5. CASE \E f \in net : Receive(f) \/ ReceiveCopy(f) \/ Lose(f) \/ Vanish(f)
    BY <1>2, <1>5 DEF Receive, ReceiveCopy, Lose, Vanish
  <1>6. CASE Tick \/ UNCHANGED vars
    BY <1>2, <1>6 DEF Tick, vars
  <1>7. Subjects \subseteq Ids /\ Observers \subseteq Ids
    BY ClusterAssumption DEF Observers
  <1> QED BY <1>3, <1>4, <1>5, <1>6, <1>7 DEF Next, Work, Arrival

-----------------------------------------------------------------------------
(***************************************************************************)
(* Incarnations, and rumours about stopped hosts.                          *)
(***************************************************************************)

\* The incarnations a host has had.
Had(i) == {clock[k] : k \in 1 .. starts[i]}

\* What tables and frames say of a host is of an incarnation it has had.
Owned ==
    /\ \A h \in Ids : \A i \in DOMAIN members[h] : members[h][i].inc \in Had(i)
    /\ \A f \in net : f.kind # "Gossip" => f.inc \in Had(f.src)
    /\ \A f \in net : f.kind = "Gossip" =>
                        \A i \in DOMAIN f.view : f.view[i].inc \in Had(i)

\* A step takes no incarnation away.
LEMMA HadGrows ==
    ASSUME Types, [Next]_vars, NEW h \in Ids
    PROVE  Had(h) \subseteq Had(h)'
  <1>1. starts'[h] \in Nat /\ starts'[h] >= starts[h] /\ clock' = clock
    BY StartsGrow
  <1>2. starts[h] \in Nat
    BY DEF Types, HostsOK
  <1>3. 1 .. starts[h] \subseteq 1 .. starts'[h]
    BY <1>1, <1>2
  <1> QED BY <1>1, <1>3 DEF Had

\* Every step keeps the incarnations owned.
LEMMA NextOwned == Types /\ Types' /\ Owned /\ [Next]_vars => Owned'
  <1> SUFFICES ASSUME Types, Types', Owned, [Next]_vars PROVE Owned'
    OBVIOUS
  <1>1. ASSUME NEW h \in Ids, NEW i \in DOMAIN members'[h]
        PROVE  members'[h][i].inc \in Had(i)'
    <2>1. EntryFrom(h, i)
      BY <1>1, EntriesFrom
    <2>2. i \in Ids
      BY ClusterAssumption DEF Types, TablesOK
    <2>3. members'[h][i].inc \in Had(i)
      BY <2>1 DEF EntryFrom, Owned
    <2> QED BY <2>2, <2>3, HadGrows
  <1>2. ASSUME NEW f \in net', f.kind # "Gossip"
        PROVE  f.inc \in Had(f.src)'
    <2>1. FrameFrom(f)
      BY FramesFrom
    <2>2. f.src \in Ids
      BY FrameFacts DEF Types, NetOK
    <2>3. CASE \E g \in net : Repeats(f, g)
      <3>1. f.inc \in Had(f.src)
        BY <1>2, <2>3 DEF Repeats, Owned
      <3> QED BY <2>2, <3>1, HadGrows
    <2>4. CASE up'[f.src] /\ f.inc = clock[starts'[f.src]]
      <3>1. starts'[f.src] \in 1 .. starts'[f.src] /\ clock' = clock
        BY <2>2, <2>4, StartsGrow DEF Types, HostsOK
      <3> QED BY <2>4, <3>1 DEF Had
    <2> QED BY <1>2, <2>1, <2>3, <2>4 DEF FrameFrom
  <1>3. ASSUME NEW f \in net', f.kind = "Gossip", NEW i \in DOMAIN f.view
        PROVE  f.view[i].inc \in Had(i)'
    <2>1. FrameFrom(f)
      BY FramesFrom
    <2>2. i \in Ids
      BY <1>3, FrameFacts DEF Types, NetOK, IsView
    <2>3. f.view[i].inc \in Had(i)
      BY <1>3, <2>1 DEF FrameFrom, Repeats, Owned
    <2> QED BY <2>2, <2>3, HadGrows
  <1> QED BY <1>1, <1>2, <1>3 DEF Owned

\* Throughout, incarnations are owned.
LEMMA OwnedHolds == Spec => [](Types /\ Owned)
  <1>1. Init => Owned
    BY EmptyIsTable DEF Init, Owned
  <1> QED BY <1>1, InitTypes, NextTypes, NextOwned, PTL DEF Spec

\* No table and no frame holds an incarnation its host has not had, in any
\* cluster and whatever the clocks of the hosts yield at their starts, a
\* wrapped u32 included.
THEOREM IncarnationsAreOwned == Spec => []IncarnationsOwned
  <1>1. Types /\ Owned => IncarnationsOwned
    <2> SUFFICES ASSUME Types, Owned, NEW i \in Ids, NEW x \in Recorded(i)
                 PROVE  x \in Had(i)
      BY DEF IncarnationsOwned, Had
    <2>1. CASE x \in {members[h][i].inc : h \in {g \in Ids : i \in DOMAIN members[g]}}
      BY <2>1 DEF Owned
    <2>2. CASE x \in {f.inc : f \in {g \in net : g.kind # "Gossip" /\ g.src = i}}
      BY <2>2 DEF Owned
    <2>3. CASE x \in {f.view[i].inc :
                        f \in {g \in net : g.kind = "Gossip" /\ i \in DOMAIN g.view}}
      BY <2>3 DEF Owned
    <2> QED BY <2>1, <2>2, <2>3 DEF Recorded
  <1> QED BY <1>1, OwnedHolds, PTL

\* A rumour that a host that is not running is Alive is older than the step:
\* gossip copies what the tables say and the detector makes nobody Alive.
LEMMA RumoursAreOld ==
    ASSUME Types, Types', [Next]_vars, NEW i \in Ids, ~up'[i], RumouredAlive(i)'
    PROVE  RumouredAlive(i)
  <1>1. CASE \E h \in Ids : i \in DOMAIN members'[h] /\ members'[h][i].state = "Alive"
    <2>1. PICK h \in Ids : i \in DOMAIN members'[h] /\ members'[h][i].state = "Alive"
      BY <1>1
    <2>2. EntryFrom(h, i)
      BY <2>1, EntriesFrom
    <2> QED BY <2>1, <2>2 DEF EntryFrom, RumouredAlive, CountedAlive
  <1>2. CASE \E f \in net' : f.kind # "Gossip" /\ f.src = i
    <2>1. PICK f \in net' : f.kind # "Gossip" /\ f.src = i
      BY <1>2
    <2>2. FrameFrom(f)
      BY FramesFrom
    <2> QED BY <2>1, <2>2 DEF FrameFrom, Repeats, RumouredAlive
  <1>3. CASE \E f \in net' : f.kind = "Gossip" /\ i \in DOMAIN f.view
                               /\ f.view[i].state = "Alive"
    <2>1. PICK f \in net' : f.kind = "Gossip" /\ i \in DOMAIN f.view
                               /\ f.view[i].state = "Alive"
      BY <1>3
    <2>2. FrameFrom(f)
      BY FramesFrom
    <2> QED BY <2>1, <2>2 DEF FrameFrom, Repeats, RumouredAlive, CountedAlive
  <1> QED BY <1>1, <1>2, <1>3 DEF RumouredAlive, CountedAlive

\* Once the last word of a stopped host's being Alive is gone it stays gone
\* until the host starts, however long gossip keeps telling of it.
THEOREM DeadStayDead == Spec => NoResurrection
  <1>1. Types /\ Types' /\ [Next]_vars
          => [\A i \in Ids : (~RumouredAlive(i) /\ ~up[i] /\ ~up'[i])
                               => ~RumouredAlive(i)']_vars
    BY RumoursAreOld
  <1> QED BY <1>1, TypesHold, PTL DEF Spec, NoResurrection

-----------------------------------------------------------------------------
(***************************************************************************)
(* No false suspicion.  An entry of a host in its first life is Alive, and *)
(* never older than what the next heartbeat makes up for: either that is   *)
(* still to be sent, and then the age and the time until it is sent stay   *)
(* within a period, or one is under way, and then the age and the delay it *)
(* has left stay within a period and the longest delay.  Gossip about such *)
(* a host says nothing else, since it is copied from tables.               *)
(***************************************************************************)
FirstLife(i) == up[i] /\ starts[i] = 1

Awaited(h, i) ==
    \/ members[h][i].age + due[i].hb <= HbPeriod
    \/ \E f \in net : /\ f.kind = "Heartbeat" /\ f.src = i /\ f.dst = h
                      /\ members[h][i].age + f.left <= HbPeriod + MaxDelay

Trusted(h, i) ==
    i \in DOMAIN members[h] => members[h][i].state = "Alive" /\ Awaited(h, i)

WellSpokenOf(i) ==
    \A f \in net : (f.kind = "Gossip" /\ i \in DOMAIN f.view) => f.view[i].state = "Alive"

Timely ==
    TimelyHeartbeats /\ losses = 0 =>
      \A i \in Ids : FirstLife(i) => WellSpokenOf(i) /\ \A h \in Ids : Trusted(h, i)

\* What the types say of the numbers involved.
LEMMA Measures ==
    ASSUME Types, NEW h \in Ids, NEW i \in DOMAIN members[h]
    PROVE  /\ i \in Subjects /\ i \in Ids /\ i # h /\ up[h]
           /\ members[h][i].age \in Int
           /\ due[i].hb \in 0 .. HbPeriod
           /\ HbPeriod \in Nat /\ MaxDelay \in Nat
           /\ \A f \in net : f.left \in 0 .. MaxDelay
  <1>1. i \in Subjects /\ i \in Ids /\ i # h
    BY ClusterAssumption DEF Types, TablesOK
  <1>2. up[h]
    BY EmptyIsTable DEF Types, TablesOK
  <1>3. members[h][i].age \in Int
    <2>1. members[h][i] \in NodeInfo
      BY DEF Types, TablesOK, IsTable
    <2> QED BY <2>1, AgesAssumption DEF NodeInfo, MaxAge
  <1>4. due[i].hb \in 0 .. HbPeriod
    BY <1>1 DEF Types, TimersOK, Timers
  <1>5. \A f \in net : f.left \in 0 .. MaxDelay
    BY FrameFacts DEF Types, NetOK
  <1> QED BY <1>1, <1>2, <1>3, <1>4, <1>5, ClusterAssumption

\* An awaited entry is not old.
LEMMA AgeBound ==
    ASSUME Types, NEW h \in Ids, NEW i \in DOMAIN members[h], Awaited(h, i)
    PROVE  members[h][i].age <= HbPeriod + MaxDelay
  BY Measures DEF Awaited

\* A step that leaves the table, the timer and the heartbeats alone.
LEMMA StillTrusted ==
    ASSUME NEW h \in Ids, NEW i \in Ids, Trusted(h, i),
           members'[h] = members[h], due'[i].hb = due[i].hb,
           i \in DOMAIN members[h] =>
             \A f \in net : (f.kind = "Heartbeat" /\ f.src = i /\ f.dst = h) => f \in net'
    PROVE  Trusted(h, i)'
  BY DEF Trusted, Awaited

\* Other hosts' starts.
LEMMA StartTrusted ==
    ASSUME Types, NEW g \in Ids, Start(g), NEW i \in Ids, i # g,
           NEW h \in Ids, Trusted(h, i)
    PROVE  Trusted(h, i)'
  <1>1. due'[i] = due[i]
    BY DEF Start, Types, TimersOK
  <1>2. net \subseteq net' /\ members' = members
    BY DEF Start
  <1> QED BY <1>1, <1>2, StillTrusted

\* Other hosts' stops.
LEMMA StopTrusted ==
    ASSUME Types, NEW g \in Ids, Stop(g), NEW i \in Ids, i # g,
           NEW h \in Ids, Trusted(h, i)
    PROVE  Trusted(h, i)'
  <1>1. due'[i] = due[i]
    BY DEF Stop, Types, TimersOK
  <1>2. CASE h = g
    <2>1. members'[h] = EmptyTable
      BY <1>2 DEF Stop, Types, TablesOK
    <2> QED BY <2>1, EmptyIsTable DEF Trusted
  <1>3. CASE h # g
    <2>1. members'[h] = members[h]
      BY <1>3 DEF Stop, Types, TablesOK
    <2>2. \A f \in net : f.dst = h => f \in net'
      BY <1>3 DEF Stop
    <2> QED BY <1>1, <2>1, <2>2, StillTrusted
  <1> QED BY <1>2, <1>3

\* A heartbeat that is sent takes over from the timer.
LEMMA HeartbeatTrusted ==
    ASSUME Types, NEW g \in Ids, Heartbeat(g), NEW i \in Ids,
           NEW h \in Ids, Trusted(h, i)
    PROVE  Trusted(h, i)'
  <1>1. members' = members /\ net \subseteq net'
    BY DEF Heartbeat
  <1>2. CASE i # g
    <2>1. due'[i] = due[i]
      BY <1>2 DEF Heartbeat, Types, TimersOK
    <2> QED BY <1>1, <2>1, StillTrusted
  <1>3. CASE i = g /\ i \in DOMAIN members[h]
    <2>1. /\ h # i /\ members[h][i].age \in Int
          /\ HbPeriod \in Nat /\ MaxDelay \in Nat
      BY <1>3, Measures
    <2>2. CASE members[h][i].age + due[i].hb <= HbPeriod
      <3> DEFINE f == [kind |-> "Heartbeat", src |-> i, dst |-> h,
                       inc |-> clock[starts[i]], left |-> MaxDelay]
      <3>1. f \in net'
        BY <1>3, <2>1 DEF Heartbeat, Direct, Others
      <3>2. members[h][i].age + f.left <= HbPeriod + MaxDelay
        BY <1>3, <2>1, <2>2 DEF Heartbeat
      <3>3. f.kind = "Heartbeat" /\ f.src = i /\ f.dst = h
        OBVIOUS
      <3> HIDE DEF f
      <3> QED BY <1>1, <1>3, <3>1, <3>2, <3>3 DEF Trusted, Awaited
    <2>3. CASE \E f \in net : /\ f.kind = "Heartbeat" /\ f.src = i /\ f.dst = h
                              /\ members[h][i].age + f.left <= HbPeriod + MaxDelay
      BY <1>1, <1>3, <2>3 DEF Trusted, Awaited
    <2> QED BY <1>3, <2>2, <2>3 DEF Trusted, Awaited
  <1>4. CASE i \notin DOMAIN members[h]
    BY <1>1, <1>4 DEF Trusted
  <1> QED BY <1>2, <1>3, <1>4

\* Rounds of gossip_task and the detector's clock do not matter.
LEMMA OtherTasksTrusted ==
    ASSUME Types, NEW g \in Ids, Gossip(g) \/ DetectorNow(g), NEW i \in Ids,
           NEW h \in Ids, Trusted(h, i)
    PROVE  Trusted(h, i)'
  <1>1. members' = members /\ net \subseteq net'
    BY DEF Gossip, DetectorNow
  <1>2. due'[i].hb = due[i].hb
    <2>1. due[i] \in Timers /\ due[g] \in Timers
      BY DEF Types, TimersOK
    <2>2. CASE Gossip(g)
      BY <2>1, <2>2 DEF Gossip, Types, TimersOK, Timers
    <2>3. CASE DetectorNow(g)
      BY <2>1, <2>3 DEF DetectorNow, Types, TimersOK, Timers
    <2> QED BY <2>2, <2>3
  <1> QED BY <1>1, <1>2, StillTrusted

\* A pass of the detector finds the entry young, or drops it because it was
\* written after the pass had read the clock.
LEMMA ScanTrusted ==
    ASSUME Types, TimelyHeartbeats, NEW g \in Ids, DetectorScan(g), NEW i \in Ids,
           NEW h \in Ids, Trusted(h, i)
    PROVE  Trusted(h, i)'
  <1>1. due' = due /\ net' = net
    BY DEF DetectorScan
  <1>2. CASE h # g
    <2>1. members'[h] = members[h]
      BY <1>2, ScanFacts
    <2> QED BY <1>1, <2>1, StillTrusted
  <1>3. CASE h = g
    <2> SUFFICES ASSUME i \in DOMAIN members'[h]
                 PROVE  members'[h][i].state = "Alive" /\ Awaited(h, i)'
      BY DEF Trusted
    <2>1. /\ i \in DOMAIN members[h]
          /\ members'[h][i].age = members[h][i].age
          /\ members'[h][i].state = Judged(members[h][i], lag[h])
          /\ AgeAtNow(members[h][i], lag[h]) < CleanupAge
      BY <1>3, ScanFacts
    <2>2. members[h][i].state = "Alive" /\ Awaited(h, i)
      BY <2>1 DEF Trusted
    <2>3. members[h][i].age \in Int /\ members[h][i].age <= HbPeriod + MaxDelay
      BY <2>1, <2>2, Measures, AgeBound
    <2>4. lag[h] \in 0 .. MaxLag
      BY <1>3 DEF Types, TimersOK, DetectorScan
    <2>5. AgeAtNow(members[h][i], lag[h]) = members[h][i].age - lag[h]
      BY <2>1, <2>3, <2>4, AgesAssumption DEF AgeAtNow, MaxAge
    <2>6. /\ ~(AgeAtNow(members[h][i], lag[h]) > DeadAge)
          /\ ~(AgeAtNow(members[h][i], lag[h]) > SuspectAge)
      BY <2>3, <2>4, <2>5, AgesAssumption, ClusterAssumption DEF TimelyHeartbeats
    <2>7. members'[h][i].state = "Alive"
      BY <2>1, <2>2, <2>6 DEF Judged
    <2> QED BY <1>1, <2>1, <2>2, <2>7 DEF Awaited
  <1> QED BY <1>2, <1>3

\* A frame that arrives says Alive; one that resets the age restarts the wait,
\* and the heartbeat that is waited for resets it.
LEMMA ReceiveTrusted ==
    ASSUME Types, NEW f \in net, Receive(f) \/ ReceiveCopy(f), NEW i \in Ids,
           WellSpokenOf(i), NEW h \in Ids, Trusted(h, i)
    PROVE  Trusted(h, i)'
  <1>1. f.dst \in Ids
    BY FrameFacts DEF Types, NetOK
  <1>2. members' = [g \in Ids |-> IF g = f.dst THEN Handled(f) ELSE members[g]]
    BY <1>1 DEF Receive, ReceiveCopy, Types, TablesOK
  <1>3. due' = due /\ net \ {f} \subseteq net'
    BY DEF Receive, ReceiveCopy
  <1>4. CASE h # f.dst
    BY <1>2, <1>3, <1>4, StillTrusted
  <1>5. CASE h = f.dst
    <2> SUFFICES ASSUME i \in DOMAIN members'[h]
                 PROVE  members'[h][i].state = "Alive" /\ Awaited(h, i)'
      BY DEF Trusted
    <2>1. members'[h] = Handled(f)
      BY <1>2, <1>5
    <2>2. Origin(f, members[h], members'[h], i) /\ i \in Subjects
      BY <1>5, <2>1, HandledFacts
    <2>3. members'[h][i].state = "Alive"
      BY <2>2 DEF Origin, Trusted, WellSpokenOf
    <2>4. CASE members'[h][i].age = 0
      <3>1. due[i].hb \in 0 .. HbPeriod /\ HbPeriod \in Nat
        BY ClusterAssumption DEF Types, TimersOK, Timers
      <3> QED BY <1>3, <2>3, <2>4, <3>1 DEF Awaited
    <2>5. CASE /\ i \in DOMAIN members[h] /\ members'[h][i].age = members[h][i].age
               /\ ~(f.kind = "Heartbeat" /\ i = f.src)
      <3>1. Awaited(h, i)
        BY <2>5 DEF Trusted
      <3>2. Awaited(h, i)'
        BY <1>3, <2>5, <3>1 DEF Awaited
      <3> QED BY <2>3, <3>2
    <2> QED BY <2>2, <2>4, <2>5 DEF Origin
  <1> QED BY <1>4, <1>5

\* A frame for a host that does not run is nobody's heartbeat.
LEMMA VanishTrusted ==
    ASSUME Types, NEW f \in net, Vanish(f), NEW i \in Ids,
           NEW h \in Ids, Trusted(h, i)
    PROVE  Trusted(h, i)'
  <1>1. i \in DOMAIN members[h] => h # f.dst
    BY Measures DEF Vanish
  <1>2. members' = members /\ due' = due /\ net' = net \ {f}
    BY DEF Vanish
  <1> QED BY <1>1, <1>2, StillTrusted

\* Time takes from the wait what it adds to the age.
LEMMA TickTrusted ==
    ASSUME Types, Tick, NEW i \in Ids, FirstLife(i), NEW h \in Ids, Trusted(h, i)
    PROVE  Trusted(h, i)'
  <1> SUFFICES ASSUME i \in DOMAIN members'[h]
               PROVE  members'[h][i].state = "Alive" /\ Awaited(h, i)'
    BY DEF Trusted
  <1>1. /\ i \in DOMAIN members[h]
        /\ members'[h][i].state = members[h][i].state
        /\ members'[h][i].age \in Int
        /\ members'[h][i].age <= members[h][i].age + 1
    BY TickTables DEF Types
  <1>2. members[h][i].state = "Alive" /\ Awaited(h, i)
    BY <1>1 DEF Trusted
  <1>3. /\ i \in Subjects /\ members[h][i].age \in Int
        /\ due[i].hb \in 0 .. HbPeriod /\ HbPeriod \in Nat /\ MaxDelay \in Nat
        /\ \A f \in net : f.left \in 0 .. MaxDelay
    BY <1>1, Measures
  <1>4. CASE members[h][i].age + due[i].hb <= HbPeriod
    <2>1. due[i].hb > 0
      BY <1>3 DEF Tick, FirstLife
    <2>2. due'[i].hb = due[i].hb - 1
      BY <1>3, <2>1, TickTimers DEF Types, Down
    <2>3. members'[h][i].age + due'[i].hb <= HbPeriod
      BY <1>1, <1>3, <1>4, <2>2
    <2> QED BY <1>1, <1>2, <2>3 DEF Awaited
  <1>5. CASE \E f \in net : /\ f.kind = "Heartbeat" /\ f.src = i /\ f.dst = h
                            /\ members[h][i].age + f.left <= HbPeriod + MaxDelay
    <2>1. PICK f \in net : /\ f.kind = "Heartbeat" /\ f.src = i /\ f.dst = h
                           /\ members[h][i].age + f.left <= HbPeriod + MaxDelay
      BY <1>5
    <2> DEFINE g == [f EXCEPT !.left = @ - 1]
    <2>2. /\ g.kind = "Heartbeat" /\ g.src = i /\ g.dst = h /\ g.left = f.left - 1
      BY <2>1, TickFrames DEF Types
    <2>3. g \in net'
      BY DEF Tick
    <2> HIDE DEF g
    <2>4. members'[h][i].age + g.left <= HbPeriod + MaxDelay
      BY <1>1, <1>3, <2>1, <2>2
    <2> QED BY <1>1, <1>2, <2>2, <2>3, <2>4 DEF Awaited
  <1> QED BY <1>2, <1>4, <1>5 DEF Awaited

\* Of a host that has never started nothing is known after a step.
LEMMA Unheard ==
    ASSUME Types, Owned, [Next]_vars, NEW i \in Ids, starts[i] = 0
    PROVE  /\ \A h \in Ids : i \notin DOMAIN members'[h]
           /\ \A f \in net' : f.kind = "Gossip" => i \notin DOMAIN f.view
  <1>1. Had(i) = {}
    BY DEF Had
  <1>2. /\ \A h \in Ids : i \notin DOMAIN members[h]
        /\ \A f \in net : f.kind # "Gossip" => f.src # i
        /\ \A f \in net : f.kind = "Gossip" => i \notin DOMAIN f.view
    BY <1>1 DEF Owned
  <1>3. \A h \in Ids : i \notin DOMAIN members'[h]
    BY <1>2, EntriesFrom DEF EntryFrom
  <1>4. \A f \in net' : f.kind = "Gossip" => i \notin DOMAIN f.view
    BY <1>2, FramesFrom DEF FrameFrom, Repeats
  <1> QED BY <1>3, <1>4

\* A host in its first life was in it before the step, or had never started;
\* it has not stopped, and no frame was lost if none is lost now.
LEMMA LivesOn ==
    ASSUME Types, [Next]_vars, NEW i \in Ids, FirstLife(i)', losses' = 0
    PROVE  /\ losses = 0
           /\ starts[i] = 0 \/ (FirstLife(i) /\ ~Start(i) /\ ~Stop(i))
           /\ \A f \in net : ~Lose(f)
  <1>1. losses = 0 /\ \A f \in net : ~Lose(f)
    <2>1. \A f \in net : ~Lose(f)
      BY DEF Lose, Types, TimersOK
    <2>2. losses' = losses \/ \E f \in net : Lose(f)
      BY DEF Next, Work, Arrival, vars, Start, Stop, Heartbeat, Gossip, DetectorNow,
             DetectorScan, Receive, ReceiveCopy, Vanish, Tick
    <2> QED BY <2>1, <2>2
  <1>2. ~Stop(i)
    BY DEF Stop, FirstLife, Types, HostsOK
  <1>3. CASE Start(i)
    <2>1. starts[i] \in Nat /\ starts'[i] = starts[i] + 1 /\ starts'[i] = 1
      BY <1>3 DEF Start, FirstLife, Types, HostsOK
    <2> QED BY <1>1, <2>1
  <1>4. CASE ~Start(i)
    <2>1. ASSUME NEW g \in Ids, Start(g) \/ Stop(g)
          PROVE  FirstLife(i)
      <3>1. g # i
        BY <1>2, <1>4, <2>1
      <3> QED BY <2>1, <3>1 DEF Start, Stop, FirstLife, Types, HostsOK
    <2>2. UNCHANGED <<up, starts>> => FirstLife(i)
      BY DEF FirstLife
    <2>3. (\E g \in Ids : Start(g) \/ Stop(g)) \/ UNCHANGED <<up, starts>>
      BY DEF Next, Work, Arrival, vars, Heartbeat, Gossip, DetectorNow,
             DetectorScan, Receive, ReceiveCopy, Lose, Vanish, Tick
    <2> QED BY <1>1, <1>2, <1>4, <2>1, <2>2, <2>3
  <1> QED BY <1>1, <1>2, <1>3, <1>4

\* Every step keeps hosts in their first life trusted.
LEMMA NextTimely == Types /\ Owned /\ Timely /\ [Next]_vars => Timely'
  <1> SUFFICES ASSUME Types, Owned, Timely, [Next]_vars, TimelyHeartbeats, losses' = 0,
                      NEW i \in Ids, FirstLife(i)'
               PROVE  WellSpokenOf(i)' /\ \A h \in Ids : Trusted(h, i)'
    BY DEF Timely, TimelyHeartbeats
  <1>1. CASE starts[i] = 0
    BY <1>1, Unheard DEF WellSpokenOf, Trusted
  <1>2. CASE FirstLife(i) /\ ~Start(i) /\ ~Stop(i) /\ losses = 0 /\ \A f \in net : ~Lose(f)
    <2>1. WellSpokenOf(i) /\ \A h \in Ids : Trusted(h, i)
      BY <1>2 DEF Timely
    <2>2. WellSpokenOf(i)'
      BY <2>1, FramesFrom DEF FrameFrom, Repeats, WellSpokenOf, Trusted
    <2>3. ASSUME NEW h \in Ids PROVE Trusted(h, i)'
      <3>1. Trusted(h, i)
        BY <2>1
      <3>2. CASE UNCHANGED vars
        BY <3>1, <3>2 DEF vars, Trusted, Awaited
      <3>3. CASE \E g \in Ids : Start(g) \/ Stop(g)
        BY <1>2, <3>1, <3>3, StartTrusted, StopTrusted
      <3>4. CASE \E g \in Ids : Heartbeat(g) \/ Gossip(g) \/ DetectorNow(g) \/ DetectorScan(g)
        BY <3>1, <3>4, HeartbeatTrusted, OtherTasksTrusted, ScanTrusted
      <3>5. CASE \E f \in net : Receive(f) \/ ReceiveCopy(f) \/ Vanish(f)
        BY <2>1, <3>1, <3>5, ReceiveTrusted, VanishTrusted
      <3>6. CASE Tick
        BY <1>2, <3>1, <3>6, TickTrusted
      <3>7. Subjects \subseteq Ids /\ Observers \subseteq Ids
        BY ClusterAssumption DEF Observers
      <3> QED BY <1>2, <3>2, <3>3, <3>4, <3>5, <3>6, <3>7 DEF Next, Work, Arrival
    <2> QED BY <2>2, <2>3
  <1> QED BY <1>1, <1>2, LivesOn

\* As long as no frame is lost, and heartbeats are timely, no detector and no
\* gossip makes a host suspect that runs since its first start, in clusters
\* of any size and however frames are delayed, repeated and reordered.
THEOREM HeartbeatsSuffice == Spec => []NoFalseSuspicion
  <1>1. Init => Timely
    BY DEF Init, Timely, FirstLife
  <1>2. Spec => []Timely
    BY <1>1, NextTimely, OwnedHolds, PTL DEF Spec
  <1>3. Types /\ Timely => NoFalseSuspicion
    BY DEF Timely, Trusted, FirstLife, NoFalseSuspicion
  <1> QED BY <1>2, <1>3, TypesHold, PTL

-----------------------------------------------------------------------------
(***************************************************************************)
(* Each daemon of the cluster is a daemon of HivebusNode.                  *)
(***************************************************************************)

\* A step of the cluster as the daemon of h sees it.
NodeStep(h) == [Node(h)!NextWithoutLeave]_<<members[h], lag[h]>>

\* HivebusNode works on tables with the same operations.
LEMMA SameListener ==
    ASSUME NEW h, NEW m, NEW self, NEW nid, NEW inc, NEW a, NEW view
    PROVE  /\ Node(h)!HeardHeartbeat(m, nid, inc, a) = HeardHeartbeat(m, nid, inc, a)
           /\ Node(h)!HeardAnnounce(m, nid, inc, a) = HeardAnnounce(m, nid, inc, a)
           /\ Node(h)!HeardGossip(m, self, a, view) = HeardGossip(m, self, a, view)
           /\ Node(h)!GossipEntry = GossipEntry
  <1>1. Node(h)!HeardHeartbeat(m, nid, inc, a) = HeardHeartbeat(m, nid, inc, a)
    BY DEF HeardHeartbeat, Put, Refreshed, EntryOr, NewPeer, Node!HeardHeartbeat, Node!Put,
           Node!Refreshed, Node!EntryOr, Node!NewPeer
  <1>2. Node(h)!HeardAnnounce(m, nid, inc, a) = HeardAnnounce(m, nid, inc, a)
    BY DEF HeardAnnounce, Put, NewPeer, Node!HeardAnnounce, Node!Put, Node!NewPeer
  <1>3. Node(h)!HeardGossip(m, self, a, view) = HeardGossip(m, self, a, view)
    BY DEF HeardGossip, Merge, EntryOr, NewPeer, Node!HeardGossip, Node!Merge,
           Node!EntryOr, Node!NewPeer
  <1>4. Node(h)!GossipEntry = GossipEntry
    BY DEF GossipEntry, NodeState, Node!GossipEntry, Node!NodeState
  <1> QED BY <1>1, <1>2, <1>3, <1>4

\* So does its detector.
LEMMA SameDetector ==
    ASSUME NEW h, NEW m, NEW self, NEW k
    PROVE  /\ Node(h)!FailureScan(m, self, k) = FailureScan(m, self, k)
           /\ Node(h)!Idle = Idle
           /\ Node(h)!EmptyTable = EmptyTable
  <1>1. Node(h)!MarkStates(m, k) = MarkStates(m, k)
    BY DEF MarkStates, Judged, Retained, AgeAtNow, MaxAge, Node!MarkStates, Node!Judged,
           Node!Retained, Node!AgeAtNow, Node!MaxAge
  <1>2. \A t : Node(h)!MarkMaster(t, self) = MarkMaster(t, self)
    BY DEF MarkMaster, MasterFrom, AliveIds, Node!MarkMaster, Node!MasterFrom, Node!AliveIds
  <1>3. Node(h)!FailureScan(m, self, k) = FailureScan(m, self, k)
    BY <1>1, <1>2 DEF FailureScan, Node!FailureScan
  <1>4. Node(h)!Idle = Idle /\ Node(h)!EmptyTable = EmptyTable
    BY DEF Idle, EmptyTable, Node!Idle, Node!EmptyTable
  <1> QED BY <1>3, <1>4

\* The frames that arrive are frames that HivebusNode allows.
LEMMA ReceiveIsListen ==
    ASSUME Types, NEW f \in net, Receive(f) \/ ReceiveCopy(f)
    PROVE  Node(f.dst)!Listen
  <1>1. /\ f.dst \in Ids /\ f.src \in Ids /\ f.src # f.dst
        /\ f.kind \in {"Heartbeat", "Announce", "Gossip"}
        /\ f.kind # "Gossip" => f.inc \in Incs
        /\ f.kind = "Gossip" => /\ DOMAIN f.view \subseteq Ids \ {f.src} /\ DOMAIN f.view # {}
                                /\ f.view \in [DOMAIN f.view -> GossipEntry]
    BY FrameFacts DEF Types, NetOK, IsView
  <1>2. Udp(f.src) \in Addrs /\ Ctl(f.src) \in Addrs
    BY <1>1, ClusterAssumption
  <1>3. members'[f.dst] = Handled(f) /\ lag'[f.dst] = lag[f.dst]
    BY <1>1 DEF Receive, ReceiveCopy, Types, TablesOK
  <1>4. f.src \in Node(f.dst)!Peers
    BY <1>1 DEF Node!Peers
  <1>5. CASE f.kind = "Heartbeat"
    BY <1>1, <1>2, <1>3, <1>4, <1>5, SameListener DEF Handled, Node!Listen, Node!RecvHeartbeat
  <1>6. CASE f.kind = "Announce"
    <2>1. Node(f.dst)!RecvAnnounce(f.src, f.inc, Ctl(f.src))
      BY <1>3, <1>6, SameListener DEF Handled, Node!RecvAnnounce
    <2>2. f.inc \in Incs
      BY <1>1, <1>6
    <2> QED BY <1>2, <1>4, <2>1, <2>2 DEF Node!Listen
  <1>7. CASE f.kind = "Gossip"
    <2>1. f.view \in Node(f.dst)!ViewsOf(f.src)
      BY <1>1, <1>7, SameListener DEF Node!ViewsOf
    <2>2. Node(f.dst)!RecvGossip(f.src, Udp(f.src), f.view)
      BY <1>3, <1>7, SameListener DEF Handled, Node!RecvGossip
    <2> QED BY <1>2, <1>4, <2>1, <2>2 DEF Node!Listen
  <1> QED BY <1>1, <1>5, <1>6, <1>7

\* A step of the cluster is for each daemon one of its own, or none.
LEMMA EachStep ==
    ASSUME Types, [Next]_vars, NEW h \in Ids
    PROVE  NodeStep(h)
  <1> DEFINE Quiet == members'[h] = members[h] /\ lag'[h] = lag[h]
  <1>1. CASE Quiet
    BY <1>1 DEF NodeStep
  <1>2. CASE Node(h)!NextWithoutLeave
    BY <1>2 DEF NodeStep
  <1>3. ASSUME NEW g \in Ids, Stop(g) PROVE NodeStep(h)
    <2>1. CASE g = h
      <3>1. members'[h] = EmptyTable /\ lag'[h] = Idle
        BY <1>3, <2>1 DEF Stop, Types, TablesOK, TimersOK
      <3>2. Node(h)!Restart
        BY <3>1, SameDetector DEF Node!Restart
      <3> QED BY <1>2, <3>2 DEF Node!NextWithoutLeave
    <2>2. CASE g # h
      BY <1>1, <1>3, <2>2 DEF Stop, Types, TablesOK, TimersOK
    <2> QED BY <2>1, <2>2
  <1>4. ASSUME NEW g \in Ids, DetectorNow(g) PROVE NodeStep(h)
    <2>1. CASE g = h
      <3>1. members'[h] = members[h] /\ lag[h] = Idle /\ lag'[h] = 0
        BY <1>4, <2>1 DEF DetectorNow, Types, TimersOK
      <3>2. Node(h)!DetectorNow
        BY <3>1, SameDetector DEF Node!DetectorNow
      <3> QED BY <1>2, <3>2 DEF Node!NextWithoutLeave
    <2>2. CASE g # h
      BY <1>1, <1>4, <2>2 DEF DetectorNow, Types, TimersOK
    <2> QED BY <2>1, <2>2
  <1>5. ASSUME NEW g \in Ids, DetectorScan(g) PROVE NodeStep(h)
    <2>1. CASE g = h
      <3>1. /\ members'[h] = FailureScan(members[h], h, lag[h])
            /\ lag[h] # Idle /\ lag'[h] = Idle
        BY <1>5, <2>1 DEF DetectorScan, Types, TablesOK, TimersOK
      <3>2. Node(h)!DetectorScan
        BY <3>1, SameDetector DEF Node!DetectorScan
      <3> QED BY <1>2, <3>2 DEF Node!NextWithoutLeave
    <2>2. CASE g # h
      BY <1>1, <1>5, <2>2 DEF DetectorScan, Types, TablesOK, TimersOK
    <2> QED BY <2>1, <2>2
  <1>6. ASSUME NEW f \in net, Receive(f) \/ ReceiveCopy(f) PROVE NodeStep(h)
    <2>1. CASE f.dst = h
      <3>1. Node(h)!Listen
        BY <1>6, <2>1, ReceiveIsListen
      <3> QED BY <1>2, <3>1 DEF Node!NextWithoutLeave
    <2>2. CASE f.dst # h
      BY <1>1, <1>6, <2>2 DEF Receive, ReceiveCopy, Types, TablesOK
    <2> QED BY <2>1, <2>2
  <1>7. CASE Tick
    <2>1. /\ lag[h] < MaxLag
          /\ lag'[h] = IF lag[h] = Idle THEN Idle ELSE lag[h] + 1
          /\ members'[h] = [i \in DOMAIN members[h] |->
                              [members[h][i] EXCEPT !.age = Older(@)]]
      BY <1>7 DEF Tick
    <2>2. Node(h)!Tick
      BY <2>1 DEF Node!Tick, Older, MaxAge, Idle, Node!Older, Node!MaxAge, Node!Idle
    <2> QED BY <1>2, <2>2 DEF Node!NextWithoutLeave
  <1>8. CASE UNCHANGED <<members, lag>>
    BY <1>1, <1>8
  <1>9. CASE \E g \in Ids : Start(g) \/ Heartbeat(g) \/ Gossip(g)
    BY <1>8, <1>9 DEF Start, Heartbeat, Gossip
  <1>10. CASE (\E f \in net : Lose(f) \/ Vanish(f)) \/ UNCHANGED vars
    BY <1>8, <1>10 DEF Lose, Vanish, vars
  <1>11. Subjects \subseteq Ids /\ Observers \subseteq Ids
    BY ClusterAssumption DEF Observers
  <1> QED BY <1>3, <1>4, <1>5, <1>6, <1>7, <1>9, <1>10, <1>11 DEF Next, Work, Arrival

\* Every daemon of a cluster refines the daemon of HivebusNode without LEAVE
\* frames, so that what HivebusNodeProofs proves of one daemon under arbitrary
\* frames holds of each.
THEOREM DaemonsRefineNode == Spec => EachIsNode
  <1>1. Init => \A h \in Ids : Node(h)!Init
    BY SameDetector DEF Init, Node!Init
  <1>2. Types /\ [Next]_vars
          => [\A h \in Ids : [Node(h)!NextWithoutLeave]_<<members[h], lag[h]>>]_vars
    BY EachStep DEF NodeStep
  <1> QED BY <1>1, <1>2, TypesHold, PTL DEF Spec, EachIsNode

=============================================================================
