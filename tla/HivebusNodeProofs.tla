------------------------- MODULE HivebusNodeProofs --------------------------
(***************************************************************************)
(* Proofs about a single hivebus daemon, for any number of node ids,       *)
(* addresses and incarnations and any thresholds.                          *)
(***************************************************************************)
EXTENDS HivebusNode, MembershipProofs

-----------------------------------------------------------------------------
(***************************************************************************)
(* The invariants.                                                         *)
(***************************************************************************)

Inv == TypeOK /\ SelfNotListed /\ OneStar

\* What a peer's gossip_task may send is what a GOSSIP frame may carry.
LEMMA PeersViews == \A nid \in Ids : \A view \in ViewsOf(nid) : IsView(view)
  BY DEF ViewsOf, IsView

\* A table whose flags are among those of a table that satisfies OneStar
\* satisfies it too: no frame handler can break it, since none sets a flag.
LEMMA FewerStars ==
  ASSUME OneStar,
         \A i \in DOMAIN members' :
            members'[i].master => i \in DOMAIN members /\ members[i].master
  PROVE  OneStar'
  BY DEF OneStar

\* A tick of the clock changes nothing but ages, upwards.
LEMMA TickIsTable ==
  ASSUME TypeOK, Tick
  PROVE  /\ IsTable(members')
         /\ lag' \in Idle .. MaxLag
         /\ DOMAIN members' = DOMAIN members
         /\ \A i \in DOMAIN members : 
              /\ members'[i].master = members[i].master
              /\ members'[i].inc = members[i].inc
              /\ members'[i].addr = members[i].addr
              /\ members'[i].age >= members[i].age
<1>1. lag' \in Idle .. MaxLag
  BY AgesAssumption DEF TypeOK, Tick, Idle
<1>2. IsTable(members)
  BY DEF TypeOK
<1>3. members' = [i \in DOMAIN members |-> [members[i] EXCEPT !.age = Older(@)]]
  BY DEF Tick
<1> QED BY <1>1, <1>2, <1>3, OlderIsTable

\* Setting the clock back by a tick makes an entry younger by one and leaves
\* it well-formed.
LEMMA YoungerType ==
  ASSUME NEW info \in NodeInfo, -MaxStep < info.age
  PROVE  LET new == [info EXCEPT !.age = info.age - 1]
         IN  /\ new \in NodeInfo
             /\ new.master = info.master /\ new.inc = info.inc
             /\ new.addr = info.addr
<1>1. info.age \in -MaxStep .. MaxAge
  BY DEF NodeInfo
<1>2. info.age - 1 \in -MaxStep .. MaxAge
  BY <1>1, AgesAssumption DEF MaxAge
<1> QED BY <1>2 DEF NodeInfo

\* A step of the clock changes nothing but ages and the detector's lag.
LEMMA StepBackIsTable ==
  ASSUME TypeOK, StepBack
  PROVE  /\ IsTable(members')
         /\ lag' \in Idle .. MaxLag
         /\ DOMAIN members' = DOMAIN members
         /\ \A i \in DOMAIN members :
              /\ members'[i].master = members[i].master
              /\ members'[i].inc = members[i].inc
              /\ members'[i].addr = members[i].addr
<1>1. \A i \in DOMAIN members : members[i] \in NodeInfo
  BY DEF TypeOK, IsTable
<1>2. lag' \in Idle .. MaxLag
  BY AgesAssumption DEF TypeOK, StepBack, Idle
<1>3. DOMAIN members' = DOMAIN members
        /\ members' = [i \in DOMAIN members' |-> members'[i]]
  BY DEF StepBack
<1>4. \A i \in DOMAIN members :
        /\ members'[i] = [members[i] EXCEPT !.age = members[i].age - 1]
        /\ -MaxStep < members[i].age
  BY DEF StepBack
<1>5. \A i \in DOMAIN members :
              /\ members'[i] \in NodeInfo
              /\ members'[i].master = members[i].master
              /\ members'[i].inc = members[i].inc
              /\ members'[i].addr = members[i].addr
  BY <1>1, <1>4, YoungerType
<1> QED BY <1>2, <1>3, <1>5 DEF TypeOK, IsTable

\* A pass of the detector yields a table that lists no new peer and whose
\* only flag, if any, is that of the peer elected in it; incarnations, ages
\* and addresses are as they were.
LEMMA ScanIsTable ==
  ASSUME Inv, DetectorScan
  PROVE  /\ IsTable(members')
         /\ DOMAIN members' \subseteq DOMAIN members
         /\ \A i \in DOMAIN members' :
              /\ members'[i].inc = members[i].inc
              /\ members'[i].addr = members[i].addr
              /\ members'[i].age = members[i].age
              /\ members'[i].master = (i = MasterFrom(members', Self))
         /\ MasterFrom(members', Self) \in AliveIds(members', Self)
         /\ MasterFrom(members', Self) <= Self
<1>1. IsTable(members) /\ Self \in Ids
  BY SelfAssumption DEF Inv, TypeOK
<1>2. members' = FailureScan(members, Self, lag)
  BY DEF DetectorScan
<1> QED BY <1>1, <1>2, FailureScanIsTable

\* Every step of the daemon preserves the invariant.
LEMMA InvPreserved == Inv /\ [Next]_vars => Inv'
<1> SUFFICES ASSUME Inv, [Next]_vars PROVE Inv'
  OBVIOUS
<1>1. IsTable(members) /\ lag \in Idle .. MaxLag /\ SelfNotListed /\ OneStar
  BY DEF Inv, TypeOK
<1>2. ASSUME NEW nid \in Peers, NEW inc \in Incs, NEW a \in Addrs,
             RecvHeartbeat(nid, inc, a)
      PROVE  Inv'
  <2>1. /\ IsTable(members')
        /\ DOMAIN members' = DOMAIN members \cup {nid}
        /\ \A j \in DOMAIN members : j # nid => members'[j] = members[j]
        /\ members'[nid].master => nid \in DOMAIN members /\ members[nid].master
    BY <1>1, <1>2, HeartbeatIsTable DEF RecvHeartbeat, Peers
  <2>2. SelfNotListed'
    BY <1>1, <2>1 DEF SelfNotListed, Peers
  <2>3. OneStar'
    BY <1>1, <2>1, FewerStars
  <2> QED BY <1>1, <1>2, <2>1, <2>2, <2>3 DEF Inv, TypeOK, RecvHeartbeat
<1>3. ASSUME NEW nid \in Peers, NEW inc \in Incs, NEW a \in Addrs,
             RecvAnnounce(nid, inc, a)
      PROVE  Inv'
  <2>1. /\ IsTable(members')
        /\ DOMAIN members' = DOMAIN members \cup {nid}
        /\ \A j \in DOMAIN members : j # nid => members'[j] = members[j]
        /\ ~members'[nid].master
    <3>1. nid \in Ids /\ members' = HeardAnnounce(members, nid, inc, a)
      BY <1>3 DEF RecvAnnounce, Peers
    <3> QED BY <1>1, <3>1, AnnounceIsTable
  <2>2. SelfNotListed'
    BY <1>1, <2>1 DEF SelfNotListed, Peers
  <2>3. OneStar'
    BY <1>1, <2>1, FewerStars
  <2> QED BY <1>1, <1>3, <2>1, <2>2, <2>3 DEF Inv, TypeOK, RecvAnnounce
<1>4. ASSUME NEW nid \in Peers, RecvLeave(nid)
      PROVE  Inv'
  <2>1. /\ IsTable(members')
        /\ DOMAIN members' = DOMAIN members
        /\ \A j \in DOMAIN members : members'[j].master = members[j].master
    BY <1>1, <1>4, LeaveIsTable DEF RecvLeave, Peers
  <2>2. SelfNotListed'
    BY <1>1, <2>1 DEF SelfNotListed
  <2>3. OneStar'
    BY <1>1, <2>1, FewerStars
  <2> QED BY <1>1, <1>4, <2>1, <2>2, <2>3 DEF Inv, TypeOK, RecvLeave
<1>5. ASSUME NEW nid \in Peers, NEW a \in Addrs, NEW view \in ViewsOf(nid),
             RecvGossip(nid, a, view)
      PROVE  Inv'
  <2>1. /\ IsTable(members')
        /\ DOMAIN members' = DOMAIN members \cup (DOMAIN view \ {Self})
        /\ \A j \in DOMAIN members' :
             members'[j].master => j \in DOMAIN members /\ members[j].master
    <3>1. IsView(view) /\ members' = HeardGossip(members, Self, a, view)
      BY <1>5, PeersViews DEF RecvGossip, Peers
    <3> QED BY <1>1, <3>1, GossipIsTable
  <2>2. SelfNotListed'
    BY <1>1, <2>1 DEF SelfNotListed
  <2>3. OneStar'
    BY <1>1, <2>1, FewerStars
  <2> QED BY <1>1, <1>5, <2>1, <2>2, <2>3 DEF Inv, TypeOK, RecvGossip
<1>6. CASE DetectorNow
  BY <1>1, <1>6, AgesAssumption
     DEF DetectorNow, Inv, TypeOK, SelfNotListed, OneStar, Idle
<1>7. CASE DetectorScan
  <2>1. SelfNotListed'
    BY <1>1, <1>7, ScanIsTable DEF SelfNotListed
  <2>2. OneStar'
    <3> SUFFICES ASSUME NEW i \in DOMAIN members', members'[i].master
                 PROVE  /\ i < Self
                        /\ \A j \in DOMAIN members' : members'[j].master => j = i
      BY DEF OneStar
    <3>1. \A j \in DOMAIN members' : members'[j].master => j = MasterFrom(members', Self)
      BY <1>7, ScanIsTable
    <3>2. i = MasterFrom(members', Self) /\ i <= Self /\ IsTable(members')
      BY <1>7, <3>1, ScanIsTable
    <3>3. i \in Nat /\ Self \in Nat /\ i # Self
      BY <2>1, <3>2, IdsAssumption, SelfAssumption DEF IsTable, SelfNotListed
    <3> QED BY <3>1, <3>2, <3>3
  <2>3. lag' \in Idle .. MaxLag
    BY <1>7, AgesAssumption DEF DetectorScan, Idle
  <2> QED BY <1>7, <2>1, <2>2, <2>3, ScanIsTable DEF Inv, TypeOK
<1>8. CASE Tick
  <2>1. SelfNotListed'
    BY <1>1, <1>8, TickIsTable DEF SelfNotListed, TypeOK
  <2>2. OneStar'
    BY <1>1, <1>8, TickIsTable, FewerStars DEF TypeOK
  <2> QED BY <1>1, <1>8, <2>1, <2>2, TickIsTable DEF Inv, TypeOK
<1>9. CASE Restart
  BY <1>9, AgesAssumption
     DEF Restart, EmptyTable, Inv, TypeOK, IsTable, SelfNotListed, OneStar, Idle
<1>10. CASE StepBack
  <2>1. SelfNotListed'
    BY <1>1, <1>10, StepBackIsTable DEF SelfNotListed, TypeOK
  <2>2. OneStar'
    BY <1>1, <1>10, StepBackIsTable, FewerStars DEF TypeOK
  <2> QED BY <1>1, <1>10, <2>1, <2>2, StepBackIsTable DEF Inv, TypeOK
<1>11. CASE UNCHANGED vars
  BY <1>1, <1>11 DEF vars, Inv, TypeOK, SelfNotListed, OneStar
<1> QED
  BY <1>2, <1>3, <1>4, <1>5, <1>6, <1>7, <1>8, <1>9, <1>10, <1>11
     DEF Next, NextWithoutLeave, Listen

\* The invariant holds of every state of the daemon.
LEMMA InvHolds == Spec => []Inv
<1>1. Init => Inv
  BY AgesAssumption
     DEF Init, EmptyTable, Inv, TypeOK, IsTable, SelfNotListed, OneStar, Idle
<1> QED BY <1>1, InvPreserved, PTL DEF Spec

\* The membership table stays well-formed under every order of frames,
\* detector passes and restarts.
THEOREM TypeCorrect == Spec => []TypeOK
<1>1. Inv => TypeOK
  BY DEF Inv
<1> QED BY <1>1, InvHolds, PTL

\* No frame makes a daemon list itself, whatever its peers gossip.
THEOREM NeverSelfListed == Spec => []SelfNotListed
<1>1. Inv => SelfNotListed
  BY DEF Inv
<1> QED BY <1>1, InvHolds, PTL

\* The cached flags name at most one peer, one that beats this node,
\* although entries are inserted, replaced, merged and removed between the
\* passes that compute them.
THEOREM AtMostOneStar == Spec => []OneStar
<1>1. Inv => OneStar
  BY DEF Inv
<1> QED BY <1>1, InvHolds, PTL

-----------------------------------------------------------------------------
(***************************************************************************)
(* The action properties.                                                  *)
(***************************************************************************)

\* Hearsay never rejuvenates a listed peer, takes its incarnation back or
\* moves its address.
THEOREM HearsayWeak == Spec => HearsayIsWeak
<1> DEFINE Weak(i) == /\ members'[i].inc >= members[i].inc
                      /\ StepBack \/ members'[i].age >= members[i].age
                      /\ members'[i].addr = members[i].addr
<1>1. ASSUME Inv, [Next]_vars, NEW i \in Peers,
             i \in DOMAIN members, i \in DOMAIN members', ~HeardFrom(i)
      PROVE  Weak(i)
  <2>1. IsTable(members) /\ TypeOK
    BY <1>1 DEF Inv, TypeOK
  <2>2. members[i].inc \in Nat /\ members[i].age \in Int
    BY <1>1, <2>1, IncsAssumption, AgesAssumption DEF IsTable, NodeInfo, MaxAge
  <2>3. ASSUME members'[i] = members[i] PROVE Weak(i)
    BY <2>2, <2>3
  <2>4. ASSUME NEW nid \in Peers, NEW inc \in Incs, NEW a \in Addrs,
               RecvHeartbeat(nid, inc, a) \/ RecvAnnounce(nid, inc, a)
        PROVE  Weak(i)
    <3>1. nid # i /\ nid \in Ids
      BY <1>1, <2>4 DEF HeardFrom, Peers
    <3>2. CASE RecvHeartbeat(nid, inc, a)
      <4>1. members' = HeardHeartbeat(members, nid, inc, a)
        BY <3>2 DEF RecvHeartbeat
      <4>2. \A j \in DOMAIN members : j # nid => members'[j] = members[j]
        BY <2>1, <3>1, <4>1, HeartbeatIsTable
      <4> QED BY <1>1, <2>3, <3>1, <4>2
    <3>3. CASE RecvAnnounce(nid, inc, a)
      <4>1. members' = HeardAnnounce(members, nid, inc, a)
        BY <3>3 DEF RecvAnnounce
      <4>2. members'[i] = members[i]
        BY <1>1, <2>1, <3>1, <4>1, AnnounceIsTable
      <4> QED BY <2>3, <4>2
    <3> QED BY <2>4, <3>2, <3>3
  <2>5. ASSUME NEW nid \in Peers, RecvLeave(nid) PROVE Weak(i)
    <3>1. nid \in Ids /\ members' = HeardLeave(members, nid)
      BY <2>5 DEF RecvLeave, Peers
    <3> QED BY <1>1, <2>1, <2>2, <3>1, LeaveIsTable
  <2>6. ASSUME NEW nid \in Peers, NEW a \in Addrs, NEW view \in ViewsOf(nid),
               RecvGossip(nid, a, view)
        PROVE  Weak(i)
    <3>1. IsView(view) /\ members' = HeardGossip(members, Self, a, view)
      BY <2>6, PeersViews DEF RecvGossip, Peers
    <3>2. KeptBy(members, members')
      BY <2>1, <3>1, GossipIsTable
    <3> QED BY <1>1, <2>2, <3>2 DEF KeptBy
  <2>7. CASE DetectorNow
    BY <2>3, <2>7 DEF DetectorNow
  <2>8. CASE DetectorScan
    BY <1>1, <2>2, <2>8, ScanIsTable
  <2>9. CASE Tick
    BY <1>1, <2>1, <2>2, <2>9, TickIsTable
  <2>10. CASE Restart
    BY <1>1, <2>10 DEF Restart, EmptyTable
  <2>11. CASE StepBack
    BY <1>1, <2>1, <2>2, <2>11, StepBackIsTable
  <2>12. CASE UNCHANGED vars
    BY <2>3, <2>12 DEF vars
  <2> QED
    BY <1>1, <2>4, <2>5, <2>6, <2>7, <2>8, <2>9, <2>10, <2>11, <2>12
       DEF Next, NextWithoutLeave, Listen
<1>2. Inv /\ [Next]_vars =>
        [\A i \in Peers :
           (i \in DOMAIN members /\ i \in DOMAIN members' /\ ~HeardFrom(i))
             => Weak(i)]_vars
  BY <1>1
<1> QED BY <1>2, InvHolds, PTL DEF Spec, HearsayIsWeak

\* After a pass GetNodes shows exactly one master, an Alive one, and it is
\* the one GetMaster names.
THEOREM ScanElectsOne == Spec => ScanElects
<1> DEFINE One == \E n \in NodesReply' :
                    /\ Stars(NodesReply') = {n}
                    /\ n.id = GetMaster(members', Self)
                    /\ n.state = "Alive"
<1>1. ASSUME Inv, Inv', DetectorScan PROVE One
  <2> DEFINE M == MasterFrom(members', Self)
             Line(i) == [id |-> i, state |-> members'[i].state,
                         master |-> members'[i].master]
             Own == LocalNodeInfo(Self, M = Self)
  <2>1. /\ \A i \in DOMAIN members' : members'[i].master = (i = M)
        /\ M \in AliveIds(members', Self)
    BY <1>1, ScanIsTable
  <2>2. Self \notin DOMAIN members'
    BY <1>1 DEF Inv, SelfNotListed
  <2>3. NodesReply' = {Line(i) : i \in DOMAIN members'} \cup {Own}
    BY DEF NodesReply, GetNodes
  <2>4. GetMaster(members', Self) = M
    BY DEF GetMaster
  <2>5. /\ Own.id = Self
        /\ Own.state = "Alive"
        /\ Own.master = (M = Self)
    BY DEF LocalNodeInfo
  <2>6. \A i \in DOMAIN members' : /\ Line(i).id = i
                                    /\ Line(i).state = members'[i].state
                                    /\ Line(i).master = members'[i].master
    OBVIOUS
  <2> HIDE DEF M, Line, Own
  <2>7. CASE M = Self
    <3>1. \A i \in DOMAIN members' : ~Line(i).master
      BY <2>1, <2>2, <2>6, <2>7
    <3>2. Own.master
      BY <2>5, <2>7
    <3>3. Stars(NodesReply') = {n \in NodesReply' : n.master}
      BY DEF Stars
    <3>4. Stars(NodesReply') = {Own}
      BY <2>3, <3>1, <3>2, <3>3
    <3> QED BY <2>3, <2>4, <2>5, <2>7, <3>4
  <2>8. CASE M # Self
    <3>1. M \in DOMAIN members' /\ members'[M].state = "Alive"
      BY <2>1, <2>8 DEF AliveIds
    <3>2. \A i \in DOMAIN members' : Line(i).master <=> i = M
      BY <2>1, <2>6
    <3>3. ~Own.master
      BY <2>5, <2>8
    <3>4. Stars(NodesReply') = {n \in NodesReply' : n.master}
      BY DEF Stars
    <3>5. Stars(NodesReply') = {Line(M)}
      BY <2>3, <3>1, <3>2, <3>3, <3>4
    <3> QED BY <2>3, <2>4, <2>6, <3>1, <3>5
  <2> QED BY <2>7, <2>8
<1>2. Inv /\ Inv' /\ [Next]_vars => [DetectorScan => One]_vars
  BY <1>1
<1> QED BY <1>2, InvHolds, PTL DEF Spec, ScanElects

=============================================================================
