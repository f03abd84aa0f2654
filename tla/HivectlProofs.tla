---------------------------- MODULE HivectlProofs ---------------------------
(***************************************************************************)
(* Proofs about hivectl and the daemon that it asks, for any cluster, any  *)
(* thresholds and any backlog of the daemon's socket.                      *)
(***************************************************************************)
EXTENDS Hivectl, MembershipProofs, FiniteSetTheorems

-----------------------------------------------------------------------------
(***************************************************************************)
(* The table, and what the daemon answers from it.                         *)
(***************************************************************************)
TableOK == IsTable(members) /\ lag \in Idle .. MaxLag

\* An answer to GetNodes is a finite list of lines, and never empty: the
\* daemon's own line is in it (hivebus main.rs:438-450).
NodeList(lines) == lines \subseteq Lines /\ lines # {} /\ IsFiniteSet(lines)

\* GetMaster names a node of the cluster.
LEMMA MasterReplyType ==
    ASSUME TableOK
    PROVE  MasterReply \in Ids
  <1>1. MasterFrom(members, Self) \in AliveIds(members, Self)
    BY MasterIsLowest, HivectlAssumption DEF TableOK
  <1> QED BY <1>1, HivectlAssumption DEF MasterReply, GetMaster, AliveIds, TableOK, IsTable

\* GetNodes lists nodes of the cluster, and at least one.
LEMMA NodesReplyType ==
    ASSUME TableOK
    PROVE  NodeList(NodesReply)
  <1> DEFINE Line(i) == [id |-> i, state |-> members[i].state, master |-> members[i].master]
             f == [i \in DOMAIN members |-> Line(i)]
             peers == {Line(i) : i \in DOMAIN members}
             own == LocalNodeInfo(Self, MasterFrom(members, Self) = Self)
  <1>1. NodesReply = peers \cup {own}
    BY DEF NodesReply, GetNodes
  <1>2. \A i \in DOMAIN members : Line(i) \in Lines
    BY DEF TableOK, IsTable, NodeInfo, Lines
  <1>3. own \in Lines
    BY HivectlAssumption DEF LocalNodeInfo, Lines, NodeState
  <1>4. IsFiniteSet(DOMAIN members)
    BY HivectlAssumption, FS_Subset DEF TableOK, IsTable
  <1>5. f \in Surjection(DOMAIN members, peers)
    <2>1. f \in [DOMAIN members -> peers]
      OBVIOUS
    <2>2. \A x \in peers : \E i \in DOMAIN members : f[i] = x
      OBVIOUS
    <2> QED BY <2>1, <2>2 DEF Surjection
  <1>6. peers \subseteq Lines
    BY <1>2
  <1> HIDE DEF f, peers, own
  <1>7. IsFiniteSet(peers)
    BY <1>4, <1>5, FS_Surjection
  <1>8. IsFiniteSet(peers \cup {own})
    BY <1>7, FS_AddElement
  <1> QED BY <1>1, <1>3, <1>6, <1>8 DEF NodeList

\* The daemon's frame handlers are those of Membership ...
LEMMA SameListener ==
    ASSUME NEW m, NEW nid, NEW inc, NEW a, NEW self, NEW view
    PROVE  /\ Hivebus!HeardHeartbeat(m, nid, inc, a) = HeardHeartbeat(m, nid, inc, a)
           /\ Hivebus!HeardAnnounce(m, nid, inc, a) = HeardAnnounce(m, nid, inc, a)
           /\ Hivebus!HeardGossip(m, self, a, view) = HeardGossip(m, self, a, view)
           /\ Hivebus!GossipEntry = GossipEntry
  <1>1. Hivebus!HeardHeartbeat(m, nid, inc, a) = HeardHeartbeat(m, nid, inc, a)
    BY DEF HeardHeartbeat, Put, Refreshed, EntryOr, NewPeer, Hivebus!HeardHeartbeat,
           Hivebus!Put, Hivebus!Refreshed, Hivebus!EntryOr, Hivebus!NewPeer
  <1>2. Hivebus!HeardAnnounce(m, nid, inc, a) = HeardAnnounce(m, nid, inc, a)
    BY DEF HeardAnnounce, Put, NewPeer, Hivebus!HeardAnnounce, Hivebus!Put, Hivebus!NewPeer
  <1>3. Hivebus!HeardGossip(m, self, a, view) = HeardGossip(m, self, a, view)
    BY DEF HeardGossip, Merge, EntryOr, NewPeer, Hivebus!HeardGossip, Hivebus!Merge,
           Hivebus!EntryOr, Hivebus!NewPeer
  <1>4. Hivebus!GossipEntry = GossipEntry
    BY DEF GossipEntry, NodeState, Hivebus!GossipEntry, Hivebus!NodeState
  <1> QED BY <1>1, <1>2, <1>3, <1>4

\* ... and so are its passes, its ages and its tables.
LEMMA SameTables ==
    ASSUME NEW m, NEW self, NEW k
    PROVE  /\ Hivebus!FailureScan(m, self, k) = FailureScan(m, self, k)
           /\ Hivebus!Idle = Idle
           /\ Hivebus!EmptyTable = EmptyTable
           /\ Hivebus!Older(k) = Older(k)
           /\ Hivebus!IsTable(m) = IsTable(m)
  <1>1. Hivebus!MarkStates(m, k) = MarkStates(m, k)
    BY DEF MarkStates, Judged, Retained, AgeAtNow, MaxAge, Hivebus!MarkStates,
           Hivebus!Judged, Hivebus!Retained, Hivebus!AgeAtNow, Hivebus!MaxAge
  <1>2. \A t : Hivebus!MarkMaster(t, self) = MarkMaster(t, self)
    BY DEF MarkMaster, MasterFrom, AliveIds, Hivebus!MarkMaster, Hivebus!MasterFrom,
           Hivebus!AliveIds
  <1>3. Hivebus!FailureScan(m, self, k) = FailureScan(m, self, k)
    BY <1>1, <1>2 DEF FailureScan, Hivebus!FailureScan
  <1>4. Hivebus!Idle = Idle /\ Hivebus!EmptyTable = EmptyTable /\ Hivebus!Older(k) = Older(k)
    BY DEF Idle, EmptyTable, Older, MaxAge, Hivebus!Idle, Hivebus!EmptyTable,
           Hivebus!Older, Hivebus!MaxAge
  <1>5. Hivebus!NodeInfo = NodeInfo
    BY DEF NodeInfo, NodeState, MaxAge, Hivebus!NodeInfo, Hivebus!NodeState, Hivebus!MaxAge
  <1>6. Hivebus!IsTable(m) = IsTable(m)
    BY <1>5 DEF IsTable, Hivebus!IsTable
  <1> QED BY <1>3, <1>4, <1>6

\* Frames, passes of the detector, the passing of time and a restart keep
\* the table a table.
LEMMA TableStays ==
    ASSUME TableOK,
           \/ Hivebus!Listen \/ Hivebus!DetectorNow \/ Hivebus!DetectorScan
           \/ Hivebus!Tick \/ Hivebus!Restart
    PROVE  TableOK'
  <1>1. IsTable(members) /\ lag \in Idle .. MaxLag /\ Self \in Ids
    BY HivectlAssumption DEF TableOK
  <1>2. Idle \in Int /\ Idle < 0 /\ MaxLag \in Nat
    BY AgesAssumption DEF Idle
  <1>3. CASE Hivebus!Listen
    <2>1. PICK nid \in Ids :
            \/ \E inc \in Incs, a \in Addrs :
                 Hivebus!RecvHeartbeat(nid, inc, a) \/ Hivebus!RecvAnnounce(nid, inc, a)
            \/ \E a \in Addrs, view \in Hivebus!ViewsOf(nid) : Hivebus!RecvGossip(nid, a, view)
      BY <1>3 DEF Hivebus!Listen, Hivebus!Peers
    <2>2. ASSUME NEW inc \in Incs, NEW a \in Addrs, Hivebus!RecvHeartbeat(nid, inc, a)
          PROVE  TableOK'
      <3>1. members' = HeardHeartbeat(members, nid, inc, a) /\ lag' = lag
        BY <2>2, SameListener DEF Hivebus!RecvHeartbeat
      <3>2. IsTable(HeardHeartbeat(members, nid, inc, a))
        BY <1>1, HeartbeatIsTable
      <3> QED BY <1>1, <3>1, <3>2 DEF TableOK
    <2>3. ASSUME NEW inc \in Incs, NEW a \in Addrs, Hivebus!RecvAnnounce(nid, inc, a)
          PROVE  TableOK'
      <3>1. members' = HeardAnnounce(members, nid, inc, a) /\ lag' = lag
        BY <2>3, SameListener DEF Hivebus!RecvAnnounce
      <3>2. IsTable(HeardAnnounce(members, nid, inc, a))
        BY <1>1, AnnounceIsTable
      <3> QED BY <1>1, <3>1, <3>2 DEF TableOK
    <2>4. ASSUME NEW a \in Addrs, NEW view \in Hivebus!ViewsOf(nid),
                 Hivebus!RecvGossip(nid, a, view)
          PROVE  TableOK'
      <3>1. IsView(view)
        BY SameListener DEF Hivebus!ViewsOf, IsView
      <3>2. members' = HeardGossip(members, Self, a, view) /\ lag' = lag
        BY <2>4, SameListener DEF Hivebus!RecvGossip
      <3>3. IsTable(HeardGossip(members, Self, a, view))
        BY <1>1, <3>1, GossipIsTable
      <3> QED BY <1>1, <3>2, <3>3 DEF TableOK
    <2> QED BY <2>1, <2>2, <2>3, <2>4
  <1>4. CASE Hivebus!DetectorNow
    BY <1>1, <1>2, <1>4, SameTables DEF Hivebus!DetectorNow, TableOK
  <1>5. CASE Hivebus!DetectorScan
    <2>1. IsTable(members') /\ lag' = Idle
      BY <1>1, <1>5, FailureScanIsTable, SameTables DEF Hivebus!DetectorScan
    <2> QED BY <1>2, <2>1 DEF TableOK
  <1>6. CASE Hivebus!Tick
    <2>1. IsTable(members')
      BY <1>1, <1>6, OlderIsTable, SameTables DEF Hivebus!Tick
    <2>2. lag' \in Idle .. MaxLag
      BY <1>1, <1>2, <1>6, SameTables DEF Hivebus!Tick
    <2> QED BY <2>1, <2>2 DEF TableOK
  <1>7. CASE Hivebus!Restart
    <2>1. IsTable(EmptyTable)
      BY DEF EmptyTable, IsTable
    <2> QED BY <1>2, <1>7, <2>1, SameTables DEF Hivebus!Restart, TableOK
  <1> QED BY <1>3, <1>4, <1>5, <1>6, <1>7

-----------------------------------------------------------------------------
(***************************************************************************)
(* The invariant.  What is written to our connection belongs to the query  *)
(* under way, and a table that was received has rows: the selection can be *)
(* kept in bounds by it.                                                   *)
(***************************************************************************)
Replies == [kind : {"none", "Eof", "Nodes", "Master"}, lines : SUBSET Lines,
            id : Ids \cup {NoMaster}]
Queries == [op : {"none", "GetNodes", "GetMaster"}, got : SUBSET Lines,
            from : {"none", "key", "auto"}]

FlagsOK ==
    /\ running \in BOOLEAN /\ slow \in BOOLEAN /\ error \in BOOLEAN
    /\ due \in BOOLEAN /\ quit \in BOOLEAN

QueueOK == queue \in 0 .. Backlog

ReplyOK ==
    /\ reply \in Replies
    /\ reply.kind # "none" => at = "wait"
    /\ reply.kind = "Nodes" => NodeList(reply.lines)
    /\ reply.kind = "Master" => query.op = "GetMaster" /\ reply.id \in Ids

QueryOK ==
    /\ at \in {"draw", "poll", "check", "connect", "wait", "ended"}
    /\ query \in Queries
    /\ IF at \in {"connect", "wait"} THEN query.op # "none" ELSE query = NoQuery
    /\ query.op = "GetMaster" => NodeList(query.got)

ScreenOK ==
    /\ nodes \subseteq Lines /\ IsFiniteSet(nodes)
    /\ master \in Ids \cup {NoMaster}
    /\ IF nodes = {} THEN selected = NoRow ELSE selected \in 0 .. Cardinality(nodes) - 1

Inv == TableOK /\ FlagsOK /\ QueueOK /\ ReplyOK /\ QueryOK /\ ScreenOK

\* The shapes of the records that the program starts from.
LEMMA Shapes ==
    /\ Silence \in Replies /\ Silence.kind = "none"
    /\ Eof \in Replies /\ Eof.kind = "Eof"
    /\ NoQuery \in Queries /\ NoQuery.op = "none" /\ NoQuery.from = "none"
    /\ \A from \in {"key", "auto"} :
         Refresh(from) \in Queries /\ Refresh(from).op = "GetNodes"
  BY DEF Silence, Eof, NoQuery, Refresh, Replies, Queries

\* What does not concern the loop leaves its part of the invariant alone.
LEMMA LoopStays ==
    ASSUME ReplyOK, QueryOK, ScreenOK,
           UNCHANGED <<reply, at, query, nodes, master, selected>>
    PROVE  ReplyOK' /\ QueryOK' /\ ScreenOK'
  <1>1. ReplyOK'
    BY DEF ReplyOK
  <1>2. QueryOK'
    BY DEF QueryOK
  <1>3. ScreenOK'
    BY DEF ScreenOK
  <1> QED BY <1>1, <1>2, <1>3

\* A refresh that fails ends the query and keeps the table.
LEMMA FailedKeeps ==
    ASSUME Inv, at \in {"connect", "wait"}, RefreshFailed, UNCHANGED queue
    PROVE  Inv'
  <1>1. TableOK'
    BY DEF RefreshFailed, daemonVars, tableVars, Inv, TableOK
  <1>2. FlagsOK'
    BY DEF RefreshFailed, daemonVars, Inv, FlagsOK
  <1>3. ScreenOK' /\ QueueOK'
    <2>1. UNCHANGED <<nodes, master, selected, queue>>
      BY DEF RefreshFailed
    <2> QED BY <2>1 DEF Inv, ScreenOK, QueueOK
  <1>4. at' \in {"check", "draw"} /\ query' = NoQuery /\ reply' = Silence
    BY DEF RefreshFailed, Back
  <1>5. ReplyOK' /\ QueryOK'
    BY <1>4, Shapes DEF ReplyOK, QueryOK
  <1> QED BY <1>1, <1>2, <1>3, <1>5 DEF Inv

\* A refresh that succeeds shows the table that it got, and the selection
\* stays within it.
LEMMA DoneKeeps ==
    ASSUME Inv, at = "wait", reply.kind = "Master", RefreshDone, UNCHANGED queue
    PROVE  Inv'
  <1>1. TableOK'
    BY DEF RefreshDone, daemonVars, tableVars, Inv, TableOK
  <1>2. FlagsOK'
    BY DEF RefreshDone, daemonVars, Inv, FlagsOK
  <1>3. at' \in {"check", "draw"} /\ query' = NoQuery /\ reply' = Silence
    BY DEF RefreshDone, Back
  <1>4. ReplyOK' /\ QueryOK'
    BY <1>3, Shapes DEF ReplyOK, QueryOK
  <1>5. QueueOK'
    BY DEF Inv, QueueOK
  <1>6. NodeList(query.got) /\ reply.id \in Ids
    BY DEF Inv, ReplyOK, QueryOK
  <1>7. nodes' = query.got /\ master' = reply.id /\ selected' = KeptInBounds(query.got)
    BY DEF RefreshDone
  <1>8. Cardinality(query.got) \in Nat \ {0}
    BY <1>6, FS_CardinalityType, FS_EmptySet DEF NodeList
  <1>9. selected = NoRow \/ selected \in Nat
    <2>1. CASE nodes = {}
      BY <2>1 DEF Inv, ScreenOK
    <2>2. CASE nodes # {}
      <3>1. Cardinality(nodes) \in Nat /\ selected \in 0 .. Cardinality(nodes) - 1
        BY <2>2, FS_CardinalityType DEF Inv, ScreenOK
      <3> QED BY <3>1
    <2> QED BY <2>1, <2>2
  <1>10. KeptInBounds(query.got) \in 0 .. Cardinality(query.got) - 1
    <2>1. query.got # {}
      BY <1>6 DEF NodeList
    <2>2. KeptInBounds(query.got) =
            IF selected = NoRow THEN 0
            ELSE IF selected >= Cardinality(query.got) THEN Cardinality(query.got) - 1
            ELSE selected
      BY <2>1 DEF KeptInBounds
    <2> QED BY <1>8, <1>9, <2>2
  <1>11. ScreenOK'
    BY <1>6, <1>7, <1>10 DEF ScreenOK, NodeList
  <1> QED BY <1>1, <1>2, <1>4, <1>5, <1>11 DEF Inv

\* A step of the loop that only moves it on, outside of a refresh.
LEMMA GotoKeeps ==
    ASSUME Inv, at \in {"draw", "poll", "check"},
           NEW phase \in {"draw", "poll", "check", "ended"}, Goto(phase)
    PROVE  Inv'
  <1>1. UNCHANGED <<members, lag, running, slow, queue, reply, query, nodes, master,
                    error, selected, due, quit>>
    BY DEF Goto, daemonVars, tableVars, socketVars, screenVars
  <1>2. TableOK' /\ FlagsOK' /\ QueueOK' /\ ScreenOK'
    <2>1. TableOK' /\ QueueOK' /\ ScreenOK'
      BY <1>1 DEF Inv, TableOK, QueueOK, ScreenOK
    <2>2. FlagsOK'
      BY <1>1 DEF Inv, FlagsOK
    <2> QED BY <2>1, <2>2
  <1>3. at' = phase /\ query = NoQuery /\ reply.kind = "none"
    BY DEF Goto, Inv, QueryOK, ReplyOK
  <1>4. ReplyOK' /\ QueryOK'
    BY <1>1, <1>3, Shapes DEF Inv, ReplyOK, QueryOK
  <1> QED BY <1>2, <1>4 DEF Inv

\* A refresh begins.
LEMMA StartKeeps ==
    ASSUME Inv, at \in {"poll", "check"}, NEW from \in {"key", "auto"}, StartRefresh(from)
    PROVE  Inv'
  <1>1. UNCHANGED <<members, lag, running, slow, queue, reply, nodes, master,
                    error, selected, due, quit>>
    BY DEF StartRefresh, daemonVars, tableVars, socketVars, screenVars
  <1>2. TableOK' /\ FlagsOK' /\ QueueOK' /\ ScreenOK'
    <2>1. TableOK' /\ QueueOK' /\ ScreenOK'
      BY <1>1 DEF Inv, TableOK, QueueOK, ScreenOK
    <2>2. FlagsOK'
      BY <1>1 DEF Inv, FlagsOK
    <2> QED BY <2>1, <2>2
  <1>3. at' = "connect" /\ query' = Refresh(from) /\ reply.kind = "none"
    BY DEF StartRefresh, Inv, ReplyOK
  <1>4. ReplyOK' /\ QueryOK'
    BY <1>1, <1>3, Shapes DEF Inv, ReplyOK, QueryOK
  <1> QED BY <1>2, <1>4 DEF Inv

\* Scrolling stays within the table.
LEMMA ScrollKeeps ==
    ASSUME Inv, NEW up \in BOOLEAN, ScrollKey(up)
    PROVE  Inv'
  <1>1. UNCHANGED <<members, lag, running, slow, queue, reply, query, nodes, master,
                    error, due, quit>>
    BY DEF ScrollKey, daemonVars, tableVars, socketVars
  <1>2. TableOK' /\ QueueOK'
    BY <1>1 DEF Inv, TableOK, QueueOK
  <1>3. FlagsOK'
    BY <1>1 DEF Inv, FlagsOK
  <1>4. at = "poll" /\ at' = "check" /\ query = NoQuery /\ reply.kind = "none"
    BY DEF ScrollKey, Inv, QueryOK, ReplyOK
  <1>5. ReplyOK' /\ QueryOK'
    BY <1>1, <1>4, Shapes DEF Inv, ReplyOK, QueryOK
  <1>6. selected' = Scrolled(up)
    BY DEF ScrollKey
  <1>7. CASE nodes = {}
    <2>1. selected = NoRow /\ Cardinality(nodes) = 0
      BY <1>7, FS_EmptySet DEF Inv, ScreenOK
    <2>2. Scrolled(up) = NoRow
      BY <2>1 DEF Scrolled, NoRow
    <2> QED BY <1>1, <1>2, <1>3, <1>5, <1>6, <1>7, <2>2 DEF Inv, ScreenOK
  <1>8. CASE nodes # {}
    <2>1. Cardinality(nodes) \in Nat /\ selected \in 0 .. Cardinality(nodes) - 1
      BY <1>8, FS_CardinalityType DEF Inv, ScreenOK
    <2>2. Scrolled(up) \in 0 .. Cardinality(nodes) - 1
      BY <2>1 DEF Scrolled
    <2> QED BY <1>1, <1>2, <1>3, <1>5, <1>6, <1>8, <2>2 DEF Inv, ScreenOK
  <1> QED BY <1>7, <1>8

\* Connecting, or failing to.
LEMMA ConnectKeeps ==
    ASSUME Inv, Connect
    PROVE  Inv'
  <1>1. CASE ~running /\ RefreshFailed /\ UNCHANGED queue
    BY <1>1, FailedKeeps DEF Connect
  <1>2. CASE /\ queue < Backlog /\ queue' = queue + 1
             /\ reply' = Silence
             /\ at' = "wait"
             /\ UNCHANGED <<daemonVars, bulk, query, screenVars, due, quit>>
    <2>1. UNCHANGED <<members, lag, running, slow, query, nodes, master, error, selected,
                      due, quit>>
      BY <1>2 DEF daemonVars, tableVars, screenVars
    <2>2. TableOK' /\ ScreenOK'
      BY <2>1 DEF Inv, TableOK, ScreenOK
    <2>3. FlagsOK'
      BY <2>1 DEF Inv, FlagsOK
    <2>4. QueueOK'
      BY <1>2, HivectlAssumption DEF Inv, QueueOK
    <2>5. ReplyOK' /\ QueryOK'
      BY <1>2, <2>1, Shapes DEF Connect, Inv, ReplyOK, QueryOK
    <2> QED BY <2>2, <2>3, <2>4, <2>5 DEF Inv
  <1> QED BY <1>1, <1>2 DEF Connect

\* Taking a reply, whichever it is.
LEMMA TakeReplyKeeps ==
    ASSUME Inv, TakeReply
    PROVE  Inv'
  <1>0. at = "wait" /\ UNCHANGED queue
    BY DEF TakeReply
  <1>1. CASE RefreshFailed
    BY <1>0, <1>1, FailedKeeps
  <1>2. CASE reply.kind = "Master" /\ RefreshDone
    BY <1>0, <1>2, DoneKeeps
  <1>3. CASE /\ reply.kind = "Nodes"
             /\ query' = [query EXCEPT !.op = "GetMaster", !.got = reply.lines]
             /\ at' = "connect"
             /\ reply' = Silence
             /\ UNCHANGED <<daemonVars, bulk, screenVars, due, quit>>
    <2>1. UNCHANGED <<members, lag, running, slow, nodes, master, error, selected, due, quit>>
      BY <1>3 DEF daemonVars, tableVars, screenVars
    <2>2. TableOK' /\ ScreenOK' /\ QueueOK'
      BY <1>0, <2>1 DEF Inv, TableOK, ScreenOK, QueueOK
    <2>3. FlagsOK'
      BY <2>1 DEF Inv, FlagsOK
    <2>4. NodeList(reply.lines) /\ query \in Queries
      BY <1>3 DEF Inv, ReplyOK, QueryOK
    <2>5. query' \in Queries /\ query'.op = "GetMaster" /\ query'.got = reply.lines
      BY <1>3, <2>4 DEF Queries, NodeList
    <2>6. ReplyOK' /\ QueryOK'
      BY <1>3, <2>4, <2>5, Shapes DEF ReplyOK, QueryOK
    <2> QED BY <2>2, <2>3, <2>6 DEF Inv
  <1> QED BY <1>1, <1>2, <1>3 DEF TakeReply

\* The daemon answers from its table.
LEMMA ServeKeeps ==
    ASSUME Inv, Serve
    PROVE  Inv'
  <1>1. UNCHANGED <<members, lag, running, slow, queue, at, query, nodes, master, error,
                    selected, due, quit>>
    BY DEF Serve, daemonVars, tableVars, screenVars
  <1>2. TableOK' /\ ScreenOK' /\ QueueOK' /\ QueryOK'
    BY <1>1 DEF Inv, TableOK, ScreenOK, QueueOK, QueryOK
  <1>3. FlagsOK'
    BY <1>1 DEF Inv, FlagsOK
  <1>4. at = "wait" /\ reply' = Answer
    BY DEF Serve
  <1>5. MasterReply \in Ids /\ NodeList(NodesReply)
    BY MasterReplyType, NodesReplyType DEF Inv
  <1>6. CASE query.op = "GetMaster"
    <2>1. Answer = [Silence EXCEPT !.kind = "Master", !.id = MasterReply]
      BY <1>6 DEF Answer
    <2>2. Answer \in Replies /\ Answer.kind = "Master" /\ Answer.id = MasterReply
      BY <1>5, <2>1 DEF Silence, Replies
    <2>3. ReplyOK'
      BY <1>1, <1>4, <1>5, <1>6, <2>2 DEF ReplyOK
    <2> QED BY <1>2, <1>3, <2>3 DEF Inv
  <1>7. CASE query.op # "GetMaster"
    <2>1. Answer = Eof \/ Answer = [Silence EXCEPT !.kind = "Nodes", !.lines = NodesReply]
      BY <1>7 DEF Answer
    <2>2. CASE Answer = Eof
      <3>1. ReplyOK'
        BY <1>1, <1>4, <2>2, Shapes DEF ReplyOK
      <3> QED BY <1>2, <1>3, <3>1 DEF Inv
    <2>3. CASE Answer = [Silence EXCEPT !.kind = "Nodes", !.lines = NodesReply]
      <3>1. Answer \in Replies /\ Answer.kind = "Nodes" /\ Answer.lines = NodesReply
        BY <1>5, <2>3 DEF Silence, Replies, NodeList
      <3>2. ReplyOK'
        BY <1>1, <1>4, <1>5, <3>1 DEF ReplyOK
      <3> QED BY <1>2, <1>3, <3>2 DEF Inv
    <2> QED BY <2>1, <2>2, <2>3
  <1> QED BY <1>6, <1>7

\* The daemon stops, with or without our connection open.
LEMMA StopKeeps ==
    ASSUME Inv, DaemonStops
    PROVE  Inv'
  <1>1. UNCHANGED <<slow, at, query, nodes, master, error, selected, due, quit>>
    BY DEF DaemonStops, screenVars
  <1>2. TableOK'
    BY TableStays DEF Inv, DaemonStops
  <1>3. ScreenOK' /\ QueryOK'
    BY <1>1 DEF Inv, ScreenOK, QueryOK
  <1>4. QueueOK'
    BY HivectlAssumption DEF DaemonStops, QueueOK
  <1>5. FlagsOK'
    <2>1. running' = FALSE
      BY DEF DaemonStops
    <2> QED BY <1>1, <2>1 DEF Inv, FlagsOK
  <1>6. ReplyOK'
    <2>1. (at = "wait" /\ reply' = Eof) \/ reply' = reply
      BY DEF DaemonStops
    <2> QED BY <1>1, <2>1, Shapes DEF Inv, ReplyOK
  <1> QED BY <1>2, <1>3, <1>4, <1>5, <1>6 DEF Inv

\* The other steps of the daemon, of the clock and of the user.
LEMMA AroundKeeps ==
    ASSUME Inv,
           \/ TableStep(Hivebus!Listen \/ Hivebus!DetectorNow \/ Hivebus!DetectorScan
                          \/ Hivebus!Tick)
           \/ DaemonStarts \/ SpeedChanges \/ Accept \/ PressQuit \/ Elapse
    PROVE  Inv'
  <1>1. UNCHANGED <<reply, at, query, nodes, master, error, selected>>
    BY DEF TableStep, DaemonStarts, SpeedChanges, Accept, PressQuit, Elapse,
           socketVars, screenVars
  <1>2. ReplyOK' /\ QueryOK' /\ ScreenOK'
    BY <1>1, LoopStays DEF Inv
  <1>3. TableOK'
    <2>1. CASE TableStep(Hivebus!Listen \/ Hivebus!DetectorNow \/ Hivebus!DetectorScan
                           \/ Hivebus!Tick)
      BY <2>1, TableStays DEF TableStep, Inv
    <2>2. CASE DaemonStarts \/ SpeedChanges \/ Accept \/ PressQuit \/ Elapse
      <3>1. UNCHANGED <<members, lag>>
        BY <2>2 DEF DaemonStarts, SpeedChanges, Accept, PressQuit, Elapse,
                    daemonVars, tableVars
      <3> QED BY <3>1 DEF Inv, TableOK
    <2> QED BY <2>1, <2>2
  <1>4. QueueOK'
    <2>1. queue' = queue \/ (queue > 0 /\ queue' = queue - 1)
      BY DEF TableStep, DaemonStarts, SpeedChanges, Accept, PressQuit, Elapse, socketVars
    <2> QED BY <2>1, HivectlAssumption DEF Inv, QueueOK
  <1>5. FlagsOK'
    <2>1. /\ running' = running \/ running' = TRUE
          /\ slow' = slow \/ slow' = ~slow
          /\ due' = due \/ due' = TRUE
          /\ quit' = quit \/ quit' = TRUE
      BY DEF TableStep, DaemonStarts, SpeedChanges, Accept, PressQuit, Elapse, daemonVars
    <2> QED BY <1>1, <2>1 DEF Inv, FlagsOK
  <1> QED BY <1>2, <1>3, <1>4, <1>5 DEF Inv

\* Every step keeps the invariant.
LEMMA InvPreserved == Inv /\ [Next]_vars => Inv'
  <1> SUFFICES ASSUME Inv, [Next]_vars PROVE Inv'
    OBVIOUS
  <1>1. CASE DaemonNext
    BY <1>1, StopKeeps, ServeKeeps, AroundKeeps DEF DaemonNext
  <1>2. CASE LoopNext
    <2>1. CASE Draw \/ TerminalFails \/ NoKey \/ QuitKey \/ OtherKey
      BY <2>1, GotoKeeps DEF Draw, TerminalFails, NoKey, QuitKey, OtherKey
    <2>2. CASE RefreshKey \/ Check
      BY <2>2, StartKeeps, GotoKeeps DEF RefreshKey, Check
    <2>3. CASE TimeOut
      BY <2>3, FailedKeeps DEF TimeOut
    <2> QED BY <1>2, <2>1, <2>2, <2>3, ScrollKeeps, ConnectKeeps, TakeReplyKeeps DEF LoopNext
  <1>3. CASE PressQuit \/ Elapse
    BY <1>3, AroundKeeps
  <1>4. CASE UNCHANGED vars
    <2>1. UNCHANGED <<members, lag, running, slow, queue, reply, at, query, nodes, master,
                      error, selected, due, quit>>
      BY <1>4 DEF vars, daemonVars, tableVars, socketVars, screenVars
    <2>2. TableOK' /\ QueueOK'
      BY <2>1 DEF Inv, TableOK, QueueOK
    <2>3. FlagsOK'
      BY <2>1 DEF Inv, FlagsOK
    <2> QED BY <2>1, <2>2, <2>3, LoopStays DEF Inv
  <1> QED BY <1>1, <1>2, <1>3, <1>4 DEF Next

\* The selected row is one of those shown (main.rs:95-102, 117-132), however
\* the table grows and shrinks, queries fail and the user scrolls meanwhile;
\* and a query is under way exactly while run_loop is inside refresh.
THEOREM TypeCorrect == Spec => []TypeOK
  <1>1. Init => Inv
    <2> SUFFICES ASSUME Init PROVE Inv
      OBVIOUS
    <2>1. TableOK
      <3>1. IsTable(EmptyTable)
        BY DEF EmptyTable, IsTable
      <3>2. members = EmptyTable /\ lag = Idle
        BY SameTables DEF Init, Hivebus!Init
      <3> QED BY <3>1, <3>2, AgesAssumption DEF TableOK, Idle
    <2>2. FlagsOK
      BY DEF Init, FlagsOK
    <2>3. QueueOK
      BY HivectlAssumption DEF Init, QueueOK
    <2>4. ReplyOK /\ QueryOK
      BY Shapes DEF Init, ReplyOK, QueryOK
    <2>5. ScreenOK
      BY FS_EmptySet DEF Init, ScreenOK
    <2> QED BY <2>1, <2>2, <2>3, <2>4, <2>5 DEF Inv
  <1>2. Inv => TypeOK
    <2> SUFFICES ASSUME Inv PROVE TypeOK
      OBVIOUS
    <2>1. Hivebus!TypeOK
      BY SameTables DEF Inv, TableOK, Hivebus!TypeOK
    <2>2. /\ running \in BOOLEAN /\ slow \in BOOLEAN
          /\ error \in BOOLEAN /\ due \in BOOLEAN /\ quit \in BOOLEAN
      BY DEF Inv, FlagsOK
    <2>3. (at \in {"connect", "wait"}) <=> (query # NoQuery)
      BY Shapes DEF Inv, QueryOK
    <2>4. query.op \in {"none", "GetNodes", "GetMaster"} /\ query.got \subseteq Lines
      BY DEF Inv, QueryOK, Queries
    <2>5. /\ queue \in 0 .. Backlog
          /\ reply \in [kind : {"none", "Eof", "Nodes", "Master"}, lines : SUBSET Lines,
                        id : Ids \cup {NoMaster}]
          /\ at \in {"draw", "poll", "check", "connect", "wait", "ended"}
          /\ nodes \subseteq Lines
          /\ master \in Ids \cup {NoMaster}
          /\ IF nodes = {} THEN selected = NoRow ELSE selected \in 0 .. Cardinality(nodes) - 1
      BY DEF Inv, QueueOK, ReplyOK, QueryOK, ScreenOK, Replies
    <2> QED BY <2>1, <2>2, <2>3, <2>4, <2>5 DEF TypeOK
  <1> QED BY <1>1, <1>2, InvPreserved, PTL DEF Spec

=============================================================================
