-------------------------- MODULE MembershipProofs --------------------------
(***************************************************************************)
(* Lemmas about the operations of Membership, for any number of node ids,  *)
(* addresses and incarnations and any thresholds: each maps tables to      *)
(* tables, and what it may change in them.                                 *)
(***************************************************************************)
EXTENDS Membership, WellFoundedInduction, TLAPS

\* Inserting or replacing one well-formed entry (HashMap insert, entry)
\* gives a table whose domain gains exactly that key.
LEMMA PutIsTable ==
  ASSUME NEW m, IsTable(m), NEW i \in Ids, NEW info \in NodeInfo
  PROVE  /\ IsTable(Put(m, i, info))
         /\ DOMAIN Put(m, i, info) = DOMAIN m \cup {i}
         /\ Put(m, i, info)[i] = info
         /\ \A j \in DOMAIN m : j # i => Put(m, i, info)[j] = m[j]
  BY DEF IsTable, Put

\* A new peer is a well-formed entry of age zero without the master flag.
LEMMA NewPeerType ==
  ASSUME NEW addr \in Addrs, NEW state \in NodeState, NEW inc \in Incs
  PROVE  NewPeer(addr, state, inc) \in NodeInfo
  BY AgesAssumption DEF NewPeer, NodeInfo, MaxAge

\* A heartbeat's assignments make an entry Alive, of this incarnation and
\* of age zero, and leave its master flag alone.
LEMMA RefreshedType ==
  ASSUME NEW info \in NodeInfo, NEW inc \in Incs
  PROVE  /\ Refreshed(info, inc) \in NodeInfo
         /\ Refreshed(info, inc).master = info.master
         /\ Refreshed(info, inc).inc = inc
         /\ Refreshed(info, inc).state = "Alive"
         /\ Refreshed(info, inc).age = 0
<1>1. 0 \in -MaxStep .. MaxAge /\ "Alive" \in NodeState
  BY AgesAssumption DEF MaxAge, NodeState
<1> QED BY <1>1 DEF Refreshed, NodeInfo

\* An entry found or made by or_insert_with is well-formed; it carries the
\* master flag only if the table had it.
LEMMA EntryOrType ==
  ASSUME NEW m, IsTable(m), NEW i \in Ids,
         NEW addr \in Addrs, NEW state \in NodeState, NEW inc \in Incs
  PROVE  LET entry == EntryOr(m, i, NewPeer(addr, state, inc))
         IN  /\ entry \in NodeInfo
             /\ i \in DOMAIN m => entry = m[i]
             /\ entry.master => i \in DOMAIN m /\ m[i].master
  BY NewPeerType DEF EntryOr, IsTable, NewPeer

\* The HEARTBEAT handler touches only the sender's entry, and gives it no
\* master flag that it did not have.
LEMMA HeartbeatIsTable ==
  ASSUME NEW m, IsTable(m), NEW nid \in Ids, NEW inc \in Incs, NEW from \in Addrs
  PROVE  LET new == HeardHeartbeat(m, nid, inc, from)
         IN  /\ IsTable(new)
             /\ DOMAIN new = DOMAIN m \cup {nid}
             /\ \A j \in DOMAIN m : j # nid => new[j] = m[j]
             /\ new[nid].master => nid \in DOMAIN m /\ m[nid].master
<1> DEFINE entry == EntryOr(m, nid, NewPeer(from, "Alive", inc))
           info  == Refreshed(entry, inc)
<1>1. entry \in NodeInfo /\ (entry.master => nid \in DOMAIN m /\ m[nid].master)
  BY EntryOrType DEF NodeState
<1>2. HeardHeartbeat(m, nid, inc, from) = Put(m, nid, info)
  BY DEF HeardHeartbeat
<1>3. info \in NodeInfo /\ info.master = entry.master
  BY <1>1, RefreshedType
<1> HIDE DEF info, entry
<1>4. /\ IsTable(Put(m, nid, info))
      /\ DOMAIN Put(m, nid, info) = DOMAIN m \cup {nid}
      /\ Put(m, nid, info)[nid] = info
      /\ \A j \in DOMAIN m : j # nid => Put(m, nid, info)[j] = m[j]
  BY <1>3, PutIsTable
<1> QED BY <1>1, <1>2, <1>3, <1>4

\* The ANNOUNCE handler replaces the sender's entry by one without flag.
LEMMA AnnounceIsTable ==
  ASSUME NEW m, IsTable(m), NEW nid \in Ids, NEW inc \in Incs, NEW addr \in Addrs
  PROVE  LET new == HeardAnnounce(m, nid, inc, addr)
         IN  /\ IsTable(new)
             /\ DOMAIN new = DOMAIN m \cup {nid}
             /\ \A j \in DOMAIN m : j # nid => new[j] = m[j]
             /\ ~new[nid].master
<1> DEFINE info == NewPeer(addr, "Alive", inc)
<1>1. info \in NodeInfo /\ ~info.master
  BY NewPeerType DEF NodeState, NewPeer
<1>2. HeardAnnounce(m, nid, inc, addr) = Put(m, nid, info)
  BY DEF HeardAnnounce
<1> HIDE DEF info
<1>3. /\ IsTable(Put(m, nid, info))
      /\ DOMAIN Put(m, nid, info) = DOMAIN m \cup {nid}
      /\ Put(m, nid, info)[nid] = info
      /\ \A j \in DOMAIN m : j # nid => Put(m, nid, info)[j] = m[j]
  BY <1>1, PutIsTable
<1> QED BY <1>1, <1>2, <1>3

\* A frame of the peer itself leaves its entry Alive, fresh and of the
\* incarnation in the frame.
LEMMA DirectEntry ==
  ASSUME NEW m, IsTable(m), NEW nid \in Ids, NEW inc \in Incs, NEW a \in Addrs,
         NEW info \in {HeardHeartbeat(m, nid, inc, a)[nid], HeardAnnounce(m, nid, inc, a)[nid]}
  PROVE  info.inc = inc /\ info.state = "Alive" /\ info.age = 0
<1>1. CASE info = HeardHeartbeat(m, nid, inc, a)[nid]
  <2> DEFINE entry == EntryOr(m, nid, NewPeer(a, "Alive", inc))
  <2>1. entry \in NodeInfo
    BY EntryOrType DEF NodeState
  <2>2. HeardHeartbeat(m, nid, inc, a)[nid] = Refreshed(entry, inc)
    BY DEF HeardHeartbeat, Put
  <2> HIDE DEF entry
  <2> QED BY <1>1, <2>1, <2>2, RefreshedType
<1>2. CASE info = HeardAnnounce(m, nid, inc, a)[nid]
  BY <1>2 DEF HeardAnnounce, Put, NewPeer
<1> QED BY <1>1, <1>2

\* The LEAVE handler adds no entry and changes nothing but one state.
LEMMA LeaveIsTable ==
  ASSUME NEW m, IsTable(m), NEW nid \in Ids
  PROVE  LET new == HeardLeave(m, nid)
         IN  /\ IsTable(new)
             /\ DOMAIN new = DOMAIN m
             /\ \A j \in DOMAIN m : /\ new[j].master = m[j].master
                                    /\ new[j].inc = m[j].inc
                                    /\ new[j].age = m[j].age
                                    /\ new[j].addr = m[j].addr
  BY DEF HeardLeave, IsTable, NodeInfo, NodeState

\* Merging a gossiped entry keeps address, age and flag, never takes the
\* incarnation back, and takes over incarnation and state together or not at
\* all.
LEMMA MergeType ==
  ASSUME NEW info \in NodeInfo, NEW entry \in GossipEntry
  PROVE  LET new == Merge(info, entry)
         IN  /\ new \in NodeInfo
             /\ new.master = info.master
             /\ new.age = info.age
             /\ new.addr = info.addr
             /\ new.inc >= info.inc
             /\ \/ new.inc = info.inc /\ new.state = info.state
                \/ new.inc = entry.inc /\ new.state = entry.state
<1>1. info.inc \in Nat /\ entry.inc \in Nat /\ entry.inc \in Incs
        /\ entry.state \in NodeState
  BY IncsAssumption DEF NodeInfo, GossipEntry
<1>2. CASE entry.inc >= info.inc
  <2> DEFINE new == [info EXCEPT !.state = entry.state, !.inc = entry.inc]
  <2>1. Merge(info, entry) = new
    BY <1>2 DEF Merge
  <2>2. new \in NodeInfo /\ new.master = info.master /\ new.age = info.age
          /\ new.addr = info.addr /\ new.inc = entry.inc /\ new.state = entry.state
    BY <1>1 DEF NodeInfo
  <2> QED BY <1>2, <2>1, <2>2
<1>3. CASE ~(entry.inc >= info.inc)
  BY <1>1, <1>3 DEF Merge
<1> QED BY <1>2, <1>3

\* No entry of m is younger, of an older incarnation or elsewhere in new.
KeptBy(m, new) ==
  \A j \in DOMAIN m : /\ new[j].inc >= m[j].inc
                      /\ new[j].age = m[j].age
                      /\ new[j].addr = m[j].addr

\* What a GOSSIP frame may carry.
IsView(view) ==
  /\ DOMAIN view \subseteq Ids
  /\ \A i \in DOMAIN view : view[i] \in GossipEntry

\* Incarnation and state of an entry are those of the old table or those of
\* the frame, and only a new entry is as young as can be.
FromTableOrView(m, view, self, new, j) ==
  /\ \/ /\ j \in DOMAIN m
        /\ new[j].inc = m[j].inc /\ new[j].state = m[j].state
     \/ /\ j \in DOMAIN view \ {self}
        /\ new[j].inc = view[j].inc /\ new[j].state = view[j].state
  /\ j \notin DOMAIN m => new[j].age = 0

\* The GOSSIP handler adds every peer named but this node, merges into
\* the others, and flags none.
LEMMA GossipIsTable ==
  ASSUME NEW m, IsTable(m), NEW self, NEW from \in Addrs, NEW view, IsView(view)
  PROVE  LET new == HeardGossip(m, self, from, view)
         IN  /\ IsTable(new)
             /\ DOMAIN new = DOMAIN m \cup (DOMAIN view \ {self})
             /\ KeptBy(m, new)
             /\ \A j \in DOMAIN new : new[j].master => j \in DOMAIN m /\ m[j].master
             /\ \A j \in DOMAIN new : FromTableOrView(m, view, self, new, j)
<1> DEFINE named == DOMAIN view \ {self}
           Known(i) == EntryOr(m, i, NewPeer(from, view[i].state, view[i].inc))
           new == HeardGossip(m, self, from, view)
<1>1. named \subseteq Ids /\ \A i \in named : view[i] \in GossipEntry
  BY DEF IsView
<1>2. \A i \in named : /\ Known(i) \in NodeInfo
                       /\ i \in DOMAIN m => Known(i) = m[i]
                       /\ Known(i).master => i \in DOMAIN m /\ m[i].master
                       /\ i \notin DOMAIN m =>
                            /\ Known(i).age = 0
                            /\ Known(i).inc = view[i].inc
                            /\ Known(i).state = view[i].state
  <2> SUFFICES ASSUME NEW i \in named
               PROVE  /\ Known(i) \in NodeInfo
                      /\ i \in DOMAIN m => Known(i) = m[i]
                      /\ Known(i).master => i \in DOMAIN m /\ m[i].master
                      /\ i \notin DOMAIN m =>
                           /\ Known(i).age = 0
                           /\ Known(i).inc = view[i].inc
                           /\ Known(i).state = view[i].state
    OBVIOUS
  <2>1. i \in Ids /\ view[i].state \in NodeState /\ view[i].inc \in Incs
    BY <1>1 DEF GossipEntry
  <2>2. i \notin DOMAIN m => Known(i) = NewPeer(from, view[i].state, view[i].inc)
    BY DEF EntryOr
  <2>3. LET x == NewPeer(from, view[i].state, view[i].inc)
        IN  x.age = 0 /\ x.inc = view[i].inc /\ x.state = view[i].state
    BY DEF NewPeer
  <2> QED BY <2>1, <2>2, <2>3, EntryOrType
<1>3. \A i \in named : LET x == Merge(Known(i), view[i])
                       IN  /\ x \in NodeInfo
                           /\ x.master = Known(i).master
                           /\ x.age = Known(i).age
                           /\ x.addr = Known(i).addr
                           /\ x.inc >= Known(i).inc
                           /\ \/ x.inc = Known(i).inc /\ x.state = Known(i).state
                              \/ x.inc = view[i].inc /\ x.state = view[i].state
  BY <1>1, <1>2, MergeType
<1>4. new = [i \in DOMAIN m \cup named |->
               IF i \in named THEN Merge(Known(i), view[i]) ELSE m[i]]
  BY DEF HeardGossip
<1> HIDE DEF Known, named, new
<1>5. DOMAIN new = DOMAIN m \cup named
  BY <1>4
<1>6. \A i \in named : new[i] = Merge(Known(i), view[i])
  BY <1>4
<1>7. \A i \in DOMAIN m : i \notin named => new[i] = m[i]
  BY <1>4
<1>8. DOMAIN m \subseteq Ids /\ \A i \in DOMAIN m : m[i] \in NodeInfo
  BY DEF IsTable
<1>9. IsTable(new)
  <2>1. new = [i \in DOMAIN new |-> new[i]]
    BY <1>4
  <2>2. \A i \in DOMAIN new : new[i] \in NodeInfo
    BY <1>3, <1>5, <1>6, <1>7, <1>8
  <2> QED BY <1>1, <1>5, <1>8, <2>1, <2>2 DEF IsTable
<1>10. KeptBy(m, new)
  <2> SUFFICES ASSUME NEW j \in DOMAIN m
               PROVE  /\ new[j].inc >= m[j].inc
                      /\ new[j].age = m[j].age
                      /\ new[j].addr = m[j].addr
    BY DEF KeptBy
  <2>1. CASE j \in named
    BY <2>1, <1>2, <1>3, <1>6
  <2>2. CASE j \notin named
    <3>1. m[j].inc \in Nat
      BY <1>8, IncsAssumption DEF NodeInfo
    <3> QED BY <2>2, <3>1, <1>7
  <2> QED BY <2>1, <2>2
<1>11. \A j \in DOMAIN new : new[j].master => j \in DOMAIN m /\ m[j].master
  BY <1>2, <1>3, <1>5, <1>6, <1>7
<1>12. \A j \in DOMAIN new : FromTableOrView(m, view, self, new, j)
  <2> SUFFICES ASSUME NEW j \in DOMAIN new
               PROVE  FromTableOrView(m, view, self, new, j)
    OBVIOUS
  <2>1. CASE j \in named
    BY <2>1, <1>2, <1>3, <1>6 DEF FromTableOrView, named
  <2>2. CASE j \notin named
    BY <2>2, <1>5, <1>7 DEF FromTableOrView
  <2> QED BY <2>1, <2>2
<1> QED BY <1>5, <1>9, <1>10, <1>11, <1>12 DEF new, named

-----------------------------------------------------------------------------
(***************************************************************************)
(* The election and the detector.                                          *)
(***************************************************************************)

\* The election of master_from always has a result: it is a member of the
\* Alive set and the lowest one.
LEMMA MasterIsLowest ==
  ASSUME NEW m, IsTable(m), NEW self \in Ids
  PROVE  /\ MasterFrom(m, self) \in AliveIds(m, self)
         /\ \A j \in AliveIds(m, self) : MasterFrom(m, self) <= j
<1> DEFINE T == AliveIds(m, self)
           R == OpToRel(<, Nat)
<1>1. T \subseteq Nat /\ T # {}
  BY IdsAssumption DEF AliveIds, IsTable
<1>2. PICK x \in T : \A y \in T : ~(<<y, x>> \in R)
  <2> HIDE DEF T, R
  <2>1. IsWellFoundedOn(R, Nat)
    BY NatLessThanWellFounded DEF R
  <2> QED BY <1>1, <2>1, WFMin
<1>3. \A y \in T : x <= y
  <2> TAKE y \in T
  <2>1. x \in Nat /\ y \in Nat /\ ~(<<y, x>> \in R)
    BY <1>1, <1>2
  <2>2. ~(y < x)
    BY <2>1 DEF OpToRel
  <2> HIDE DEF R
  <2> QED BY <2>1, <2>2
<1> HIDE DEF T
<1>4. MasterFrom(m, self) = CHOOSE i \in T : \A j \in T : i <= j
  BY DEF MasterFrom, T
<1> QED BY <1>3, <1>4 DEF T

\* The marking loop of a pass keeps a subset of the entries, and changes
\* nothing but states.
LEMMA MarkStatesIsTable ==
  ASSUME NEW m, IsTable(m), NEW k
  PROVE  LET new == MarkStates(m, k)
         IN  /\ IsTable(new)
             /\ DOMAIN new \subseteq DOMAIN m
             /\ \A i \in DOMAIN new : /\ new[i].inc = m[i].inc
                                      /\ new[i].age = m[i].age
                                      /\ new[i].addr = m[i].addr
                                      /\ new[i].master = m[i].master
                                      /\ new[i].state = Judged(m[i], k)
                                      /\ AgeAtNow(m[i], k) < CleanupAge
<1> DEFINE new == MarkStates(m, k)
<1>1. \A i \in DOMAIN m : Judged(m[i], k) \in NodeState
  BY DEF Judged, IsTable, NodeInfo, NodeState
<1>2. /\ Retained(m, k) \subseteq DOMAIN m
      /\ \A i \in Retained(m, k) : AgeAtNow(m[i], k) < CleanupAge
  BY DEF Retained
<1>3. \A i \in DOMAIN m : m[i] \in NodeInfo
  BY DEF IsTable
<1>4. ASSUME NEW i \in DOMAIN m
      PROVE  LET x == [m[i] EXCEPT !.state = Judged(m[i], k)]
             IN  x \in NodeInfo /\ x.inc = m[i].inc /\ x.age = m[i].age
                   /\ x.addr = m[i].addr /\ x.master = m[i].master
                   /\ x.state = Judged(m[i], k)
  BY <1>1, <1>3 DEF NodeInfo
<1> QED BY <1>2, <1>4 DEF MarkStates, IsTable

\* The flag loop of a pass flags exactly the elected peer, if it is one.
LEMMA MarkMasterIsTable ==
  ASSUME NEW m, IsTable(m), NEW self
  PROVE  LET new == MarkMaster(m, self)
         IN  /\ IsTable(new)
             /\ DOMAIN new = DOMAIN m
             /\ \A i \in DOMAIN m : /\ new[i].inc = m[i].inc
                                    /\ new[i].age = m[i].age
                                    /\ new[i].addr = m[i].addr
                                    /\ new[i].state = m[i].state
                                    /\ new[i].master = (i = MasterFrom(m, self))
<1>1. \A i \in DOMAIN m : m[i] \in NodeInfo
  BY DEF IsTable
<1>2. ASSUME NEW i \in DOMAIN m, NEW b \in BOOLEAN
      PROVE  LET x == [m[i] EXCEPT !.master = b]
             IN  /\ x \in NodeInfo /\ x.inc = m[i].inc /\ x.age = m[i].age
                 /\ x.addr = m[i].addr /\ x.state = m[i].state
                 /\ x.master = b
  BY <1>1 DEF NodeInfo
<1> QED BY <1>2 DEF MarkMaster, IsTable

\* A pass of the detector yields a table that lists no new peer and whose
\* only flag, if any, is that of the peer elected in it; incarnations, ages
\* and addresses are as they were.
LEMMA FailureScanIsTable ==
  ASSUME NEW m, IsTable(m), NEW self \in Ids, NEW k
  PROVE  LET new == FailureScan(m, self, k)
         IN  /\ IsTable(new)
             /\ DOMAIN new \subseteq DOMAIN m
             /\ \A i \in DOMAIN new :
                  /\ new[i].inc = m[i].inc
                  /\ new[i].addr = m[i].addr
                  /\ new[i].age = m[i].age
                  /\ new[i].state = Judged(m[i], k)
                  /\ AgeAtNow(m[i], k) < CleanupAge
                  /\ new[i].master = (i = MasterFrom(new, self))
             /\ MasterFrom(new, self) \in AliveIds(new, self)
             /\ MasterFrom(new, self) <= self
<1> DEFINE s == MarkStates(m, k)
           new == FailureScan(m, self, k)
<1>1. new = MarkMaster(s, self)
  BY DEF FailureScan
<1>2. /\ IsTable(s)
      /\ DOMAIN s \subseteq DOMAIN m
      /\ \A i \in DOMAIN s : /\ s[i].inc = m[i].inc
                             /\ s[i].age = m[i].age
                             /\ s[i].addr = m[i].addr
                             /\ s[i].state = Judged(m[i], k)
                             /\ AgeAtNow(m[i], k) < CleanupAge
  BY MarkStatesIsTable
<1> HIDE DEF s, new
<1>3. /\ IsTable(new)
      /\ DOMAIN new = DOMAIN s
      /\ \A i \in DOMAIN s : /\ new[i].inc = s[i].inc
                             /\ new[i].age = s[i].age
                             /\ new[i].addr = s[i].addr
                             /\ new[i].state = s[i].state
                             /\ new[i].master = (i = MasterFrom(s, self))
  BY <1>1, <1>2, MarkMasterIsTable
<1>4. AliveIds(new, self) = AliveIds(s, self)
  BY <1>3 DEF AliveIds
<1>5. MasterFrom(new, self) = MasterFrom(s, self)
  BY <1>4 DEF MasterFrom
<1>6. /\ MasterFrom(s, self) \in AliveIds(s, self)
      /\ MasterFrom(s, self) <= self
  BY <1>2, MasterIsLowest DEF AliveIds
<1> QED BY <1>2, <1>3, <1>4, <1>5, <1>6 DEF new

\* Ageing keeps an entry well-formed and changes only its age, upwards.
LEMMA OlderType ==
  ASSUME NEW info \in NodeInfo
  PROVE  LET new == [info EXCEPT !.age = Older(info.age)]
         IN  /\ new \in NodeInfo
             /\ new.master = info.master /\ new.inc = info.inc
             /\ new.addr = info.addr /\ new.state = info.state
             /\ new.age >= info.age
<1>1. info.age \in -MaxStep .. MaxAge
  BY DEF NodeInfo
<1>2. Older(info.age) \in -MaxStep .. MaxAge /\ Older(info.age) >= info.age
  BY <1>1, AgesAssumption DEF Older, MaxAge
<1> QED BY <1>2 DEF NodeInfo

\* The passing of time changes nothing in a table but ages, upwards.
LEMMA OlderIsTable ==
  ASSUME NEW m, IsTable(m)
  PROVE  LET new == [i \in DOMAIN m |-> [m[i] EXCEPT !.age = Older(@)]]
         IN  /\ IsTable(new)
             /\ DOMAIN new = DOMAIN m
             /\ \A i \in DOMAIN m :
                  /\ new[i].master = m[i].master
                  /\ new[i].inc = m[i].inc
                  /\ new[i].addr = m[i].addr
                  /\ new[i].state = m[i].state
                  /\ new[i].age >= m[i].age
<1> DEFINE new == [i \in DOMAIN m |-> [m[i] EXCEPT !.age = Older(@)]]
<1>1. \A i \in DOMAIN m : m[i] \in NodeInfo
  BY DEF IsTable
<1>2. DOMAIN new = DOMAIN m /\ new = [i \in DOMAIN new |-> new[i]]
  OBVIOUS
<1>3. \A i \in DOMAIN m : new[i] = [m[i] EXCEPT !.age = Older(m[i].age)]
  OBVIOUS
<1> HIDE DEF new
<1>4. \A i \in DOMAIN m : /\ new[i] \in NodeInfo
                          /\ new[i].master = m[i].master
                          /\ new[i].inc = m[i].inc
                          /\ new[i].addr = m[i].addr
                          /\ new[i].state = m[i].state
                          /\ new[i].age >= m[i].age
  BY <1>1, <1>3, OlderType
<1> QED BY <1>2, <1>3, <1>4 DEF IsTable, new

=============================================================================
