---------------------------- MODULE PxebootProofs ---------------------------
(***************************************************************************)
(* Proofs about pxeboot, for any machines, pool, static addresses, number  *)
(* of control connections and bounds.                                      *)
(***************************************************************************)
EXTENDS Pxeboot, WellFoundedInduction, TLAPS

(***************************************************************************)
(* The conjuncts of TypeOK by the part of the state they are about.        *)
(***************************************************************************)
BootOK == DOMAIN boot \subseteq Macs /\ \A m \in DOMAIN boot : boot[m] \in BootEntry
LeasesOK == DOMAIN leases \subseteq Macs /\ \A m \in DOMAIN leases : leases[m] \in Lease
FilesOK == files \in [Macs -> Contents]
\* The DHCP task waits for a datagram, or has ended.
RestTasks == [at : {"idle", "ended"}]

TaskOK ==
    /\ DOMAIN task = Tasks
    /\ \A c \in Conns : task[c] \in IdleTasks \cup WriteTasks
    /\ task[Dhcp] \in RestTasks \cup DhcpTasks
    /\ task[Dhcp] \in DhcpTasks => task[Dhcp].mac \in DOMAIN boot
GivenOK == given \in [Macs -> SUBSET StaticIps]
CountsOK == failures \in 0 .. MaxFailures /\ restarts \in 0 .. MaxRestarts

\* A static address in the boot table, or in the hands of allocate_ip, which
\* has asked the table for it before, was registered for its machine;
\* dhcp_server registers none (main.rs:365).
StaticsRegistered ==
    \A m \in DOMAIN boot : m \in Macs /\ boot[m].ip \in {NoIp} \cup given[m]

StaticAsked ==
    task[Dhcp].at = "lease" => task[Dhcp].static \in {NoIp} \cup given[task[Dhcp].mac]

\* The inductive invariant: an address enters the lease table from Free, or
\* was registered.
Inv == TypeOK /\ StaticsRegistered /\ StaticAsked /\ LeasesDistinct

\* Nothing that was registered is forgotten, except at a restart.
GivenGrows == \A m \in Macs : given[m] \subseteq given'[m]

-----------------------------------------------------------------------------
\* The search of allocate_ip (main.rs:237) finds an address that is free, if
\* there is one.
LEMMA FirstFreeIsFree == Free # {} => FirstFree \in Free
<1> SUFFICES ASSUME Free # {} PROVE FirstFree \in Free
  OBVIOUS
<1> DEFINE F == Free
           R == OpToRel(<, Nat)
<1>1. F \subseteq Nat /\ F # {}
  BY PoolAssumption DEF Free, Pool
<1>2. PICK a \in F : \A b \in F : ~(<<b, a>> \in R)
  <2> HIDE DEF F, R
  <2>1. IsWellFoundedOn(R, Nat)
    BY NatLessThanWellFounded DEF R
  <2> QED BY <1>1, <2>1, WFMin
<1>3. \A b \in F : a <= b
  <2> TAKE b \in F
  <2>1. a \in Nat /\ b \in Nat /\ ~(<<b, a>> \in R)
    BY <1>1, <1>2
  <2>2. ~(b < a)
    BY <2>1 DEF OpToRel
  <2> HIDE DEF R
  <2> QED BY <2>1, <2>2
<1> HIDE DEF F
<1>4. FirstFree = CHOOSE x \in F : \A b \in F : x <= b
  BY DEF FirstFree, F
<1> QED BY <1>3, <1>4 DEF F

\* A task in write_ipxe_script has a machine and an entry, and goes on to a
\* well-formed place for the same machine.
LEMMA WrittenType ==
  ASSUME TaskOK, NEW t \in Tasks, task[t].at \in {"open", "write"}
  PROVE  /\ task[t] \in WriteTasks
         /\ task[t].mac \in Macs
         /\ task[t].entry \in Rendering
         /\ t = Dhcp => /\ Written(t) \in DhcpTasks
                        /\ Written(t).mac = task[t].mac
                        /\ Written(t).at = "allocate"
                        /\ task[t].mac \in DOMAIN boot
         /\ t # Dhcp => Written(t) \in IdleTasks
<1>1. task[t] \in WriteTasks
  BY DEF TaskOK, Tasks, IdleTasks, RestTasks, DhcpTasks
<1>2. task[t].mac \in Macs /\ task[t].entry \in Rendering
  BY <1>1 DEF WriteTasks
<1>3. CASE t = Dhcp
  <2>1. task[t].mac \in DOMAIN boot
    BY <1>1, <1>3 DEF TaskOK, DhcpTasks
  <2> QED BY <1>1, <1>2, <1>3, <2>1 DEF Written, DhcpTasks
<1>4. CASE t # Dhcp
  BY <1>1, <1>2, <1>4 DEF Written, IdleTask, IdleTasks
<1> QED BY <1>3, <1>4

\* One task moves on while the boot table loses no machine.
LEMMA TaskMoves ==
  ASSUME TaskOK, NEW t \in Tasks, NEW v,
         t \in Conns => v \in IdleTasks \cup WriteTasks,
         t = Dhcp => v \in RestTasks \cup DhcpTasks,
         t = Dhcp /\ v \in DhcpTasks => v.mac \in DOMAIN boot',
         DOMAIN boot \subseteq DOMAIN boot',
         task' = [task EXCEPT ![t] = v]
  PROVE  TaskOK'
<1>1. DOMAIN task' = Tasks /\ task'[t] = v /\ \A x \in Tasks : x # t => task'[x] = task[x]
  BY DEF TaskOK
<1>2. \A c \in Conns : task'[c] \in IdleTasks \cup WriteTasks
  BY <1>1 DEF TaskOK, Tasks
<1>3. task'[Dhcp] \in RestTasks \cup DhcpTasks
  BY <1>1 DEF TaskOK, Tasks
<1>4. task'[Dhcp] \in DhcpTasks => task'[Dhcp].mac \in DOMAIN boot'
  BY <1>1 DEF TaskOK, Tasks
<1> QED BY <1>1, <1>2, <1>3, <1>4
       DEF TaskOK, IdleTasks, RestTasks, WriteTasks, DhcpTasks, Rendering

\* Inserting a well-formed entry (main.rs:361, 618) keeps the boot table.
LEMMA BootInsert ==
  ASSUME BootOK, StaticsRegistered, GivenGrows, NEW mac \in Macs, NEW entry \in BootEntry,
         entry.ip \in {NoIp} \cup given'[mac], boot' = Put(boot, mac, entry)
  PROVE  /\ BootOK' /\ StaticsRegistered'
         /\ DOMAIN boot \subseteq DOMAIN boot'
         /\ mac \in DOMAIN boot' /\ boot'[mac] = entry
<1>1. /\ DOMAIN boot' = DOMAIN boot \cup {mac}
      /\ boot'[mac] = entry
      /\ \A x \in DOMAIN boot : x # mac => boot'[x] = boot[x]
  BY DEF Put
<1>2. BootOK'
  BY <1>1 DEF BootOK
<1>3. StaticsRegistered'
  BY <1>1 DEF StaticsRegistered, GivenGrows, NoIp
<1> QED BY <1>1, <1>2, <1>3

\* allocate_ip offers at most one address: the static one it was told of, the
\* one leased before, or a free one of the pool.
LEMMA OfferableFacts ==
  ASSUME LeasesOK, GivenOK, NEW mac \in Macs, NEW static \in {NoIp} \cup given[mac],
         NEW ip \in Offerable(mac, static)
  PROVE  /\ ip \in Nat
         /\ \/ ip \in given[mac]
            \/ mac \in DOMAIN leases /\ ip = leases[mac].ip
            \/ mac \notin DOMAIN leases /\ ip \in Free
<1>1. given[mac] \subseteq Nat
  BY PoolAssumption DEF GivenOK
<1>2. CASE static # NoIp
  BY <1>1, <1>2 DEF Offerable
<1>3. CASE static = NoIp /\ mac \in DOMAIN leases
  BY <1>3 DEF Offerable, LeasesOK, Lease
<1>4. CASE static = NoIp /\ mac \notin DOMAIN leases
  <2>1. ip \in Free
    BY <1>4, FirstFreeIsFree DEF Offerable
  <2> QED BY <1>4, <2>1, PoolAssumption DEF Free, Pool
<1> QED BY <1>2, <1>3, <1>4

\* Storing the lease of such an address (main.rs:385) keeps apart the addresses
\* that nobody registered.
LEMMA LeaseStored ==
  ASSUME LeasesOK, GivenOK, LeasesDistinct, given' = given,
         NEW mac \in Macs, NEW static \in {NoIp} \cup given[mac],
         NEW ip \in Offerable(mac, static),
         leases' = Put(leases, mac, [ip |-> ip, left |-> LeaseSecs])
  PROVE  LeasesOK' /\ LeasesDistinct'
<1> DEFINE new == [ip |-> ip, left |-> LeaseSecs]
<1>1. /\ DOMAIN leases' = DOMAIN leases \cup {mac}
      /\ leases'[mac] = new
      /\ \A x \in DOMAIN leases : x # mac => leases'[x] = leases[x]
  BY DEF Put
<1>2. /\ ip \in Nat
      /\ \/ ip \in given[mac]
         \/ mac \in DOMAIN leases /\ ip = leases[mac].ip
         \/ mac \notin DOMAIN leases /\ ip \in Free
  BY OfferableFacts
<1>3. LeasesOK'
  <2>1. new \in Lease
    BY <1>2, PxeAssumption DEF Lease
  <2> QED BY <1>1, <2>1 DEF LeasesOK
<1>4. LeasesDistinct'
  <2> SUFFICES ASSUME NEW m \in DOMAIN leases', NEW n \in DOMAIN leases', m # n,
                      leases'[m].ip = leases'[n].ip
               PROVE  leases'[m].ip \in given[m] \cup given[n]
    BY DEF LeasesDistinct
  <2>1. ASSUME NEW x \in DOMAIN leases, x # mac, leases[x].ip = ip
        PROVE  ip \in given[mac] \cup given[x]
    <3>1. CASE mac \in DOMAIN leases /\ ip = leases[mac].ip
      BY <2>1, <3>1 DEF LeasesDistinct
    <3>2. CASE ip \in Free
      BY <2>1, <3>2 DEF Free, Leased
    <3> QED BY <1>2, <2>1, <3>1, <3>2
  <2>2. leases'[mac].ip = ip
    BY <1>1
  <2>3. CASE m = mac
    BY <1>1, <2>1, <2>2, <2>3
  <2>4. CASE n = mac
    BY <1>1, <2>1, <2>2, <2>4
  <2>5. CASE m # mac /\ n # mac
    BY <1>1, <2>5 DEF LeasesDistinct
  <2> QED BY <2>3, <2>4, <2>5
<1> QED BY <1>3, <1>4

\* Leases run out, and keep their addresses.
LEMMA ExpiredLeases ==
  ASSUME LeasesOK, leases' = Expire(leases)
  PROVE  /\ LeasesOK'
         /\ DOMAIN leases' = DOMAIN leases
         /\ \A m \in DOMAIN leases : leases'[m].ip = leases[m].ip
<1>1. DOMAIN leases' = DOMAIN leases
  BY DEF Expire
<1>2. ASSUME NEW m \in DOMAIN leases
      PROVE  leases'[m] \in Lease /\ leases'[m].ip = leases[m].ip
  <2>1. leases[m] \in Lease
    BY DEF LeasesOK
  <2>2. leases'[m] = [leases[m] EXCEPT !.left = IF @ > 0 THEN @ - 1 ELSE 0]
    BY DEF Expire
  <2> QED BY <2>1, <2>2, PxeAssumption DEF Lease
<1> QED BY <1>1, <1>2 DEF LeasesOK

-----------------------------------------------------------------------------
\* TypeOK is the conjunction of its parts.
LEMMA TypeParts ==
  TypeOK <=> BootOK /\ LeasesOK /\ FilesOK /\ TaskOK /\ GivenOK /\ CountsOK
  BY DEF TypeOK, BootOK, LeasesOK, FilesOK, TaskOK, RestTasks, GivenOK, CountsOK

LEMMA TypePartsPrimed ==
  BootOK' /\ LeasesOK' /\ FilesOK' /\ TaskOK' /\ GivenOK' /\ CountsOK' => TypeOK'
  BY DEF TypeOK, BootOK, LeasesOK, FilesOK, TaskOK, RestTasks, GivenOK, CountsOK

\* A part whose variables do not change is kept.
LEMMA BootKept ==
  ASSUME BootOK, StaticsRegistered, boot' = boot, given' = given
  PROVE  BootOK' /\ StaticsRegistered' /\ DOMAIN boot \subseteq DOMAIN boot'
  BY DEF BootOK, StaticsRegistered, BootEntry

LEMMA LeasesKept ==
  ASSUME LeasesOK, LeasesDistinct, leases' = leases, GivenGrows
  PROVE  LeasesOK' /\ LeasesDistinct'
<1>1. LeasesOK'
  BY DEF LeasesOK, Lease
<1>2. LeasesDistinct'
  BY DEF LeasesOK, LeasesDistinct, GivenGrows
<1> QED BY <1>1, <1>2

LEMMA FilesKept == ASSUME FilesOK, files' = files PROVE FilesOK'
  BY DEF FilesOK

LEMMA GivenKept == ASSUME GivenOK, given' = given PROVE GivenOK' /\ GivenGrows
  BY DEF GivenOK, GivenGrows

LEMMA CountsKept ==
  ASSUME CountsOK, UNCHANGED <<failures, restarts>> PROVE CountsOK'
  BY DEF CountsOK

\* What allocate_ip has been told stays registered.
LEMMA AskedKept ==
  ASSUME TaskOK, StaticAsked, GivenGrows, task'[Dhcp] = task[Dhcp]
  PROVE  StaticAsked'
<1>1. task[Dhcp].at = "lease" => task[Dhcp].mac \in Macs
  BY DEF TaskOK, RestTasks, DhcpTasks, WriteTasks
<1> QED BY <1>1 DEF StaticAsked, GivenGrows

\* When the daemon starts nothing is registered or leased.
LEMMA InitInv == Init => Inv
<1> SUFFICES ASSUME Init PROVE Inv
  OBVIOUS
<1>1. BootOK /\ LeasesOK /\ StaticsRegistered /\ LeasesDistinct
  BY DEF Init, Nothing, BootOK, LeasesOK, StaticsRegistered, LeasesDistinct
<1>2. FilesOK /\ GivenOK /\ CountsOK
  BY PxeAssumption DEF Init, FilesOK, Contents, GivenOK, CountsOK
<1>3. TaskOK /\ StaticAsked
  BY DEF Init, TaskOK, StaticAsked, Tasks, IdleTask, IdleTasks, RestTasks, DhcpTasks,
         WriteTasks
<1> QED BY <1>1, <1>2, <1>3, TypeParts DEF Inv

\* A DISCOVER or REQUEST registers unknown hardware before it is served.
LEMMA DiscoverInv == ASSUME Inv, NEW mac \in Macs, Discover(mac) PROVE Inv'
<1>1. /\ BootOK /\ LeasesOK /\ FilesOK /\ TaskOK /\ GivenOK /\ CountsOK
      /\ StaticsRegistered /\ StaticAsked /\ LeasesDistinct
  BY TypeParts DEF Inv
<1>2. GivenOK' /\ GivenGrows /\ given' = given
  BY <1>1, GivenKept DEF Discover
<1>3. /\ BootOK' /\ StaticsRegistered' /\ DOMAIN boot \subseteq DOMAIN boot'
      /\ mac \in DOMAIN boot'
  <2>1. CASE mac \in DOMAIN boot
    BY <1>1, <1>2, <2>1, BootKept DEF Discover
  <2>2. CASE mac \notin DOMAIN boot
    <3>1. NewHardware \in BootEntry /\ NewHardware.ip = NoIp
      BY DEF NewHardware, BootEntry
    <3>2. boot' = Put(boot, mac, NewHardware)
      BY <2>2 DEF Discover
    <3> QED BY <1>1, <1>2, <3>1, <3>2, BootInsert
  <2> QED BY <2>1, <2>2
<1>4. TaskOK' /\ StaticAsked'
  <2> DEFINE v == [at |-> "open", mac |-> mac, entry |-> RenderingOf(boot'[mac])]
  <2>1. boot'[mac] \in BootEntry
    BY <1>3 DEF BootOK
  <2>2. RenderingOf(boot'[mac]) \in Rendering
    BY <2>1 DEF RenderingOf, Rendering, BootEntry
  <2>3. v \in DhcpTasks /\ v.mac \in DOMAIN boot' /\ v.at # "lease"
    BY <1>3, <2>2 DEF DhcpTasks, WriteTasks
  <2>4. task' = [task EXCEPT ![Dhcp] = v]
    BY DEF Discover
  <2> HIDE DEF v
  <2>5. TaskOK'
    BY <1>1, <1>3, <2>3, <2>4, TaskMoves, PxeAssumption DEF Tasks
  <2>6. task'[Dhcp] = v
    BY <1>1, <2>4 DEF TaskOK, Tasks
  <2> QED BY <2>3, <2>5, <2>6 DEF StaticAsked
<1>5. LeasesOK' /\ LeasesDistinct' /\ FilesOK' /\ CountsOK'
  BY <1>1, <1>2, LeasesKept, FilesKept, CountsKept DEF Discover
<1> QED BY <1>2, <1>3, <1>4, <1>5, TypePartsPrimed DEF Inv

\* allocate_ip asks the boot table.
LEMMA AskTableInv == ASSUME Inv, AskTable PROVE Inv'
<1>1. /\ BootOK /\ LeasesOK /\ FilesOK /\ TaskOK /\ GivenOK /\ CountsOK
      /\ StaticsRegistered /\ StaticAsked /\ LeasesDistinct
  BY TypeParts DEF Inv
<1> DEFINE mac == task[Dhcp].mac
           v == [at |-> "lease", mac |-> mac, static |-> boot[mac].ip]
<1>2. mac \in Macs /\ mac \in DOMAIN boot
  BY <1>1 DEF AskTable, TaskOK, RestTasks, DhcpTasks, WriteTasks
<1>3. GivenOK' /\ GivenGrows /\ given' = given
  BY <1>1, GivenKept DEF AskTable
<1>4. BootOK' /\ StaticsRegistered' /\ DOMAIN boot \subseteq DOMAIN boot'
  BY <1>1, <1>3, BootKept DEF AskTable
<1>5. LeasesOK' /\ LeasesDistinct' /\ FilesOK' /\ CountsOK'
  BY <1>1, <1>3, LeasesKept, FilesKept, CountsKept DEF AskTable
<1>6. boot[mac].ip \in Nat \cup {NoIp} /\ boot[mac].ip \in {NoIp} \cup given'[mac]
  BY <1>1, <1>2, <1>3 DEF BootOK, BootEntry, StaticsRegistered
<1>7. task' = [task EXCEPT ![Dhcp] = v]
  BY DEF AskTable
<1>8. /\ v \in DhcpTasks /\ v.mac \in DOMAIN boot'
      /\ v.mac = mac /\ v.static = boot[mac].ip
  BY <1>2, <1>4, <1>6 DEF DhcpTasks
<1> HIDE DEF v, mac
<1>9. TaskOK'
  BY <1>1, <1>4, <1>7, <1>8, TaskMoves, PxeAssumption DEF Tasks
<1>10. task'[Dhcp] = v
  BY <1>1, <1>7 DEF TaskOK, Tasks
<1>11. StaticAsked'
  BY <1>6, <1>8, <1>10 DEF StaticAsked
<1> QED BY <1>3, <1>4, <1>5, <1>9, <1>11, TypePartsPrimed DEF Inv

\* The lease of what allocate_ip finds.
LEMMA StoreLeaseInv == ASSUME Inv, StoreLease PROVE Inv'
<1>1. /\ BootOK /\ LeasesOK /\ FilesOK /\ TaskOK /\ GivenOK /\ CountsOK
      /\ StaticsRegistered /\ StaticAsked /\ LeasesDistinct
  BY TypeParts DEF Inv
<1> DEFINE mac == task[Dhcp].mac
           v == [at |-> "reply", mac |-> mac]
<1>2. /\ mac \in Macs /\ mac \in DOMAIN boot
      /\ task[Dhcp].static \in {NoIp} \cup given[mac]
  BY <1>1 DEF StoreLease, TaskOK, StaticAsked, RestTasks, DhcpTasks, WriteTasks
<1>3. GivenOK' /\ GivenGrows /\ given' = given
  BY <1>1, GivenKept DEF StoreLease
<1>4. BootOK' /\ StaticsRegistered' /\ DOMAIN boot \subseteq DOMAIN boot'
  BY <1>1, <1>3, BootKept DEF StoreLease
<1>5. task' = [task EXCEPT ![Dhcp] = v]
  BY DEF StoreLease
<1>6. v \in DhcpTasks /\ v.mac \in DOMAIN boot' /\ v.at # "lease"
  BY <1>2, <1>4 DEF DhcpTasks
<1>7. PICK ip \in Offerable(mac, task[Dhcp].static) :
        leases' = Put(leases, mac, [ip |-> ip, left |-> LeaseSecs])
  BY DEF StoreLease
<1> HIDE DEF v, mac
<1>8. LeasesOK' /\ LeasesDistinct'
  BY <1>1, <1>2, <1>3, <1>7, LeaseStored
<1>9. TaskOK'
  BY <1>1, <1>4, <1>5, <1>6, TaskMoves, PxeAssumption DEF Tasks
<1>10. task'[Dhcp] = v
  BY <1>1, <1>5 DEF TaskOK, Tasks
<1>11. StaticAsked'
  BY <1>6, <1>10 DEF StaticAsked
<1>12. FilesOK' /\ CountsOK'
  BY <1>1, FilesKept, CountsKept DEF StoreLease
<1> QED BY <1>3, <1>4, <1>8, <1>9, <1>11, <1>12, TypePartsPrimed DEF Inv

\* The DHCP task is done with a machine, or ends.
LEMMA DoneInv == ASSUME Inv, DhcpEnds \/ Refuse \/ Reply PROVE Inv'
<1>1. /\ BootOK /\ LeasesOK /\ FilesOK /\ TaskOK /\ GivenOK /\ CountsOK
      /\ StaticsRegistered /\ StaticAsked /\ LeasesDistinct
  BY TypeParts DEF Inv
<1>2. /\ UNCHANGED <<boot, leases, files, given, failures, restarts>>
      /\ \E v \in RestTasks : task' = [task EXCEPT ![Dhcp] = v]
  BY DEF DhcpEnds, Refuse, Reply, IdleTask, RestTasks
<1>3. PICK v \in RestTasks : task' = [task EXCEPT ![Dhcp] = v]
  BY <1>2
<1>4. v.at \in {"idle", "ended"} /\ v \notin DhcpTasks
  BY DEF RestTasks, DhcpTasks, WriteTasks
<1>5. GivenOK' /\ GivenGrows /\ given' = given
  BY <1>1, <1>2, GivenKept
<1>6. BootOK' /\ StaticsRegistered' /\ DOMAIN boot \subseteq DOMAIN boot'
  BY <1>1, <1>2, BootKept
<1>7. TaskOK'
  BY <1>1, <1>3, <1>4, <1>6, TaskMoves, PxeAssumption DEF Tasks
<1>8. task'[Dhcp] = v
  BY <1>1, <1>3 DEF TaskOK, Tasks
<1>9. StaticAsked'
  BY <1>4, <1>8 DEF StaticAsked
<1>10. LeasesOK' /\ LeasesDistinct' /\ FilesOK' /\ CountsOK'
  BY <1>1, <1>2, <1>5, LeasesKept, FilesKept, CountsKept
<1> QED BY <1>5, <1>6, <1>7, <1>9, <1>10, TypePartsPrimed DEF Inv

\* boot.register replaces an entry, also of the machine that is being served.
LEMMA RegisterInv ==
  ASSUME Inv, NEW c \in Conns, NEW mac \in Macs, NEW entry \in Registrable,
         Register(c, mac, entry)
  PROVE  Inv'
<1>1. /\ BootOK /\ LeasesOK /\ FilesOK /\ TaskOK /\ GivenOK /\ CountsOK
      /\ StaticsRegistered /\ StaticAsked /\ LeasesDistinct
  BY TypeParts DEF Inv
<1>2. /\ entry \in BootEntry /\ RenderingOf(entry) \in Rendering
      /\ entry.ip \in {NoIp} \cup StaticIps
  BY PoolAssumption DEF Registrable, BootEntry, RenderingOf, Rendering
<1>3. StaticOf(entry) \subseteq StaticIps /\ entry.ip \in {NoIp} \cup StaticOf(entry)
  BY <1>2 DEF StaticOf
<1>4. given' = [given EXCEPT ![mac] = @ \cup StaticOf(entry)]
  BY DEF Register
<1>5. GivenOK' /\ GivenGrows /\ entry.ip \in {NoIp} \cup given'[mac]
  BY <1>1, <1>3, <1>4 DEF GivenOK, GivenGrows
<1>6. BootOK' /\ StaticsRegistered' /\ DOMAIN boot \subseteq DOMAIN boot'
  BY <1>1, <1>2, <1>5, BootInsert DEF Register
<1>7. TaskOK' /\ StaticAsked'
  <2> DEFINE v == [at |-> "open", mac |-> mac, entry |-> RenderingOf(entry)]
  <2>1. v \in WriteTasks
    BY <1>2 DEF WriteTasks
  <2>2. c \in Tasks /\ c # Dhcp /\ task' = [task EXCEPT ![c] = v]
    BY PxeAssumption DEF Register, Tasks
  <2> HIDE DEF v
  <2>3. TaskOK'
    BY <1>1, <1>6, <2>1, <2>2, TaskMoves
  <2>4. task'[Dhcp] = task[Dhcp]
    BY <1>1, <2>2 DEF TaskOK, Tasks
  <2> QED BY <1>1, <1>5, <2>3, <2>4, AskedKept
<1>8. LeasesOK' /\ LeasesDistinct' /\ FilesOK' /\ CountsOK'
  BY <1>1, <1>5, LeasesKept, FilesKept, CountsKept DEF Register
<1> QED BY <1>5, <1>6, <1>7, <1>8, TypePartsPrimed DEF Inv

\* A step of write_ipxe_script, in any task.
LEMMA ScriptInv == ASSUME Inv, NEW t \in Tasks, Script(t) PROVE Inv'
<1>1. /\ BootOK /\ LeasesOK /\ FilesOK /\ TaskOK /\ GivenOK /\ CountsOK
      /\ StaticsRegistered /\ StaticAsked /\ LeasesDistinct
  BY TypeParts DEF Inv
<1>2. task[t].at \in {"open", "write"} /\ UNCHANGED <<boot, leases, given, restarts>>
  BY DEF Script, NoScript, OpenScript, WriteScript, FailScript
<1>3. /\ task[t] \in WriteTasks
      /\ task[t].mac \in Macs
      /\ task[t].entry \in Rendering
      /\ t = Dhcp => /\ Written(t) \in DhcpTasks
                     /\ Written(t).mac = task[t].mac
                     /\ Written(t).at = "allocate"
                     /\ task[t].mac \in DOMAIN boot
      /\ t # Dhcp => Written(t) \in IdleTasks
  BY <1>1, <1>2, WrittenType
<1>4. /\ BootOK' /\ StaticsRegistered' /\ DOMAIN boot \subseteq DOMAIN boot'
      /\ GivenOK' /\ GivenGrows
  BY <1>1, <1>2, BootKept, GivenKept
<1>5. LeasesOK' /\ LeasesDistinct'
  BY <1>1, <1>2, <1>4, LeasesKept
<1>6. ASSUME task' = [task EXCEPT ![t] = Written(t)] PROVE TaskOK' /\ StaticAsked'
  <2>1. TaskOK'
    BY <1>1, <1>2, <1>3, <1>4, <1>6, TaskMoves, PxeAssumption
  <2>2. task'[t] = Written(t) /\ (t # Dhcp => task'[Dhcp] = task[Dhcp])
    BY <1>1, <1>6 DEF TaskOK, Tasks
  <2>3. CASE t = Dhcp
    BY <1>3, <2>1, <2>2, <2>3 DEF StaticAsked
  <2>4. CASE t # Dhcp
    BY <1>1, <1>4, <2>1, <2>2, <2>4, AskedKept
  <2> QED BY <2>3, <2>4
<1>7. CASE NoScript(t)
  <2>1. TaskOK' /\ StaticAsked'
    BY <1>6, <1>7 DEF NoScript
  <2>2. FilesOK' /\ CountsOK'
    BY <1>1, <1>7, FilesKept, CountsKept DEF NoScript
  <2> QED BY <1>4, <1>5, <2>1, <2>2, TypePartsPrimed DEF Inv
<1>8. CASE OpenScript(t)
  <2> DEFINE v == [task[t] EXCEPT !.at = "write"]
  <2>1. v \in WriteTasks /\ v.mac = task[t].mac /\ v.at = "write"
    BY <1>3 DEF WriteTasks
  <2>2. v \in DhcpTasks
    BY <2>1 DEF DhcpTasks
  <2>3. task' = [task EXCEPT ![t] = v]
    BY <1>8 DEF OpenScript
  <2> HIDE DEF v
  <2>4. TaskOK' /\ StaticAsked'
    <3>1. TaskOK'
      BY <1>1, <1>2, <1>3, <1>4, <2>1, <2>2, <2>3, TaskMoves
    <3>2. task'[t] = v /\ (t # Dhcp => task'[Dhcp] = task[Dhcp])
      BY <1>1, <2>3 DEF TaskOK, Tasks
    <3>3. CASE t = Dhcp
      BY <2>1, <3>1, <3>2, <3>3 DEF StaticAsked
    <3>4. CASE t # Dhcp
      BY <1>1, <1>4, <3>1, <3>2, <3>4, AskedKept
    <3> QED BY <3>3, <3>4
  <2>5. FilesOK'
    BY <1>1, <1>3, <1>8 DEF OpenScript, FilesOK, Contents
  <2>6. CountsOK'
    BY <1>1, <1>8, CountsKept DEF OpenScript
  <2> QED BY <1>4, <1>5, <2>4, <2>5, <2>6, TypePartsPrimed DEF Inv
<1>9. CASE WriteScript(t)
  <2>1. TaskOK' /\ StaticAsked'
    BY <1>6, <1>9 DEF WriteScript
  <2>2. FilesOK'
    <3>1. PICK text \in Texts(files[task[t].mac], task[t].entry.name) :
            files' = [files EXCEPT ![task[t].mac] = text]
      BY <1>9 DEF WriteScript
    <3>2. text \in Contents
      BY <1>3, <3>1 DEF Texts, Contents, Rendering
    <3> QED BY <1>1, <3>1, <3>2 DEF FilesOK
  <2>3. CountsOK'
    BY <1>1, <1>9, CountsKept DEF WriteScript
  <2> QED BY <1>4, <1>5, <2>1, <2>2, <2>3, TypePartsPrimed DEF Inv
<1>10. CASE FailScript(t)
  <2>1. TaskOK' /\ StaticAsked'
    BY <1>6, <1>10 DEF FailScript
  <2>2. FilesOK'
    BY <1>1, <1>10, FilesKept DEF FailScript
  <2>3. CountsOK'
    BY <1>1, <1>10, PxeAssumption DEF FailScript, CountsOK
  <2> QED BY <1>4, <1>5, <2>1, <2>2, <2>3, TypePartsPrimed DEF Inv
<1> QED BY <1>7, <1>8, <1>9, <1>10 DEF Script

\* Leases run out without changing hands.
LEMMA TickInv == ASSUME Inv, Tick PROVE Inv'
<1>1. /\ BootOK /\ LeasesOK /\ FilesOK /\ TaskOK /\ GivenOK /\ CountsOK
      /\ StaticsRegistered /\ StaticAsked /\ LeasesDistinct
  BY TypeParts DEF Inv
<1>2. /\ LeasesOK'
      /\ DOMAIN leases' = DOMAIN leases
      /\ \A m \in DOMAIN leases : leases'[m].ip = leases[m].ip
  BY <1>1, ExpiredLeases DEF Tick
<1>3. GivenOK' /\ GivenGrows /\ given' = given
  BY <1>1, GivenKept DEF Tick
<1>4. LeasesDistinct'
  BY <1>1, <1>2, <1>3 DEF LeasesDistinct
<1>5. BootOK' /\ StaticsRegistered'
  BY <1>1, <1>3, BootKept DEF Tick
<1>6. TaskOK' /\ StaticAsked'
  BY <1>1, <1>3, AskedKept
     DEF Tick, TaskOK, Tasks, IdleTasks, RestTasks, WriteTasks, DhcpTasks, Rendering
<1>7. FilesOK' /\ CountsOK'
  BY <1>1, FilesKept, CountsKept DEF Tick
<1> QED BY <1>2, <1>3, <1>4, <1>5, <1>6, <1>7, TypePartsPrimed DEF Inv

\* The daemon starts again with empty tables; the files stay.
LEMMA RestartInv == ASSUME Inv, Restart PROVE Inv'
<1>1. FilesOK /\ CountsOK
  BY TypeParts DEF Inv
<1>2. BootOK' /\ LeasesOK' /\ StaticsRegistered' /\ LeasesDistinct'
  BY DEF Restart, Nothing, BootOK, LeasesOK, StaticsRegistered, LeasesDistinct
<1>3. TaskOK' /\ StaticAsked'
  BY DEF Restart, TaskOK, StaticAsked, Tasks, IdleTask, IdleTasks, RestTasks, DhcpTasks,
         WriteTasks
<1>4. FilesOK' /\ GivenOK' /\ CountsOK'
  BY <1>1, PxeAssumption DEF Restart, FilesOK, GivenOK, CountsOK
<1> QED BY <1>2, <1>3, <1>4, TypePartsPrimed DEF Inv

\* Every step keeps the invariant.
LEMMA NextInv == Inv /\ [Next]_vars => Inv'
<1> SUFFICES ASSUME Inv, [Next]_vars PROVE Inv'
  OBVIOUS
<1>1. CASE \E mac \in Macs : Discover(mac)
  BY <1>1, DiscoverInv
<1>2. CASE AskTable \/ StoreLease
  BY <1>2, AskTableInv, StoreLeaseInv
<1>3. CASE DhcpEnds \/ Refuse \/ Reply
  BY <1>3, DoneInv
<1>4. CASE \E c \in Conns, mac \in Macs, entry \in Registrable : Register(c, mac, entry)
  BY <1>4, RegisterInv
<1>5. CASE \E t \in Tasks : Script(t)
  BY <1>5, ScriptInv
<1>6. CASE Tick
  BY <1>6, TickInv
<1>7. CASE Restart
  BY <1>7, RestartInv
<1>8. CASE UNCHANGED vars
  <2>1. /\ BootOK /\ LeasesOK /\ FilesOK /\ TaskOK /\ GivenOK /\ CountsOK
        /\ StaticsRegistered /\ StaticAsked /\ LeasesDistinct
    BY TypeParts DEF Inv
  <2>2. GivenOK' /\ GivenGrows
    BY <1>8, <2>1, GivenKept DEF vars
  <2>3. BootOK' /\ StaticsRegistered' /\ LeasesOK' /\ LeasesDistinct'
          /\ FilesOK' /\ CountsOK'
    BY <1>8, <2>1, <2>2, BootKept, LeasesKept, FilesKept, CountsKept DEF vars
  <2>4. TaskOK' /\ StaticAsked'
    BY <1>8, <2>1, <2>2, AskedKept
       DEF vars, TaskOK, Tasks, IdleTasks, RestTasks, WriteTasks, DhcpTasks, Rendering
  <2> QED BY <2>2, <2>3, <2>4, TypePartsPrimed DEF Inv
<1> QED BY <1>1, <1>2, <1>3, <1>4, <1>5, <1>6, <1>7, <1>8 DEF Next

-----------------------------------------------------------------------------
\* The state of the daemon is always well-formed, and the machine that the
\* DHCP task serves is in the boot table whenever the task looks it up, though
\* operators replace entries meanwhile (main.rs:354-418).
THEOREM TypeCorrect == Spec => []TypeOK
<1>1. Inv => TypeOK
  BY DEF Inv
<1> QED BY <1>1, InitInv, NextInv, PTL DEF Spec

\* Two machines have one address in the lease table only if an operator
\* registered it for one of them (main.rs:208-238), for any pool and any
\* static addresses, inside of it or not.
THEOREM SharedOnlyIfRegistered == Spec => []LeasesDistinct
<1>1. Inv => LeasesDistinct
  BY DEF Inv
<1> QED BY <1>1, InitInv, NextInv, PTL DEF Spec

\* A machine keeps its address of the pool until the daemon restarts, expired
\* or not, unless it gets one registered for it, also if the entry has been
\* replaced since allocate_ip asked for it (main.rs:213-231, 385-389).
THEOREM AddressSticky == Spec => StickyAddress
<1> DEFINE Sticky == \A m \in DOMAIN leases :
             (leases[m].ip \notin given[m] /\ restarts' = restarts) =>
                /\ m \in DOMAIN leases'
                /\ leases'[m].ip \in {leases[m].ip} \cup given[m]
<1>1. Inv /\ [Next]_vars => [Sticky]_vars
  <2> SUFFICES ASSUME Inv, Next PROVE Sticky
    OBVIOUS
  <2>1. LeasesOK /\ TaskOK /\ GivenOK /\ StaticAsked /\ CountsOK
    BY TypeParts DEF Inv
  <2>2. CASE StoreLease
    <3> DEFINE mac == task[Dhcp].mac
    <3>1. mac \in Macs /\ task[Dhcp].static \in {NoIp} \cup given[mac]
      BY <2>1, <2>2 DEF StoreLease, TaskOK, StaticAsked, RestTasks, DhcpTasks, WriteTasks
    <3>2. PICK ip \in Offerable(mac, task[Dhcp].static) :
            leases' = Put(leases, mac, [ip |-> ip, left |-> LeaseSecs])
      BY <2>2 DEF StoreLease
    <3> HIDE DEF mac
    <3>3. mac \in DOMAIN leases => ip \in {leases[mac].ip} \cup given[mac]
      BY <2>1, <3>1, <3>2, OfferableFacts
    <3>4. /\ DOMAIN leases \subseteq DOMAIN leases'
          /\ leases'[mac].ip = ip
          /\ \A x \in DOMAIN leases : x # mac => leases'[x] = leases[x]
      BY <3>2 DEF Put
    <3> QED BY <3>3, <3>4
  <2>3. CASE Tick
    BY <2>1, <2>3, ExpiredLeases DEF Tick
  <2>4. CASE Restart
    BY <2>1, <2>4 DEF Restart, CountsOK
  <2>5. CASE leases' = leases
    BY <2>5
  <2>6. StoreLease \/ Tick \/ Restart \/ leases' = leases
    BY DEF Next, Discover, DhcpEnds, AskTable, Refuse, Reply, Register, Script, NoScript,
           OpenScript, WriteScript, FailScript
  <2> QED BY <2>2, <2>3, <2>4, <2>5, <2>6
<1> QED BY <1>1, InitInv, NextInv, PTL DEF Spec, StickyAddress

-----------------------------------------------------------------------------
(***************************************************************************)
(* Scripts.  As long as no write has failed, the script that an entry      *)
(* promises is in its file or on the way: some task is about to write one  *)
(* for the machine, or has truncated the file and is about to fill it.     *)
(***************************************************************************)
Bringing(t, m) ==
    task[t].at \in {"open", "write"} /\ task[t].mac = m /\ task[t].entry.script

Promised(m) == files[m] \notin {NoFile, Empty} \/ \E t \in Tasks : Bringing(t, m)

ScriptsKept == failures = 0 => \A m \in DOMAIN boot : boot[m].script => Promised(m)

\* A task that does not stop bringing a script, and a file that is not emptied
\* otherwise, keep a promise.
LEMMA PromiseKept ==
  ASSUME NEW m, Promised(m),
         files[m] \notin {NoFile, Empty} =>
           files'[m] \notin {NoFile, Empty} \/ \E t \in Tasks : Bringing(t, m)',
         \A t \in Tasks : Bringing(t, m) =>
           Bringing(t, m)' \/ files'[m] \notin {NoFile, Empty}
  PROVE  Promised(m)'
  BY DEF Promised, Tasks

\* A step of write_ipxe_script ends with the script written, or goes on.
LEMMA ScriptKeepsPromise ==
  ASSUME Inv, NEW t \in Tasks, Script(t), failures' = 0, NEW m \in DOMAIN boot, Promised(m)
  PROVE  Promised(m)'
<1>1. FilesOK /\ TaskOK /\ CountsOK /\ m \in Macs
  BY TypeParts DEF Inv, BootOK
<1>2. ~FailScript(t)
  BY <1>1 DEF FailScript, CountsOK
<1>3. task[t].at \in {"open", "write"}
  BY DEF Script, NoScript, OpenScript, WriteScript, FailScript
<1>4. task[t] \in WriteTasks /\ task[t].mac \in Macs /\ task[t].entry \in Rendering
  BY <1>1, <1>3, WrittenType
<1>5. ASSUME NEW v, task' = [task EXCEPT ![t] = v]
      PROVE  \A x \in Tasks : x # t /\ Bringing(x, m) => Bringing(x, m)'
  BY <1>1, <1>5 DEF TaskOK, Bringing
<1>6. CASE NoScript(t)
  <2>1. ~Bringing(t, m) /\ files' = files /\ task' = [task EXCEPT ![t] = Written(t)]
    BY <1>6 DEF NoScript, Bringing
  <2> QED BY <1>5, <2>1, PromiseKept
<1>7. CASE OpenScript(t)
  <2>1. task' = [task EXCEPT ![t] = [task[t] EXCEPT !.at = "write"]]
    BY <1>7 DEF OpenScript
  <2>2. task'[t] = [task[t] EXCEPT !.at = "write"]
    BY <1>1, <2>1 DEF TaskOK
  <2>3. task'[t].at = "write" /\ task'[t].mac = task[t].mac
          /\ task'[t].entry = task[t].entry
    BY <1>4, <2>2 DEF WriteTasks
  <2>4. m = task[t].mac => Bringing(t, m)'
    BY <1>7, <2>3 DEF OpenScript, Bringing
  <2>5. CASE m = task[t].mac
    BY <2>4, <2>5 DEF Promised, Tasks
  <2>6. CASE m # task[t].mac
    <3>1. files'[m] = files[m] /\ ~Bringing(t, m)
      BY <1>1, <1>7, <2>6 DEF OpenScript, FilesOK, Bringing
    <3> QED BY <1>5, <2>1, <3>1, PromiseKept
  <2> QED BY <2>5, <2>6
<1>8. CASE WriteScript(t)
  <2>1. PICK text \in Texts(files[task[t].mac], task[t].entry.name) :
          files' = [files EXCEPT ![task[t].mac] = text]
    BY <1>8 DEF WriteScript
  <2>2. text \notin {NoFile, Empty}
    <3>1. task[t].entry.name \notin {NoFile, Empty}
      BY <1>4, MarksAssumption DEF Rendering
    <3>2. Mixed \notin {NoFile, Empty}
      BY DEF Mixed, NoFile, Empty
    <3> QED BY <2>1, <3>1, <3>2 DEF Texts
  <2>3. CASE m = task[t].mac
    <3>1. files'[m] = text
      BY <1>1, <2>1, <2>3 DEF FilesOK
    <3> QED BY <2>2, <3>1 DEF Promised
  <2>4. CASE m # task[t].mac
    <3>1. files'[m] = files[m] /\ ~Bringing(t, m)
      BY <1>1, <2>1, <2>4 DEF FilesOK, Bringing
    <3>2. task' = [task EXCEPT ![t] = Written(t)]
      BY <1>8 DEF WriteScript
    <3> QED BY <1>5, <3>1, <3>2, PromiseKept
  <2> QED BY <2>3, <2>4
<1> QED BY <1>2, <1>6, <1>7, <1>8 DEF Script

\* A task that begins to serve a machine was not bringing a script before.
LEMMA OpenKeepsPromises ==
  ASSUME TaskOK, NEW t \in Tasks, task[t].at \notin {"open", "write"}, NEW v,
         task' = [task EXCEPT ![t] = v], files' = files, NEW m, Promised(m)
  PROVE  Promised(m)'
<1>1. \A x \in Tasks : Bringing(x, m) => Bringing(x, m)'
  BY DEF TaskOK, Bringing
<1> QED BY <1>1, PromiseKept

\* A task that has an entry to write brings its script.
LEMMA NewPromise ==
  ASSUME TaskOK, NEW t \in Tasks, NEW m, NEW entry, entry.script,
         task' = [task EXCEPT ![t] = [at |-> "open", mac |-> m, entry |-> entry]]
  PROVE  Promised(m)'
<1>1. task'[t] = [at |-> "open", mac |-> m, entry |-> entry]
  BY DEF TaskOK
<1>2. Bringing(t, m)'
  BY <1>1 DEF Bringing
<1> QED BY <1>2 DEF Promised, Tasks

\* Every step keeps the scripts promised.
LEMMA NextScripts == Inv /\ ScriptsKept /\ [Next]_vars => ScriptsKept'
<1> SUFFICES ASSUME Inv, ScriptsKept, [Next]_vars, failures' = 0,
                    NEW m \in DOMAIN boot', boot'[m].script
             PROVE  Promised(m)'
  BY DEF ScriptsKept
<1>1. BootOK /\ TaskOK /\ CountsOK
  BY TypeParts DEF Inv
<1>2. failures = 0
  BY <1>1 DEF CountsOK, Next, Discover, DhcpEnds, AskTable, StoreLease, Refuse, Reply, Register, Script,
              NoScript, OpenScript, WriteScript, FailScript, Tick, Restart, vars
<1>3. m \in DOMAIN boot /\ boot[m].script => Promised(m)
  BY <1>2 DEF ScriptsKept
<1>4. ASSUME NEW mac \in Macs, Discover(mac) PROVE Promised(m)'
  <2>1. /\ Dhcp \in Tasks /\ task[Dhcp].at = "idle" /\ files' = files
        /\ task' = [task EXCEPT ![Dhcp] = [at |-> "open", mac |-> mac, 
                                               entry |-> RenderingOf(boot'[mac])]]
    BY <1>4 DEF Discover, Tasks
  <2>2. CASE m = mac
    <3>1. RenderingOf(boot'[mac]).script
      BY <2>2 DEF RenderingOf
    <3> QED BY <1>1, <2>1, <2>2, <3>1, NewPromise
  <2>3. CASE m # mac
    <3>1. m \in DOMAIN boot /\ boot'[m] = boot[m]
      BY <1>4, <2>3 DEF Discover, Put
    <3> QED BY <1>1, <1>3, <2>1, <3>1, OpenKeepsPromises
  <2> QED BY <2>2, <2>3
<1>5. ASSUME NEW c \in Conns, NEW mac \in Macs, NEW entry, Register(c, mac, entry)
      PROVE  Promised(m)'
  <2>1. /\ c \in Tasks /\ task[c].at = "idle" /\ files' = files
        /\ task' = [task EXCEPT ![c] = [at |-> "open", mac |-> mac,
                                        entry |-> RenderingOf(entry)]]
    BY <1>5 DEF Register, Tasks
  <2>2. CASE m = mac
    <3>1. RenderingOf(entry).script
      BY <1>5, <2>2 DEF Register, Put, RenderingOf
    <3> QED BY <1>1, <2>1, <2>2, <3>1, NewPromise
  <2>3. CASE m # mac
    <3>1. m \in DOMAIN boot /\ boot'[m] = boot[m]
      BY <1>5, <2>3 DEF Register, Put
    <3> QED BY <1>1, <1>3, <2>1, <3>1, OpenKeepsPromises
  <2> QED BY <2>2, <2>3
<1>6. ASSUME NEW t \in Tasks, Script(t) PROVE Promised(m)'
  <2>1. boot' = boot
    BY <1>6 DEF Script, NoScript, OpenScript, WriteScript, FailScript
  <2> QED BY <1>3, <1>6, <2>1, ScriptKeepsPromise
<1>7. CASE AskTable \/ StoreLease
  <2>1. PICK v : task' = [task EXCEPT ![Dhcp] = v]
    BY <1>7 DEF AskTable, StoreLease
  <2>2. Dhcp \in Tasks /\ task[Dhcp].at \in {"allocate", "lease"} /\ files' = files /\ boot' = boot
    BY <1>7 DEF AskTable, StoreLease, Tasks
  <2> QED BY <1>1, <1>3, <2>1, <2>2, OpenKeepsPromises
<1>8. CASE DhcpEnds \/ Refuse \/ Reply
  <2>1. PICK v : task' = [task EXCEPT ![Dhcp] = v]
    BY <1>8 DEF DhcpEnds, Refuse, Reply
  <2>2. /\ Dhcp \in Tasks /\ task[Dhcp].at \in {"idle", "lease", "reply"}
        /\ files' = files /\ boot' = boot
    BY <1>8 DEF DhcpEnds, Refuse, Reply, Tasks
  <2> QED BY <1>1, <1>3, <2>1, <2>2, OpenKeepsPromises
<1>9. CASE Restart
  BY <1>9 DEF Restart, Nothing
<1>10. CASE UNCHANGED <<boot, files, task>>
  BY <1>3, <1>10 DEF Promised, Bringing, Tasks
<1> QED BY <1>4, <1>5, <1>6, <1>7, <1>8, <1>9, <1>10 DEF Next, Tick, vars

\* When nobody is writing a machine's script and no write has failed, its file
\* is there and not empty, whatever operators and the DHCP task wrote over
\* each other (main.rs:358-374, 618-624).
THEOREM ScriptServed == Spec => []SettledScriptServed
<1>1. Init => ScriptsKept
  BY DEF Init, Nothing, ScriptsKept
<1>2. ScriptsKept => SettledScriptServed
  BY DEF ScriptsKept, SettledScriptServed, Promised, Bringing, Writing
<1> QED BY <1>1, <1>2, InitInv, NextInv, NextScripts, PTL DEF Spec
=============================================================================
