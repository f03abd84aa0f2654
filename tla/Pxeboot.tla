------------------------------- MODULE Pxeboot ------------------------------
(***************************************************************************)
(* The pxeboot daemon (crates/pxeboot/src/main.rs): its DHCP server, the   *)
(* boot table it shares with the control plane, and the iPXE scripts that  *)
(* both write and TFTP serves.                                             *)
(*                                                                         *)
(* dhcp_server is one sequential task; every control connection is a task  *)
(* of its own.  They interleave at each await: the actions are the code    *)
(* between two accesses of state that another task can see.  Addresses are *)
(* numbers.  A script file is represented by what a reader of it finds:    *)
(* nothing, an empty file, the script rendered for a host name, or a       *)
(* mixture of two, since fs::write truncates first and writes afterwards.  *)
(***************************************************************************)
EXTENDS Integers, FiniteSets

CONSTANTS
    Macs,           \* MAC addresses of the machines on the network
    PoolStart,      \* first address of the pool
    PoolEnd,        \* last address of the pool
    StaticIps,      \* static addresses an operator may register, for any MAC
    Names,          \* host names an operator registers
    Discovered,     \* the name given to unknown hardware, "node-<mac>"
    Dhcp,           \* the DHCP task
    Conns,          \* the tasks of control connections; bound: so many at once
    LeaseSecs,      \* lease_secs, in ticks
    MaxFailures,    \* bound: script writes that fail
    MaxRestarts     \* bound: restarts of the daemon

ASSUME PoolAssumption ==
    /\ PoolStart \in Nat /\ PoolEnd \in Nat
    /\ PoolStart <= PoolEnd                      \* checked by Config::load
    /\ StaticIps \subseteq Nat
ASSUME PxeAssumption ==
    /\ Discovered \notin Names
    /\ Dhcp \notin Conns
    /\ LeaseSecs \in Nat /\ MaxFailures \in Nat /\ MaxRestarts \in Nat

VARIABLES
    boot,       \* the boot table: MAC -> BootEntry
    leases,     \* the lease table: MAC -> [ip, left until it expires]
    files,      \* what scripts/<mac>.ipxe holds
    task,       \* where each task is, and its local variables
    given,      \* history: static addresses registered for each MAC so far
    failures,   \* script writes that failed
    restarts    \* times the daemon was restarted

vars == <<boot, leases, files, task, given, failures, restarts>>

-----------------------------------------------------------------------------
NoIp == -1
Pool == PoolStart .. PoolEnd

\* Hostname, static address and whether a script is to be served; the other
\* fields of BootEntry only go into the text of the script.
BootEntry == [name : Names \cup {Discovered}, ip : Nat \cup {NoIp}, script : BOOLEAN]

\* What write_ipxe_script uses of its entry.
Rendering == [name : Names \cup {Discovered}, script : BOOLEAN]
RenderingOf(entry) == [name |-> entry.name, script |-> entry.script]

\* What an operator registers with boot.register, whatever the MAC.
Registrable == [name : Names, ip : {NoIp} \cup StaticIps, script : BOOLEAN]

\* What dhcp_server registers for unknown hardware.
NewHardware == [name |-> Discovered, ip |-> NoIp, script |-> TRUE]

Lease == [ip : Nat, left : 0 .. LeaseSecs]

Nothing == [m \in {} |-> {}]
Put(f, m, v) == [x \in DOMAIN f \cup {m} |-> IF x = m THEN v ELSE f[x]]

NoFile == "no file"
Empty == "empty"
Mixed == "mixed"
Contents == {NoFile, Empty, Mixed} \cup Names \cup {Discovered}

\* The marks for what is no script are not host names.
ASSUME MarksAssumption == {NoFile, Empty, Mixed} \cap (Names \cup {Discovered}) = {}

\* Variant: leases that have run out do not count.
LeasedUnexpired == {leases[m].ip : m \in {n \in DOMAIN leases : leases[n].left > 0}}

Leased == {leases[m].ip : m \in DOMAIN leases}
Free == Pool \ Leased
FirstFree == CHOOSE a \in Free : \A b \in Free : a <= b

Tasks == Conns \cup {Dhcp}
IdleTask == [at |-> "idle"]

-----------------------------------------------------------------------------
Init ==
    /\ boot = Nothing
    /\ leases = Nothing
    /\ files = [m \in Macs |-> NoFile]
    /\ task = [t \in Tasks |-> IdleTask]
    /\ given = [m \in Macs |-> {}]
    /\ failures = 0
    /\ restarts = 0

(***************************************************************************)
(* write_ipxe_script, in the task that handles a MAC and an entry.  An     *)
(* entry without a script is done at once.  fs::write truncates the file,  *)
(* then writes from its start; either half may fail, which is only logged. *)
(***************************************************************************)
Written(t) == IF t = Dhcp THEN [at |-> "allocate", mac |-> task[t].mac] ELSE IdleTask

NoScript(t) ==
    /\ task[t].at = "open"
    /\ ~task[t].entry.script
    /\ task' = [task EXCEPT ![t] = Written(t)]
    /\ UNCHANGED <<boot, leases, files, given, failures, restarts>>

OpenScript(t) ==
    /\ task[t].at = "open"
    /\ task[t].entry.script
    /\ files' = [files EXCEPT ![task[t].mac] = Empty]
    /\ task' = [task EXCEPT ![t].at = "write"]
    /\ UNCHANGED <<boot, leases, given, failures, restarts>>

\* Over a text that another task has written since, the new text may leave
\* the tail of the old one.
Texts(old, name) == IF old \in {Empty, name} THEN {name} ELSE {name, Mixed}

WriteScript(t) ==
    /\ task[t].at = "write"
    /\ \E text \in Texts(files[task[t].mac], task[t].entry.name) :
         files' = [files EXCEPT ![task[t].mac] = text]
    /\ task' = [task EXCEPT ![t] = Written(t)]
    /\ UNCHANGED <<boot, leases, given, failures, restarts>>

FailScript(t) ==
    /\ task[t].at = "write" \/ (task[t].at = "open" /\ task[t].entry.script)
    /\ failures < MaxFailures
    /\ failures' = failures + 1
    /\ task' = [task EXCEPT ![t] = Written(t)]
    /\ UNCHANGED <<boot, leases, files, given, restarts>>

(***************************************************************************)
(* dhcp_server.                                                            *)
(***************************************************************************)

\* Variant: the script of unknown hardware is rendered, its entry not kept.
DiscoverUnregistered(mac) ==
    /\ task[Dhcp].at = "idle"
    /\ task' = [task EXCEPT ![Dhcp] =
                  [at |-> "open", mac |-> mac,
                   entry |-> RenderingOf(IF mac \in DOMAIN boot THEN boot[mac] ELSE NewHardware)]]
    /\ UNCHANGED <<boot, leases, files, given, failures, restarts>>

\* Variant: unknown hardware is registered without its script.
DiscoverUnwritten(mac) ==
    /\ task[Dhcp].at = "idle"
    /\ boot' = IF mac \in DOMAIN boot THEN boot ELSE Put(boot, mac, NewHardware)
    /\ task' = [task EXCEPT ![Dhcp] =
                  IF mac \in DOMAIN boot
                    THEN [at |-> "open", mac |-> mac, entry |-> RenderingOf(boot[mac])]
                    ELSE [at |-> "allocate", mac |-> mac]]
    /\ UNCHANGED <<leases, files, given, failures, restarts>>

\* A DISCOVER or a REQUEST arrives; the two differ only in the type of the
\* reply.  The MAC is registered if unknown, and its entry is cloned for the
\* script.
Discover(mac) ==
    /\ task[Dhcp].at = "idle"
    /\ boot' = IF mac \in DOMAIN boot THEN boot ELSE Put(boot, mac, NewHardware)
    /\ task' = [task EXCEPT ![Dhcp] =
                  [at |-> "open", mac |-> mac, entry |-> RenderingOf(boot'[mac])]]
    /\ UNCHANGED <<leases, files, given, failures, restarts>>

\* The socket cannot be set up or bound, at which dhcp_server returns, or a
\* datagram ends right behind the length of option 53, at which the indexing
\* panics: the task is gone, while the daemon goes on.
DhcpEnds ==
    /\ task[Dhcp].at = "idle"
    /\ task' = [task EXCEPT ![Dhcp] = [at |-> "ended"]]
    /\ UNCHANGED <<boot, leases, files, given, failures, restarts>>

\* allocate_ip asks the boot table for a static address ...
AskTable ==
    /\ task[Dhcp].at = "allocate"
    /\ task' = [task EXCEPT ![Dhcp] = [at |-> "lease", mac |-> task[Dhcp].mac,
                                      static |-> boot[task[Dhcp].mac].ip]]
    /\ UNCHANGED <<boot, leases, files, given, failures, restarts>>

\* ... which it takes, else the address leased already, else the first one of
\* the pool not leased.
Offerable(mac, static) ==
    IF static # NoIp THEN {static}
    ELSE IF mac \in DOMAIN leases THEN {leases[mac].ip}
    ELSE IF Free # {} THEN {FirstFree}
    ELSE {}

\* Variant: leases that have run out are dropped on the way.
StoreLeaseReclaiming ==
    /\ task[Dhcp].at = "lease"
    /\ LET mac == task[Dhcp].mac
           kept == {m \in DOMAIN leases : leases[m].left > 0}
       IN  \E ip \in Offerable(mac, task[Dhcp].static) :
             leases' = Put([m \in kept |-> leases[m]], mac, [ip |-> ip, left |-> LeaseSecs])
    /\ task' = [task EXCEPT ![Dhcp] = [at |-> "reply", mac |-> task[Dhcp].mac]]
    /\ UNCHANGED <<boot, files, given, failures, restarts>>

\* The lease is stored.  No other task uses the leases, so the look-ups and
\* the insertion are one step.
StoreLease ==
    /\ task[Dhcp].at = "lease"
    /\ \E ip \in Offerable(task[Dhcp].mac, task[Dhcp].static) :
         leases' = Put(leases, task[Dhcp].mac, [ip |-> ip, left |-> LeaseSecs])
    /\ task' = [task EXCEPT ![Dhcp] = [at |-> "reply", mac |-> task[Dhcp].mac]]
    /\ UNCHANGED <<boot, files, given, failures, restarts>>

\* "DHCP pool exhausted": the machine gets no reply.
Refuse ==
    /\ task[Dhcp].at = "lease"
    /\ Offerable(task[Dhcp].mac, task[Dhcp].static) = {}
    /\ task' = [task EXCEPT ![Dhcp] = IdleTask]
    /\ UNCHANGED <<boot, leases, files, given, failures, restarts>>

\* The OFFER or ACK is sent, with the address just stored; it names the
\* script, if the table's entry now has one, or else cfg.boot_file.  An error
\* is only logged.
Reply ==
    /\ task[Dhcp].at = "reply"
    /\ task' = [task EXCEPT ![Dhcp] = IdleTask]
    /\ UNCHANGED <<boot, leases, files, given, failures, restarts>>

(***************************************************************************)
(* The control plane: boot.register inserts the entry and then writes its  *)
(* script.                                                                 *)
(***************************************************************************)
\* The static address of an entry, if it has one.
StaticOf(entry) == {entry.ip} \ {NoIp}

\* Variant: only the entry is inserted.
RegisterOnly(c, mac, entry) ==
    /\ task[c].at = "idle"
    /\ boot' = Put(boot, mac, entry)
    /\ given' = [given EXCEPT ![mac] = @ \cup StaticOf(entry)]
    /\ UNCHANGED <<task, leases, files, failures, restarts>>

Register(c, mac, entry) ==
    /\ task[c].at = "idle"
    /\ boot' = Put(boot, mac, entry)
    /\ given' = [given EXCEPT ![mac] = @ \cup StaticOf(entry)]
    /\ task' = [task EXCEPT ![c] =
                  [at |-> "open", mac |-> mac, entry |-> RenderingOf(entry)]]
    /\ UNCHANGED <<leases, files, failures, restarts>>

Expire(f) == [m \in DOMAIN f |->
                [f[m] EXCEPT !.left = IF @ > 0 THEN @ - 1 ELSE 0]]

\* Time passes.
Tick ==
    /\ leases' = Expire(leases)
    /\ UNCHANGED <<boot, files, task, given, failures, restarts>>

\* The daemon ends, by Shutdown or a crash, and starts again: both tables
\* were in memory only, the files stay.
Restart ==
    /\ restarts < MaxRestarts
    /\ restarts' = restarts + 1
    /\ boot' = Nothing
    /\ leases' = Nothing
    /\ task' = [t \in Tasks |-> IdleTask]
    /\ given' = [m \in Macs |-> {}]
    /\ UNCHANGED <<files, failures>>

Script(t) == NoScript(t) \/ OpenScript(t) \/ WriteScript(t) \/ FailScript(t)

Next ==
    \/ \E mac \in Macs : Discover(mac)
    \/ DhcpEnds
    \/ AskTable \/ StoreLease \/ Refuse \/ Reply
    \/ \E c \in Conns, mac \in Macs, entry \in Registrable : Register(c, mac, entry)
    \/ \E t \in Tasks : Script(t)
    \/ Tick
    \/ Restart

Spec == Init /\ [][Next]_vars

\* tokio runs every task that waits neither for the network nor for an
\* operator.
FairSpec ==
    /\ Spec
    /\ WF_vars(AskTable) /\ WF_vars(StoreLease \/ Refuse) /\ WF_vars(Reply)
    /\ \A t \in Tasks : WF_vars(Script(t))

-----------------------------------------------------------------------------
(***************************************************************************)
(* Invariants.                                                             *)
(***************************************************************************)

IdleTasks == [at : {"idle"}]
WriteTasks == [at : {"open", "write"}, mac : Macs, entry : Rendering]
DhcpTasks == WriteTasks \cup [at : {"allocate", "reply"}, mac : Macs]
               \cup [at : {"lease"}, mac : Macs, static : Nat \cup {NoIp}]

\* Every part of the state has its type, and the machine that the DHCP task
\* serves is in the boot table, which it looks up twice more.
TypeOK ==
    /\ DOMAIN boot \subseteq Macs /\ \A m \in DOMAIN boot : boot[m] \in BootEntry
    /\ DOMAIN leases \subseteq Macs /\ \A m \in DOMAIN leases : leases[m] \in Lease
    /\ files \in [Macs -> Contents]
    /\ DOMAIN task = Tasks
    /\ \A c \in Conns : task[c] \in IdleTasks \cup WriteTasks
    /\ task[Dhcp] \in [at : {"idle", "ended"}] \cup DhcpTasks
    /\ task[Dhcp] \in DhcpTasks => task[Dhcp].mac \in DOMAIN boot
    /\ given \in [Macs -> SUBSET StaticIps]
    /\ failures \in 0 .. MaxFailures
    /\ restarts \in 0 .. MaxRestarts

\* Two machines have the same address in the lease table only if an operator
\* registered it for one of them, also when entries turn from dynamic to
\* static and back while a request is being served, when static addresses lie
\* in the pool and when leases have run out (main.rs:208-238, 377-389).
LeasesDistinct ==
    \A m, n \in DOMAIN leases :
      (m # n /\ leases[m].ip = leases[n].ip) => leases[m].ip \in given[m] \cup given[n]

\* Some task is about to write the script of m or is writing it.
Writing(m) == \E t \in Tasks : task[t].at \in {"open", "write"} /\ task[t].mac = m

\* When nobody is writing a machine's script and no write has failed, the
\* file that its boot entry promises is there and is not empty, whichever
\* writes overlapped (main.rs:358-374, 618-624).
SettledScriptServed ==
    \A m \in DOMAIN boot :
      (boot[m].script /\ ~Writing(m) /\ failures = 0) => files[m] \notin {NoFile, Empty}

\* ... and it is the script of that entry (main.rs:358: "Register unknown MAC
\* in boot table and materialize its iPXE script.").
SettledScriptIsEntrys ==
    \A m \in DOMAIN boot :
      (boot[m].script /\ ~Writing(m) /\ failures = 0) => files[m] = boot[m].name

-----------------------------------------------------------------------------
(***************************************************************************)
(* Action properties.                                                      *)
(***************************************************************************)

\* A machine keeps an address of the pool as long as the daemon runs, also
\* when its lease has run out and others find the pool exhausted; it is moved
\* only to an address that an operator registered for it, now or earlier in
\* the request (main.rs:213-231, 385-389).
StickyAddress ==
    [][\A m \in DOMAIN leases :
         (leases[m].ip \notin given[m] /\ restarts' = restarts) =>
            /\ m \in DOMAIN leases'
            /\ leases'[m].ip \in {leases[m].ip} \cup given[m]]_vars

-----------------------------------------------------------------------------
(***************************************************************************)
(* Liveness.                                                               *)
(***************************************************************************)

\* A script that the boot table promises for a machine is served in the end,
\* unless the entry goes away or a write fails: a reply may name the file
\* before the control connection that registered it has written it.
ScriptComes ==
    \A m \in Macs :
      (m \in DOMAIN boot /\ boot[m].script)
        ~> (files[m] \notin {NoFile, Empty} \/ m \notin DOMAIN boot
              \/ ~boot[m].script \/ failures > 0)
=============================================================================
