------------------------------ MODULE Services ------------------------------
(***************************************************************************)
(* netop, netgate, orchestrator and imager behind their control sockets.   *)
(* The four are processes of their own that share nothing, so each is      *)
(* explored alone: `daemon' says which one a behaviour is about.           *)
(***************************************************************************)
EXTENDS Netop, Netgate, Workloads

VARIABLE daemon

vars == <<daemon, controlVars, netopVars, netgateVars>>

Init ==
    /\ daemon \in {"netop", "netgate", "orchestrator", "imager"}
    /\ ControlInit
    /\ NetopFresh
    /\ NetgateFresh

OfNetop == daemon = "netop" /\ UNCHANGED <<daemon, netgateVars>>
OfNetgate == daemon = "netgate" /\ UNCHANGED <<daemon, netopVars>>
Stateless == UNCHANGED <<daemon, netopVars, netgateVars>>

Next ==
    \/ OfNetop /\ NetopNext
    \/ OfNetgate /\ NetgateNext
    \/ daemon = "orchestrator" /\ Stateless /\ OrchestratorControl
    \/ daemon = "imager" /\ Stateless /\ ImagerControl

Workers == {"orchestrator", "imager"}

(***************************************************************************)
(* tokio polls every task that can go on, timers fire, and its RwLock      *)
(* queues fairly: a state.set is not overtaken by passes for ever.  What a *)
(* client has yet to send may never come.                                  *)
(***************************************************************************)
Fairness ==
    /\ WF_vars(OfNetop /\ NetopLoop)
    /\ \A i \in 1 .. MaxRules : WF_vars(OfNetgate /\ i \in DOMAIN rules /\ Bind(i))
    /\ \A c \in Conns :
         /\ WF_vars(OfNetop /\ NetopTask(c))
         /\ SF_vars(OfNetop /\ SetState(c))
         /\ WF_vars(OfNetgate /\ NetgateTask(c))
         /\ WF_vars(daemon \in Workers /\ Stateless /\ WorkloadsTask(c))

Spec == Init /\ [][Next]_vars /\ Fairness

-----------------------------------------------------------------------------
AllRequests ==
    NetopRequests \cup NetgateRequests \cup OrchestratorRequests \cup ImagerRequests

\* No request, and a payload that does not decode, are none of the values
\* that do occur.
ASSUME MarkersAssumption == None \notin AllRequests /\ Broken \notin DnsNames

\* Every part of the state has its type, a stopped daemon has no
\* connections, and each stored rule has one task.
TypeOK == ControlTypeOK(AllRequests) /\ NetopTypeOK /\ NetgateTypeOK

(***************************************************************************)
(* The commands of the four daemons as operations on one state.            *)
(***************************************************************************)
Stored(des, records, added) == [desired |-> des, dns |-> records, rules |-> added]

\* What a command does to the stored state.  The stubs, image.list, the
\* virtual machine that is dropped again, and dns.delete of a name that is
\* not UTF-8 do nothing to it, so that of them Ok says no more than that.
CommandEffect(r, s) ==
    IF r.arg = Broken THEN s
    ELSE CASE r.tag = "state.set"  -> [s EXCEPT !.desired = r.arg]
           [] r.tag = "dns.upsert" -> [s EXCEPT !.dns[r.arg.name] = r.arg]
           [] r.tag = "dns.delete" -> [s EXCEPT !.dns = [n \in DnsNames |->
                                         IF n = r.arg THEN None ELSE @[n]]]
           [] r.tag = "proxy.add"  -> [s EXCEPT !.rules = Append(@, r.arg)]
           [] OTHER -> s

Promise == INSTANCE Commands WITH
    Clients <- Conns,
    Requests <- AllRequests,
    NoCommand <- None,
    Initial <- Stored(Unset, NoDns, <<>>),
    Effect <- CommandEffect,
    state <- Stored(desired, dns, rules),
    command <- [c \in Conns |-> conn[c].req],
    outcome <- [c \in Conns |->
                  IF conn[c].at # "reply" THEN "none"
                  ELSE IF conn[c].reply = "Error" THEN "Error" ELSE "Ok"]

\* Each daemon implements Commands: a command has its effect on the stored
\* state once, while its client waits, Ok means that it had and Error that it
\* had not, and after a Shutdown nothing of it is left (the match in each
\* control_plane).
CommandsHonoured == Promise!Spec
=============================================================================
