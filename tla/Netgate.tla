------------------------------- MODULE Netgate ------------------------------
(***************************************************************************)
(* netgate (crates/netgate/src/main.rs): the DNS records and proxy rules   *)
(* that operators add, and the listener that each rule gets.               *)
(*                                                                         *)
(* proxy.add stores the rule, spawns run_proxy_rule and answers Ok; the    *)
(* new task binds the listening socket later, and if it cannot, for        *)
(* whatever reason, it only logs that and ends.  A rule is never removed.  Forwarding a connection  *)
(* touches no state of the daemon, and the DNS server is a stub that reads *)
(* nothing.                                                                *)
(***************************************************************************)
EXTENDS ControlPlane

CONSTANTS
    DnsRecords,     \* records an operator may add: [name, addr]
    ProxyRules,     \* rules an operator may add: [listen, target]
    Foreign,        \* addresses on which other processes listen
    Overlapping,    \* pairs of addresses that exclude each other: a wildcard
                    \* and a specific address with one port
    MaxRules        \* bound: rules added in one life of the daemon

ASSUME NetgateAssumption ==
    /\ \A r \in DnsRecords : r = [name |-> r.name, addr |-> r.addr]
    /\ \A r \in ProxyRules : r = [listen |-> r.listen, target |-> r.target]
    /\ MaxRules \in Nat

VARIABLES
    dns,            \* the DNS table: a record or None for each name
    rules,          \* the stored rules, oldest first
    proxy           \* where the task of each rule is

netgateVars == <<dns, rules, proxy>>
netgateAll == <<controlVars, netgateVars>>

TaskStates == {"spawned", "serving", "taken", "failed"}
Addresses == {r.listen : r \in ProxyRules}

DnsNames == {r.name : r \in DnsRecords}
NoDns == [n \in DnsNames |-> None]

NetgateRequests ==
    CommonRequests
      \cup {Request("dns.upsert", r) : r \in DnsRecords \cup {Broken}}
      \cup {Request("dns.delete", n) : n \in DnsNames \cup {Broken}}
      \cup {Request("proxy.add", r) : r \in ProxyRules \cup {Broken}}

\* The bound: no more proxy.add comes in than there is room for.
RulesComing == Cardinality({c \in Conns : Requested(c, "proxy.add")})

NetgateIncoming ==
    IF Len(rules) + RulesComing < MaxRules
      THEN NetgateRequests
      ELSE {r \in NetgateRequests : r.tag # "proxy.add"}

-----------------------------------------------------------------------------
NetgateFresh == dns = NoDns /\ rules = <<>> /\ proxy = <<>>

NetgateInit == ControlInit /\ NetgateFresh

UpsertRecord(c) ==
    /\ Requested(c, "dns.upsert")
    /\ conn[c].req.arg # Broken
    /\ dns' = [dns EXCEPT ![conn[c].req.arg.name] = conn[c].req.arg]
    /\ Replied(c, "Ok")
    /\ UNCHANGED <<rules, proxy>>

\* A name that is not UTF-8 is answered Ok all the same.
DeleteRecord(c) ==
    /\ Requested(c, "dns.delete")
    /\ dns' = [n \in DnsNames |-> IF n = conn[c].req.arg THEN None ELSE dns[n]]
    /\ Replied(c, "Ok")
    /\ UNCHANGED <<rules, proxy>>

\* Variant: the rule is run by the connection's task, which never returns.
AddRuleInline(c) ==
    /\ Requested(c, "proxy.add")
    /\ conn[c].req.arg # Broken
    /\ Len(rules) < MaxRules
    /\ rules' = Append(rules, conn[c].req.arg)
    /\ proxy' = Append(proxy, "spawned")
    /\ UNCHANGED <<controlVars, dns>>

AddRule(c) ==
    /\ Requested(c, "proxy.add")
    /\ conn[c].req.arg # Broken
    /\ rules' = Append(rules, conn[c].req.arg)
    /\ proxy' = Append(proxy, "spawned")
    /\ Replied(c, "Ok")
    /\ UNCHANGED dns

RefuseBroken(c) ==
    /\ Requested(c, "dns.upsert") \/ Requested(c, "proxy.add")
    /\ conn[c].req.arg = Broken
    /\ Replied(c, "Error")
    /\ UNCHANGED netgateVars

\* The rules whose listener is bound to a.
ServingAt(a) == {i \in DOMAIN rules : rules[i].listen = a /\ proxy[i] = "serving"}

\* The addresses that cannot be bound while a is.
Excluding(a) == {b \in Addresses : b = a \/ {a, b} \in Overlapping}

\* Has another process, or has a rule, a listener that excludes a?
InUse(a) ==
    \/ a \in Foreign
    \/ \E b \in Excluding(a) : ServingAt(b) # {}

(***************************************************************************)
(* The outcomes of binding a: "taken" is the error that the address is in  *)
(* use, "failed" any other (no descriptor left, no permission, an address  *)
(* that this host does not have), which may come whoever listens there.    *)
(***************************************************************************)
BindOutcomes(a) == {"failed", IF InUse(a) THEN "taken" ELSE "serving"}

\* Variant: a rule keeps off an address that any other stored rule claims.
BindUnclaimed(i) ==
    /\ alive
    /\ proxy[i] = "spawned"
    /\ LET a == rules[i].listen
       IN  proxy' = [proxy EXCEPT ![i] =
             IF a \in Foreign \/ \E j \in DOMAIN rules \ {i} : rules[j].listen = a
               THEN "taken" ELSE "serving"]
    /\ UNCHANGED <<controlVars, dns, rules>>

\* Variant: the address is bound once more (SO_REUSEPORT).
BindShared(i) ==
    /\ alive
    /\ proxy[i] = "spawned"
    /\ proxy' = [proxy EXCEPT ![i] =
                   IF rules[i].listen \in Foreign THEN "taken" ELSE "serving"]
    /\ UNCHANGED <<controlVars, dns, rules>>

\* run_proxy_rule gets its listener, or gives up on whatever error.
Bind(i) ==
    /\ alive
    /\ proxy[i] = "spawned"
    /\ \E o \in BindOutcomes(rules[i].listen) : proxy' = [proxy EXCEPT ![i] = o]
    /\ UNCHANGED <<controlVars, dns, rules>>

\* Everything is in memory only.
NetgateLost == dns' = NoDns /\ rules' = <<>> /\ proxy' = <<>>

NetgateExit(c) == Shutdown(c) /\ NetgateLost

NetgateControl ==
    \/ ControlStep(NetgateIncoming) /\ UNCHANGED netgateVars
    \/ \E c \in Conns : \/ UpsertRecord(c) \/ DeleteRecord(c) \/ AddRule(c)
                        \/ RefuseBroken(c) \/ NetgateExit(c)
    \/ AcceptFails /\ NetgateLost
    \/ Start /\ UNCHANGED netgateVars

NetgateNext == NetgateControl \/ \E i \in DOMAIN rules : Bind(i)

\* The steps of a connection's task; each waits for a lock at most, which
\* no one keeps.
NetgateTask(c) ==
    \/ UpsertRecord(c) \/ DeleteRecord(c) \/ AddRule(c) \/ RefuseBroken(c)
    \/ NetgateExit(c)
    \/ ControlTask(c) /\ UNCHANGED netgateVars

-----------------------------------------------------------------------------
NetgateTypeOK ==
    /\ dns \in [DnsNames -> DnsRecords \cup {None}]
    /\ \A n \in DnsNames : dns[n] # None => dns[n].name = n
    /\ Len(rules) <= MaxRules
    /\ Len(proxy) = Len(rules)
    /\ \A i \in DOMAIN rules : /\ rules[i] \in ProxyRules
                               /\ proxy[i] \in TaskStates

\* As long as the daemon runs, an address that it serves keeps its target:
\* a later proxy.add for the same address is answered Ok and has no effect,
\* and no two rules share an address (main.rs:96-104, 186-195).
TargetStable ==
    [][\A r \in ProxyRules :
         (ServingAt(r.listen) # {} /\ alive') =>
            ServingAt(r.listen)' = ServingAt(r.listen)]_netgateAll

\* Rules that race for one socket, all of them answered Ok before any is
\* bound (main.rs:98-104, 186-195), do not all lose: in the end the address
\* is in use, by one of them, by a rule that excludes it or by another
\* process, unless a bind for it failed for a reason other than the race.
\* After such a failure nobody tries again, and the address stays unserved.
RaceHasWinner ==
    \A a \in Addresses :
      (\E i \in DOMAIN rules : rules[i].listen = a)
         ~> \/ ~alive
            \/ InUse(a)
            \/ \E i \in DOMAIN rules : rules[i].listen = a /\ proxy[i] = "failed"
=============================================================================
