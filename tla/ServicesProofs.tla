--------------------------- MODULE ServicesProofs ---------------------------
(***************************************************************************)
(* Theorems about Services: the types, the one desired state of a netop    *)
(* pass, the stable targets of netgate, and that each daemon implements    *)
(* Commands.                                                               *)
(***************************************************************************)
EXTENDS Services, FiniteSetTheorems, TLAPS

(***************************************************************************)
(* The inductive invariant, in parts.  A daemon leaves alone the state     *)
(* that it does not have.                                                  *)
(***************************************************************************)
Separate ==
    /\ daemon \in {"netop", "netgate", "orchestrator", "imager"}
    /\ daemon # "netop" => desired = Unset
    /\ daemon # "netgate" => dns = NoDns /\ rules = <<>>

ConnsOK == ControlTypeOK(AllRequests)

\* While a pass is at the interfaces, the rules are those of the desired
\* state, which nobody can replace.
PassOK ==
    /\ pass = "ifaces" => logged.rules = desired
    /\ pass = "idle" => logged.rules = logged.ifaces

DnsOK ==
    /\ dns \in [DnsNames -> DnsRecords \cup {None}]
    /\ \A n \in DnsNames : dns[n] # None => dns[n].name = n

RulesOK ==
    /\ rules \in Seq(ProxyRules)
    /\ proxy \in Seq(TaskStates)
    /\ Len(proxy) = Len(rules)

\* Each rule under way has its room.
Coming == {c \in Conns : Requested(c, "proxy.add")}

RoomOK == Len(rules) + Cardinality(Coming) <= MaxRules

RoomLeft ==
    /\ Len(rules) <= MaxRules
    /\ daemon = "netgate" => RoomOK

Inv ==
    /\ Separate
    /\ ConnsOK
    /\ NetopTypeOK
    /\ PassOK
    /\ DnsOK
    /\ RulesOK
    /\ RoomLeft

-----------------------------------------------------------------------------
\* A task in "dispatch" has one of the requests, one in "reply" a reply, and
\* only the tasks of a running process are anywhere but closed (the match in
\* control_plane of each daemon).
LEMMA TaskFacts ==
    ASSUME ConnsOK, NEW c \in Conns
    PROVE  /\ conn[c].at = "dispatch" =>
                conn[c] = [at |-> "dispatch", req |-> conn[c].req, reply |-> None]
                /\ conn[c].req \in AllRequests
           /\ conn[c].at = "reply" =>
                conn[c] = [at |-> "reply", req |-> None, reply |-> conn[c].reply]
                /\ conn[c].reply \in Replies
           /\ conn[c].at # "dispatch" => conn[c].req = None
           /\ conn[c].at # "closed" => alive
  <1>1. conn[c] \in Connection(AllRequests)
    BY DEF ConnsOK, ControlTypeOK
  <1>2. CASE conn[c] \in {Closed, Phase("header"), Phase("payload")}
    BY <1>2 DEF ConnsOK, ControlTypeOK, Closed, Phase
  <1>3. CASE conn[c] \in [at : {"dispatch"}, req : AllRequests, reply : {None}]
    BY <1>3 DEF ConnsOK, ControlTypeOK, Closed, Phase
  <1>4. CASE conn[c] \in [at : {"reply", "closed"}, req : {None}, reply : Replies]
    BY <1>4 DEF ConnsOK, ControlTypeOK, Closed, Phase
  <1>5. QED
    BY <1>1, <1>2, <1>3, <1>4 DEF Connection

\* A step of one task of a running process keeps the types of all.
LEMMA TaskMoves ==
    ASSUME ConnsOK, alive, alive' = alive, NEW c \in Conns,
           NEW k \in Connection(AllRequests), conn' = [conn EXCEPT ![c] = k]
    PROVE  ConnsOK'
  BY DEF ConnsOK, ControlTypeOK

\* The phases of a task are its types.
LEMMA PhaseTypes ==
    /\ Closed \in Connection(AllRequests)
    /\ Phase("header") \in Connection(AllRequests)
    /\ Phase("payload") \in Connection(AllRequests)
    /\ \A r \in AllRequests :
         [at |-> "dispatch", req |-> r, reply |-> None] \in Connection(AllRequests)
    /\ \A r \in Replies :
         /\ [at |-> "reply", req |-> None, reply |-> r] \in Connection(AllRequests)
         /\ [at |-> "closed", req |-> None, reply |-> r] \in Connection(AllRequests)
  BY DEF Connection

\* Answering a request keeps the types (the value of the match).
LEMMA RepliedType ==
    ASSUME ConnsOK, NEW c \in Conns, conn[c].at = "dispatch",
           NEW r \in Replies, Replied(c, r)
    PROVE  ConnsOK'
  BY TaskFacts, TaskMoves, PhaseTypes DEF Replied

\* The steps that every daemon's connections take keep their types.
LEMMA ControlStepType ==
    ASSUME ConnsOK, NEW S \in SUBSET AllRequests, ControlStep(S)
    PROVE  ConnsOK'
  <1>1. PICK c \in Conns :
          \/ Connect(c) \/ HangUp(c)
          \/ \E h \in Headers : ReadHeader(c, h)
          \/ \E r \in S : ReadPayload(c, r)
          \/ Ping(c) \/ Reject(c) \/ Write(c)
    BY DEF ControlStep
  <1>2. CASE Connect(c)
    BY <1>2, TaskMoves, PhaseTypes DEF Connect
  <1>3. CASE HangUp(c)
    BY <1>3, TaskFacts, TaskMoves, PhaseTypes DEF HangUp
  <1>4. ASSUME NEW h \in Headers, ReadHeader(c, h) PROVE ConnsOK'
    BY <1>4, TaskFacts, TaskMoves, PhaseTypes DEF ReadHeader
  <1>5. ASSUME NEW r \in S, ReadPayload(c, r) PROVE ConnsOK'
    BY <1>5, TaskFacts, TaskMoves, PhaseTypes DEF ReadPayload
  <1>6. CASE Ping(c)
    BY <1>6, RepliedType DEF Ping, Requested, Replies
  <1>7. CASE Reject(c)
    BY <1>7, RepliedType DEF Reject, Requested, Replies
  <1>8. CASE Write(c)
    <2>1. conn[c] = [at |-> "reply", req |-> None, reply |-> conn[c].reply]
      BY <1>8, TaskFacts DEF Write
    <2>2. [conn[c] EXCEPT !.at = "closed"] =
            [at |-> "closed", req |-> None, reply |-> conn[c].reply]
      BY <2>1
    <2>3. conn' = [conn EXCEPT ![c] =
                     [at |-> "closed", req |-> None, reply |-> conn[c].reply]]
      BY <1>8, <2>2 DEF Write
    <2>4. QED
      BY <1>8, <2>3, TaskFacts, TaskMoves, PhaseTypes DEF Write
  <1>9. QED
    BY <1>1, <1>2, <1>3, <1>4, <1>5, <1>6, <1>7, <1>8

\* The end and the start of the process keep them too.
LEMMA ProcessType ==
    ASSUME ConnsOK, (\E c \in Conns : Shutdown(c)) \/ AcceptFails \/ Start
    PROVE  ConnsOK'
  BY PhaseTypes DEF ConnsOK, ControlTypeOK, Shutdown, AcceptFails, Start

\* A request is named by its tag: what a task in "dispatch" with this tag has
\* as its payload (the operations of proto's ControlRequest).
LEMMA Payloads ==
    ASSUME NEW r \in AllRequests
    PROVE  /\ r.tag = "state.set" /\ r.arg # Broken => r.arg \in Versions
           /\ r.tag = "dns.upsert" /\ r.arg # Broken => r.arg \in DnsRecords
           /\ r.tag = "proxy.add" /\ r.arg # Broken => r.arg \in ProxyRules
  BY DEF AllRequests, CommonRequests, NetopRequests, NetgateRequests,
         OrchestratorRequests, ImagerRequests, Request

\* The requests of each daemon are requests.
LEMMA OfAllRequests ==
    /\ NetopRequests \subseteq AllRequests
    /\ NetgateIncoming \subseteq AllRequests
    /\ OrchestratorRequests \subseteq AllRequests
    /\ ImagerRequests \subseteq AllRequests
  BY DEF AllRequests, NetgateIncoming

\* netop keeps the types, and the desired state of a pass under way.
LEMMA NetopInv ==
    ASSUME Inv, OfNetop, NetopNext
    PROVE  Inv'
  <1> USE DEF Inv
  <1>1. Separate' /\ DnsOK' /\ RulesOK' /\ RoomLeft'
    BY DEF OfNetop, netgateVars, Separate, DnsOK, RulesOK, RoomLeft
  <1>2. ConnsOK' /\ NetopTypeOK' /\ PassOK'
    <2>1. CASE ControlStep(NetopRequests) /\ UNCHANGED netopVars
      BY <2>1, ControlStepType, OfAllRequests DEF netopVars, NetopTypeOK, PassOK
    <2>2. ASSUME NEW c \in Conns, SetState(c) PROVE ConnsOK' /\ NetopTypeOK' /\ PassOK'
      <3>1. conn[c].req.arg \in Versions
        BY <2>2, TaskFacts, Payloads DEF SetState, Requested
      <3>2. NetopTypeOK' /\ PassOK'
        BY <2>2, <3>1 DEF SetState, NetopTypeOK, PassOK, DesiredState, Reading
      <3>3. QED
        BY <2>2, <3>2, RepliedType DEF SetState, Requested, Replies
    <2>3. ASSUME NEW c \in Conns, SetBroken(c) PROVE ConnsOK' /\ NetopTypeOK' /\ PassOK'
      BY <2>3, RepliedType
         DEF SetBroken, Requested, Replies, netopVars, NetopTypeOK, PassOK
    <2>4. CASE (\E c \in Conns : NetopExit(c)) \/ (AcceptFails /\ NetopLost)
      BY <2>4, ProcessType
         DEF NetopExit, NetopLost, NothingLogged, NetopTypeOK, PassOK, DesiredState
    <2>5. CASE Start /\ UNCHANGED netopVars
      BY <2>5, ProcessType DEF netopVars, NetopTypeOK, PassOK
    <2>6. CASE NetopLoop
      <3>1. ConnsOK'
        BY <2>6 DEF NetopLoop, StartLoop, BeginPass, ReconcileRules, ReconcileIfaces,
                    controlVars, ConnsOK, ControlTypeOK
      <3>2. NetopTypeOK' /\ PassOK'
        BY <2>6 DEF NetopLoop, StartLoop, BeginPass, ReconcileRules, ReconcileIfaces,
                    NetopTypeOK, PassOK
      <3>3. QED
        BY <3>1, <3>2
    <2>7. QED
      BY <2>1, <2>2, <2>3, <2>4, <2>5, <2>6 DEF NetopNext, NetopControl
  <1>3. QED
    BY <1>1, <1>2

\* orchestrator and imager have no state but their connections.
LEMMA WorkloadsInv ==
    ASSUME Inv, Stateless, daemon \in Workers, OrchestratorControl \/ ImagerControl
    PROVE  Inv'
  <1> USE DEF Inv
  <1>1. ConnsOK'
    <2>1. CASE ControlStep(OrchestratorRequests) \/ ControlStep(ImagerRequests)
      BY <2>1, ControlStepType, OfAllRequests
    <2>2. ASSUME NEW c \in Conns,
                 CreateVm(c) \/ CreateContainer(c) \/ ListImages(c) \/ ImageStub(c)
          PROVE  ConnsOK'
      BY <2>2, RepliedType
         DEF CreateVm, CreateContainer, ListImages, ImageStub, Requested, Replies
    <2>3. CASE (\E c \in Conns : Shutdown(c)) \/ AcceptFails \/ Start
      BY <2>3, ProcessType
    <2>4. QED
      BY <2>1, <2>2, <2>3 DEF OrchestratorControl, ImagerControl
  <1>2. QED
    BY <1>1 DEF Stateless, netopVars, netgateVars, Workers, Separate, NetopTypeOK,
                PassOK, DnsOK, RulesOK, RoomLeft

\* The rules under way are counted.
LEMMA ComingFinite ==
    /\ Coming \subseteq Conns
    /\ IsFiniteSet(Coming)
    /\ Cardinality(Coming) \in Nat
  BY ConnsAssumption, FS_Subset, FS_CardinalityType DEF Coming

\* With no more rules under way and no more stored there is still room.
LEMMA RoomKept ==
    ASSUME RoomOK, rules \in Seq(ProxyRules), UNCHANGED rules, Coming' \subseteq Coming
    PROVE  RoomOK'
  <1>1. IsFiniteSet(Coming') /\ Cardinality(Coming') <= Cardinality(Coming)
    BY ComingFinite, FS_Subset
  <1>2. Cardinality(Coming') \in Nat
    BY <1>1, FS_CardinalityType
  <1>3. QED
    BY <1>1, <1>2, ComingFinite, NetgateAssumption DEF RoomOK

\* A task that does not come to "dispatch" with a rule brings none.
LEMMA NoneComes ==
    ASSUME ConnsOK, NEW c \in Conns, NEW k, conn' = [conn EXCEPT ![c] = k],
           k.at = "dispatch" => k.req.tag # "proxy.add"
    PROVE  Coming' \subseteq Coming \ {c}
  BY DEF ConnsOK, ControlTypeOK, Coming, Requested

\* An answer takes its request off the rules under way.
LEMMA AnswerLeaves ==
    ASSUME ConnsOK, NEW c \in Conns, NEW r, Replied(c, r)
    PROVE  Coming' \subseteq Coming \ {c}
  BY NoneComes DEF Replied

\* A proxy.add is read only if there is room for its rule (the bound).
LEMMA RoomForMore ==
    ASSUME Inv, RoomOK, ControlStep(NetgateIncoming), UNCHANGED netgateVars
    PROVE  RoomOK'
  <1> USE DEF Inv
  <1>1. rules \in Seq(ProxyRules) /\ UNCHANGED rules
    BY DEF RulesOK, netgateVars
  <1>2. PICK c \in Conns :
          \/ Connect(c) \/ HangUp(c)
          \/ \E h \in Headers : ReadHeader(c, h)
          \/ \E r \in NetgateIncoming : ReadPayload(c, r)
          \/ Ping(c) \/ Reject(c) \/ Write(c)
    BY DEF ControlStep
  <1>3. CASE Connect(c) \/ HangUp(c) \/ \E h \in Headers : ReadHeader(c, h)
    <2>1. PICK k \in {Closed, Phase("header"), Phase("payload")} :
             conn' = [conn EXCEPT ![c] = k]
      BY <1>3 DEF Connect, HangUp, ReadHeader
    <2>2. k.at # "dispatch"
      BY DEF Closed, Phase
    <2>3. QED
      BY <1>1, <2>1, <2>2, NoneComes, RoomKept
  <1>4. CASE Ping(c) \/ Reject(c)
    BY <1>1, <1>4, AnswerLeaves, RoomKept DEF Ping, Reject
  <1>5. CASE Write(c)
    <2>1. conn' = [conn EXCEPT ![c] = [conn[c] EXCEPT !.at = "closed"]]
      BY <1>5 DEF Write
    <2>2. conn[c] = [at |-> "reply", req |-> None, reply |-> conn[c].reply]
      BY <1>5, TaskFacts DEF Write
    <2>3. [conn[c] EXCEPT !.at = "closed"].at = "closed"
      BY <2>2
    <2>4. QED
      BY <1>1, <2>1, <2>3, NoneComes, RoomKept
  <1>6. ASSUME NEW r \in NetgateIncoming, ReadPayload(c, r) PROVE RoomOK'
    <2>1. CASE r.tag # "proxy.add"
      BY <1>1, <1>6, <2>1, NoneComes, RoomKept DEF ReadPayload
    <2>2. CASE r.tag = "proxy.add"
      <3>1. Len(rules) + Cardinality(Coming) < MaxRules
        BY <2>2 DEF NetgateIncoming, RulesComing, Coming
      <3>2. Coming' \subseteq Coming \cup {c}
        BY <1>6 DEF ReadPayload, Coming, Requested, ConnsOK, ControlTypeOK
      <3>3. /\ IsFiniteSet(Coming \cup {c})
            /\ Cardinality(Coming \cup {c}) \in Nat
            /\ Cardinality(Coming \cup {c}) <= Cardinality(Coming) + 1
        <4>1. /\ IsFiniteSet(Coming \cup {c})
              /\ Cardinality(Coming \cup {c}) =
                   IF c \in Coming THEN Cardinality(Coming) ELSE Cardinality(Coming) + 1
          BY ComingFinite, FS_AddElement
        <4>2. QED
          BY <4>1, ComingFinite
      <3>4. IsFiniteSet(Coming') /\ Cardinality(Coming') <= Cardinality(Coming \cup {c})
        BY <3>2, <3>3, FS_Subset
      <3>5. Cardinality(Coming') \in Nat
        BY <3>4, FS_CardinalityType
      <3>6. QED
        BY <1>1, <3>1, <3>3, <3>4, <3>5, ComingFinite, NetgateAssumption DEF RoomOK
    <2>3. QED
      BY <2>1, <2>2
  <1>7. QED
    BY <1>2, <1>3, <1>4, <1>5, <1>6

\* Storing a rule uses the room that its request had.
LEMMA RuleStored ==
    ASSUME Inv, RoomOK, NEW c \in Conns, AddRule(c)
    PROVE  RulesOK' /\ RoomOK'
  <1> USE DEF Inv
  <1>1. conn[c].req.arg \in ProxyRules
    BY TaskFacts, Payloads DEF AddRule, Requested
  <1>2. RulesOK' /\ Len(rules') = Len(rules) + 1
    BY <1>1 DEF AddRule, RulesOK, TaskStates
  <1>3. c \in Coming /\ Coming' \subseteq Coming \ {c}
    BY AnswerLeaves DEF AddRule, Coming
  <1>4. /\ IsFiniteSet(Coming \ {c})
        /\ Cardinality(Coming \ {c}) = Cardinality(Coming) - 1
    BY <1>3, ComingFinite, FS_RemoveElement
  <1>5. IsFiniteSet(Coming') /\ Cardinality(Coming') <= Cardinality(Coming \ {c})
    BY <1>3, <1>4, FS_Subset
  <1>6. Cardinality(Coming') \in Nat
    BY <1>5, FS_CardinalityType
  <1>7. QED
    BY <1>2, <1>4, <1>5, <1>6, ComingFinite, NetgateAssumption DEF RoomOK, RulesOK

\* After an exit nothing is stored and nothing under way.
LEMMA RoomAfresh ==
    ASSUME conn' = [d \in Conns |-> Closed], rules' = <<>>
    PROVE  RoomOK'
  <1>1. Coming' = {}
    BY DEF Coming, Requested, Closed, Phase
  <1>2. QED
    BY <1>1, FS_EmptySet, NetgateAssumption DEF RoomOK

\* Where there is room for all rules under way, the bound holds.
LEMMA RoomIsBound == RoomOK /\ RulesOK => Len(rules) <= MaxRules
  BY ComingFinite, NetgateAssumption DEF RoomOK, RulesOK

\* netgate keeps the types, one task per rule, and room for the rules that
\* have been asked for.
LEMMA NetgateInv ==
    ASSUME Inv, OfNetgate, NetgateNext
    PROVE  Inv'
  <1> USE DEF Inv
  <1>1. Separate' /\ NetopTypeOK' /\ PassOK'
    BY DEF OfNetgate, netopVars, Separate, NetopTypeOK, PassOK
  <1>2. RoomOK
    BY DEF OfNetgate, RoomLeft
  <1>3. ConnsOK' /\ DnsOK' /\ RulesOK' /\ RoomOK'
    <2>1. CASE ControlStep(NetgateIncoming) /\ UNCHANGED netgateVars
      <3>1. ConnsOK' /\ RoomOK'
        BY <1>2, <2>1, ControlStepType, OfAllRequests, RoomForMore
      <3>2. QED
        BY <2>1, <3>1 DEF netgateVars, DnsOK, RulesOK
    <2>2. ASSUME NEW c \in Conns, UpsertRecord(c)
          PROVE  ConnsOK' /\ DnsOK' /\ RulesOK' /\ RoomOK'
      <3>1. conn[c].req.arg \in DnsRecords
        BY <2>2, TaskFacts, Payloads DEF UpsertRecord, Requested
      <3>2. DnsOK'
        BY <2>2, <3>1 DEF UpsertRecord, DnsOK, DnsNames
      <3>3. ConnsOK'
        BY <2>2, RepliedType DEF UpsertRecord, Requested, Replies
      <3>4. QED
        BY <1>2, <2>2, <3>2, <3>3, AnswerLeaves, RoomKept DEF UpsertRecord, RulesOK
    <2>3. ASSUME NEW c \in Conns, DeleteRecord(c)
          PROVE  ConnsOK' /\ DnsOK' /\ RulesOK' /\ RoomOK'
      <3>1. DnsOK'
        BY <2>3 DEF DeleteRecord, DnsOK
      <3>2. ConnsOK'
        BY <2>3, RepliedType DEF DeleteRecord, Requested, Replies
      <3>3. QED
        BY <1>2, <2>3, <3>1, <3>2, AnswerLeaves, RoomKept DEF DeleteRecord, RulesOK
    <2>4. ASSUME NEW c \in Conns, AddRule(c)
          PROVE  ConnsOK' /\ DnsOK' /\ RulesOK' /\ RoomOK'
      <3>1. ConnsOK'
        BY <2>4, RepliedType DEF AddRule, Requested, Replies
      <3>2. QED
        BY <1>2, <2>4, <3>1, RuleStored DEF AddRule, DnsOK
    <2>5. ASSUME NEW c \in Conns, RefuseBroken(c)
          PROVE  ConnsOK' /\ DnsOK' /\ RulesOK' /\ RoomOK'
      <3>1. ConnsOK'
        BY <2>5, RepliedType DEF RefuseBroken, Requested, Replies
      <3>2. QED
        BY <1>2, <2>5, <3>1, AnswerLeaves, RoomKept
           DEF RefuseBroken, netgateVars, DnsOK, RulesOK
    <2>6. CASE (\E c \in Conns : NetgateExit(c)) \/ (AcceptFails /\ NetgateLost)
      <3>1. ConnsOK'
        BY <2>6, ProcessType DEF NetgateExit
      <3>2. conn' = [d \in Conns |-> Closed] /\ NetgateLost
        BY <2>6 DEF NetgateExit, Shutdown, AcceptFails
      <3>3. QED
        BY <3>1, <3>2, RoomAfresh DEF NetgateLost, DnsOK, NoDns, RulesOK
    <2>7. CASE Start /\ UNCHANGED netgateVars
      <3>1. Coming' = Coming
        BY <2>7 DEF Start, Coming, Requested
      <3>2. QED
        BY <1>2, <2>7, <3>1, ProcessType, RoomKept DEF netgateVars, DnsOK, RulesOK
    <2>8. ASSUME NEW i \in DOMAIN rules, Bind(i)
          PROVE  ConnsOK' /\ DnsOK' /\ RulesOK' /\ RoomOK'
      <3>1. RulesOK'
        BY <2>8 DEF Bind, BindOutcomes, RulesOK, TaskStates
      <3>2. Coming' = Coming
        BY <2>8 DEF Bind, controlVars, Coming, Requested
      <3>3. QED
        BY <1>2, <2>8, <3>1, <3>2, RoomKept
           DEF Bind, controlVars, ConnsOK, ControlTypeOK, DnsOK, RulesOK
    <2>9. QED
      BY <2>1, <2>2, <2>3, <2>4, <2>5, <2>6, <2>7, <2>8 DEF NetgateNext, NetgateControl
  <1>4. Len(rules') <= MaxRules
    <2>1. (RoomOK /\ RulesOK => Len(rules) <= MaxRules)'
      BY RoomIsBound, PTL
    <2>2. QED
      BY <1>3, <2>1
  <1>5. QED
    BY <1>1, <1>3, <1>4 DEF RoomLeft

\* The invariant holds at the start.
LEMMA InitInv == Init => Inv
  <1> SUFFICES ASSUME Init PROVE Inv
    OBVIOUS
  <1>1. Coming = {}
    BY DEF Init, ControlInit, Coming, Requested, Closed, Phase
  <1>2. RoomOK /\ RulesOK
    BY <1>1, FS_EmptySet, NetgateAssumption DEF Init, NetgateFresh, RoomOK, RulesOK
  <1>3. ConnsOK
    BY PhaseTypes DEF Init, ControlInit, ConnsOK, ControlTypeOK
  <1>4. Separate /\ NetopTypeOK /\ PassOK /\ DnsOK
    BY DEF Init, NetopFresh, NothingLogged, NetgateFresh, Separate, NetopTypeOK,
           DesiredState, PassOK, DnsOK, NoDns
  <1>5. QED
    BY <1>2, <1>3, <1>4, RoomIsBound DEF Inv, RoomLeft

\* Every step of the daemons keeps it.
LEMMA NextInv == Inv /\ [Next]_vars => Inv'
  <1> SUFFICES ASSUME Inv, [Next]_vars PROVE Inv'
    OBVIOUS
  <1>1. CASE OfNetop /\ NetopNext
    BY <1>1, NetopInv
  <1>2. CASE OfNetgate /\ NetgateNext
    BY <1>2, NetgateInv
  <1>3. CASE daemon \in Workers /\ Stateless /\ (OrchestratorControl \/ ImagerControl)
    BY <1>3, WorkloadsInv
  <1>4. CASE UNCHANGED vars
    <2>1. Coming' = Coming
      BY <1>4 DEF vars, controlVars, Coming, Requested
    <2>2. QED
      BY <1>4, <2>1
         DEF vars, controlVars, netopVars, netgateVars, Inv, Separate, ConnsOK,
             ControlTypeOK, NetopTypeOK, PassOK, DnsOK, RulesOK, RoomLeft, RoomOK
  <1>5. QED
    BY <1>1, <1>2, <1>3, <1>4 DEF Next, Workers

\* The inductive invariant holds throughout.
LEMMA InvHolds == Spec => []Inv
  BY InitInv, NextInv, PTL DEF Spec

-----------------------------------------------------------------------------
\* The types of the four daemons, that a stopped daemon has no connections,
\* that each rule of netgate has one task, and that its bound is kept,
\* whatever the number of connections and whatever clients send.
THEOREM TypeCorrect == Spec => []TypeOK
  <1>1. Inv => TypeOK
    BY DEF Inv, ConnsOK, TypeOK, NetgateTypeOK, DnsOK, RulesOK, TaskStates, RoomLeft
  <1>2. QED
    BY <1>1, InvHolds, PTL

\* Between two passes of netop's reconcile_loop rules and interfaces are
\* those of one desired state, whatever operators set meanwhile.
THEOREM PassIsOneState == Spec => []OneStatePerPass
  <1>1. Inv => OneStatePerPass
    BY DEF Inv, PassOK, OneStatePerPass
  <1>2. QED
    BY <1>1, InvHolds, PTL

\* The listeners of an address stay what they are, once there are any, as
\* long as the process runs: run_proxy_rule binds an address only if no one
\* has it, and no rule is ever taken back.
THEOREM TargetsStable == Spec => TargetStable
  <1> DEFINE Stable ==
        \A r \in ProxyRules :
          (ServingAt(r.listen) # {} /\ alive') =>
             ServingAt(r.listen)' = ServingAt(r.listen)
  <1>1. ASSUME Inv, [Next]_vars PROVE [Stable]_netgateAll
    <2> SUFFICES ASSUME alive', NEW r \in ProxyRules, ServingAt(r.listen) # {},
                        netgateAll' # netgateAll
                 PROVE  ServingAt(r.listen)' = ServingAt(r.listen)
      BY DEF netgateAll
    <2>1. CASE UNCHANGED <<rules, proxy>>
      BY <2>1 DEF ServingAt
    <2>2. ASSUME NEW c \in Conns, AddRule(c)
          PROVE  ServingAt(r.listen)' = ServingAt(r.listen)
      BY <1>1, <2>2 DEF AddRule, ServingAt, Inv, RulesOK
    <2>3. ASSUME NEW i \in DOMAIN rules, Bind(i)
          PROVE  ServingAt(r.listen)' = ServingAt(r.listen)
      <3>1. CASE proxy'[i] # "serving"
        BY <1>1, <2>3, <3>1 DEF Bind, ServingAt, Inv, RulesOK
      <3>2. CASE proxy'[i] = "serving"
        <4>1. ~InUse(rules[i].listen) /\ rules[i] \in ProxyRules
          BY <1>1, <2>3, <3>2 DEF Bind, BindOutcomes, Inv, RulesOK
        <4>2. rules[i].listen # r.listen
          BY <4>1 DEF InUse, Excluding, Addresses
        <4>3. QED
          BY <1>1, <2>3, <4>2 DEF Bind, ServingAt, Inv, RulesOK
      <3>3. QED
        BY <3>1, <3>2
    <2>4. CASE \/ \E c \in Conns : NetgateExit(c)
               \/ AcceptFails /\ NetgateLost
      BY <2>4 DEF NetgateExit, Shutdown, AcceptFails
    <2>5. QED
      BY <1>1, <2>1, <2>2, <2>3, <2>4
         DEF Next, OfNetop, OfNetgate, Stateless, NetgateNext, NetgateControl,
             UpsertRecord, DeleteRecord, RefuseBroken, netgateVars, netgateAll,
             vars
  <1>2. QED
    BY <1>1, InvHolds, PTL DEF Spec, TargetStable

-----------------------------------------------------------------------------
(***************************************************************************)
(* The refinement mapping of Promise, named.                               *)
(***************************************************************************)
Pending == [c \in Conns |-> conn[c].req]

OutcomeOf(k) ==
    IF k.at # "reply" THEN "none" ELSE IF k.reply = "Error" THEN "Error" ELSE "Ok"

Outcomes == [c \in Conns |-> OutcomeOf(conn[c])]

State == Stored(desired, dns, rules)

\* A step of a task changes the mapped state of its own connection only.
LEMMA MappedMove ==
    ASSUME ConnsOK, NEW c \in Conns, NEW k, conn' = [conn EXCEPT ![c] = k]
    PROVE  /\ Pending' = [Pending EXCEPT ![c] = k.req]
           /\ Outcomes' = [Outcomes EXCEPT ![c] = OutcomeOf(k)]
           /\ Pending[c] = conn[c].req
           /\ Outcomes[c] = OutcomeOf(conn[c])
  BY DEF ConnsOK, ControlTypeOK, Pending, Outcomes, OutcomeOf

\* A task that moves on without a request or an answer changes nothing that
\* Commands can see.
LEMMA QuietMove ==
    ASSUME ConnsOK, NEW c \in Conns, NEW k, conn' = [conn EXCEPT ![c] = k],
           conn[c].at \in {"closed", "header", "payload"},
           k \in {Closed, Phase("header"), Phase("payload")}
    PROVE  UNCHANGED <<Pending, Outcomes>>
  <1>1. conn[c].req = None
    BY TaskFacts
  <1>2. k.req = None
    BY DEF Closed, Phase
  <1>3. OutcomeOf(conn[c]) = "none" /\ OutcomeOf(k) = "none"
    BY DEF OutcomeOf, Closed, Phase
  <1>4. /\ Pending' = [Pending EXCEPT ![c] = k.req]
        /\ Outcomes' = [Outcomes EXCEPT ![c] = OutcomeOf(k)]
        /\ Pending[c] = conn[c].req
        /\ Outcomes[c] = OutcomeOf(conn[c])
    BY MappedMove
  <1>5. QED
    BY <1>1, <1>2, <1>3, <1>4 DEF Pending, Outcomes

\* An answer removes the command and sets the outcome.
LEMMA MappedReply ==
    ASSUME ConnsOK, NEW c \in Conns, conn[c].at = "dispatch", NEW r, Replied(c, r)
    PROVE  /\ Pending[c] = conn[c].req
           /\ Pending[c] # None
           /\ Pending' = [Pending EXCEPT ![c] = None]
           /\ Outcomes' = [Outcomes EXCEPT ![c] = IF r = "Error" THEN "Error" ELSE "Ok"]
  <1>1. conn' = [conn EXCEPT ![c] = [at |-> "reply", req |-> None, reply |-> r]]
    BY DEF Replied
  <1>2. OutcomeOf([at |-> "reply", req |-> None, reply |-> r]) =
          IF r = "Error" THEN "Error" ELSE "Ok"
    BY DEF OutcomeOf
  <1>3. conn[c].req \in AllRequests
    BY TaskFacts
  <1> DEFINE k == [at |-> "reply", req |-> None, reply |-> r]
  <1>4. k.req = None
    OBVIOUS
  <1> HIDE DEF k
  <1>5. /\ Pending' = [Pending EXCEPT ![c] = k.req]
        /\ Outcomes' = [Outcomes EXCEPT ![c] = OutcomeOf(k)]
        /\ Pending[c] = conn[c].req
    BY <1>1, MappedMove DEF k
  <1>6. QED
    BY <1>2, <1>3, <1>4, <1>5, MarkersAssumption DEF k

\* An Error is a command that fails and leaves the state alone.
LEMMA MapsToFail ==
    ASSUME ConnsOK, NEW c \in Conns, conn[c].at = "dispatch", Replied(c, "Error"),
           UNCHANGED State
    PROVE  Promise!Fail(c)
  BY MappedReply DEF Promise!Fail, Pending, Outcomes, OutcomeOf, State

\* An Ok, with the command's effect on the state, is a command that succeeds.
LEMMA MapsToSucceed ==
    ASSUME ConnsOK, NEW c \in Conns, conn[c].at = "dispatch",
           NEW r \in {"Ok", "Data"}, Replied(c, r),
           State' = CommandEffect(conn[c].req, State)
    PROVE  Promise!Succeed(c)
  BY MappedReply DEF Promise!Succeed, Pending, Outcomes, OutcomeOf, State

\* The end of the process is a halt of what Commands describes.
LEMMA MapsToHalt ==
    ASSUME conn' = [d \in Conns |-> Closed], State' = Stored(Unset, NoDns, <<>>)
    PROVE  Promise!Halt
  BY DEF Promise!Halt, State, Closed, Phase

\* What each command is meant to do, field by field.
LEMMA Effects ==
    ASSUME NEW r \in AllRequests, DnsOK
    PROVE  /\ (r.arg = Broken \/ r.tag \notin {"state.set", "dns.upsert", "dns.delete", "proxy.add"})
                => CommandEffect(r, State) = State
           /\ (r.arg # Broken /\ r.tag = "state.set")
                => CommandEffect(r, State) = Stored(r.arg, dns, rules)
           /\ (r.arg # Broken /\ r.tag = "dns.upsert")
                => CommandEffect(r, State) =
                     Stored(desired, [dns EXCEPT ![r.arg.name] = r.arg], rules)
           /\ (r.arg # Broken /\ r.tag = "dns.delete")
                => CommandEffect(r, State) =
                     Stored(desired, [n \in DnsNames |-> IF n = r.arg THEN None ELSE dns[n]], rules)
           /\ (r.arg # Broken /\ r.tag = "proxy.add")
                => CommandEffect(r, State) = Stored(desired, dns, Append(rules, r.arg))
  <1>1. (r.arg = Broken \/ r.tag \notin {"state.set", "dns.upsert", "dns.delete", "proxy.add"})
          => CommandEffect(r, State) = State
    BY DEF CommandEffect
  <1>2. CASE r.arg # Broken /\ r.tag = "state.set"
    BY <1>2 DEF CommandEffect, State, Stored
  <1>3. CASE r.arg # Broken /\ r.tag = "dns.upsert"
    <2>1. CommandEffect(r, State) = [State EXCEPT !.dns[r.arg.name] = r.arg]
      BY <1>3 DEF CommandEffect
    <2>2. State.dns = dns
      BY DEF State, Stored
    <2>3. [State EXCEPT !.dns[r.arg.name] = r.arg] =
            [State EXCEPT !.dns = [dns EXCEPT ![r.arg.name] = r.arg]]
      BY <2>2
    <2>4. [State EXCEPT !.dns = [dns EXCEPT ![r.arg.name] = r.arg]] =
            Stored(desired, [dns EXCEPT ![r.arg.name] = r.arg], rules)
      BY DEF State, Stored
    <2>5. QED
      BY <1>3, <2>1, <2>3, <2>4
  <1>4. CASE r.arg # Broken /\ r.tag = "dns.delete"
    BY <1>4 DEF CommandEffect, State, Stored
  <1>5. CASE r.arg # Broken /\ r.tag = "proxy.add"
    BY <1>5 DEF CommandEffect, State, Stored
  <1>6. QED
    BY <1>1, <1>2, <1>3, <1>4, <1>5

\* The steps that all daemons share are an arrival, an answer or nothing to
\* Commands, or the outcome of a command without an effect.
LEMMA ControlStepMaps ==
    ASSUME Inv, NEW S \in SUBSET AllRequests, ControlStep(S), UNCHANGED State
    PROVE  [Promise!Next]_(Promise!vars)
  <1> USE DEF Inv
  <1>1. PICK c \in Conns :
          \/ Connect(c) \/ HangUp(c)
          \/ \E h \in Headers : ReadHeader(c, h)
          \/ \E r \in S : ReadPayload(c, r)
          \/ Ping(c) \/ Reject(c) \/ Write(c)
    BY DEF ControlStep
  <1>2. CASE Connect(c) \/ HangUp(c) \/ \E h \in Headers : ReadHeader(c, h)
    <2>1. conn[c].at \in {"closed", "header", "payload"}
      BY <1>2 DEF Connect, HangUp, ReadHeader
    <2>2. PICK k \in {Closed, Phase("header"), Phase("payload")} :
             conn' = [conn EXCEPT ![c] = k]
      BY <1>2 DEF Connect, HangUp, ReadHeader
    <2>3. UNCHANGED <<Pending, Outcomes>>
      BY <2>1, <2>2, QuietMove
    <2>4. QED
      BY <2>3 DEF Promise!vars, Pending, Outcomes, OutcomeOf, State
  <1>3. ASSUME NEW r \in S, ReadPayload(c, r) PROVE Promise!Issue(c, r)
    <2> DEFINE k == [at |-> "dispatch", req |-> r, reply |-> None]
    <2>1. k.req = r /\ OutcomeOf(k) = "none"
      BY DEF OutcomeOf
    <2>2. conn[c].req = None /\ OutcomeOf(conn[c]) = "none"
      BY <1>3, TaskFacts DEF ReadPayload, OutcomeOf
    <2>3. conn' = [conn EXCEPT ![c] = k]
      BY <1>3 DEF ReadPayload
    <2> HIDE DEF k
    <2>4. /\ Pending' = [Pending EXCEPT ![c] = k.req]
          /\ Outcomes' = [Outcomes EXCEPT ![c] = OutcomeOf(k)]
          /\ Pending[c] = conn[c].req
          /\ Outcomes[c] = OutcomeOf(conn[c])
      BY <2>3, MappedMove
    <2>5. Outcomes' = Outcomes
      BY <2>1, <2>2, <2>4 DEF Outcomes
    <2>6. Pending' = [Pending EXCEPT ![c] = r] /\ Pending[c] = None /\ Outcomes[c] = "none"
      BY <2>1, <2>2, <2>4
    <2>7. QED
      BY <2>5, <2>6 DEF Promise!Issue, Promise!Idle, Pending, Outcomes, OutcomeOf, State
  <1>4. CASE Ping(c)
    <2>1. conn[c].req \in AllRequests
      BY <1>4, TaskFacts DEF Ping, Requested
    <2>2. State' = CommandEffect(conn[c].req, State)
      BY <1>4, <2>1, Effects DEF Ping, Requested
    <2>3. Promise!Succeed(c)
      BY <1>4, <2>2, MapsToSucceed DEF Ping, Requested
    <2>4. QED
      BY <2>3 DEF Promise!Next
  <1>5. CASE Reject(c)
    <2>1. Promise!Fail(c)
      BY <1>5, MapsToFail DEF Reject, Requested
    <2>2. QED
      BY <2>1 DEF Promise!Next
  <1>6. CASE Write(c)
    <2>1. conn[c] = [at |-> "reply", req |-> None, reply |-> conn[c].reply]
      BY <1>6, TaskFacts DEF Write
    <2> DEFINE k == [conn[c] EXCEPT !.at = "closed"]
    <2>2. k.req = None /\ OutcomeOf(k) = "none"
      BY <2>1 DEF OutcomeOf
    <2>3. conn[c].req = None /\ OutcomeOf(conn[c]) # "none"
      BY <2>1 DEF OutcomeOf
    <2>4. conn' = [conn EXCEPT ![c] = k]
      BY <1>6 DEF Write
    <2> HIDE DEF k
    <2>5. /\ Pending' = [Pending EXCEPT ![c] = k.req]
          /\ Outcomes' = [Outcomes EXCEPT ![c] = OutcomeOf(k)]
          /\ Pending[c] = conn[c].req
          /\ Outcomes[c] = OutcomeOf(conn[c])
      BY <2>4, MappedMove
    <2>6. Pending' = Pending
      BY <2>2, <2>3, <2>5 DEF Pending
    <2>7. Outcomes' = [Outcomes EXCEPT ![c] = "none"] /\ Outcomes[c] # "none"
      BY <2>2, <2>3, <2>5
    <2>8. Promise!Answer(c)
      BY <2>6, <2>7 DEF Promise!Answer, Pending, Outcomes, OutcomeOf, State
    <2>9. QED
      BY <2>8 DEF Promise!Next
  <1>7. QED
    BY <1>1, <1>2, <1>3, <1>4, <1>5, <1>6 DEF Promise!Next

\* An exit of any daemon leaves it in the state in which it starts.
LEMMA ExitMaps ==
    ASSUME Inv, (\E c \in Conns : Shutdown(c)) \/ AcceptFails,
           State' = Stored(Unset, NoDns, <<>>)
    PROVE  [Promise!Next]_(Promise!vars)
  <1>1. conn' = [d \in Conns |-> Closed]
    BY DEF Shutdown, AcceptFails
  <1>2. QED
    BY <1>1, MapsToHalt DEF Promise!Next

\* A step that touches neither a connection nor what commands change.
LEMMA SilentMaps ==
    ASSUME UNCHANGED <<conn, State>>
    PROVE  [Promise!Next]_(Promise!vars)
  BY DEF Promise!vars, State

\* netop: state.set stores the state before it answers Ok.
LEMMA NetopMaps ==
    ASSUME Inv, OfNetop, NetopNext
    PROVE  [Promise!Next]_(Promise!vars)
  <1> USE DEF Inv
  <1>1. dns = NoDns /\ rules = <<>> /\ UNCHANGED <<dns, rules>>
    BY DEF OfNetop, Separate, netgateVars
  <1>2. CASE ControlStep(NetopRequests) /\ UNCHANGED netopVars
    BY <1>1, <1>2, ControlStepMaps, OfAllRequests DEF State, Stored, netopVars
  <1>3. ASSUME NEW c \in Conns, SetState(c) PROVE Promise!Succeed(c)
    <2>1. conn[c].at = "dispatch" /\ conn[c].req \in AllRequests
      BY <1>3, TaskFacts DEF SetState, Requested
    <2>2. State' = CommandEffect(conn[c].req, State)
      BY <1>1, <1>3, <2>1, Effects DEF SetState, Requested, State, Stored
    <2>3. QED
      BY <1>3, <2>1, <2>2, MapsToSucceed DEF SetState
  <1>4. ASSUME NEW c \in Conns, SetBroken(c) PROVE Promise!Fail(c)
    BY <1>1, <1>4, MapsToFail DEF SetBroken, Requested, netopVars, State, Stored
  <1>5. CASE (\E c \in Conns : NetopExit(c)) \/ (AcceptFails /\ NetopLost)
    <2>1. State' = Stored(Unset, NoDns, <<>>)
      BY <1>1, <1>5 DEF NetopExit, NetopLost, State
    <2>2. QED
      BY <1>5, <2>1, ExitMaps DEF NetopExit
  <1>6. CASE Start /\ UNCHANGED netopVars
    BY <1>1, <1>6, SilentMaps DEF Start, netopVars, State
  <1>7. CASE NetopLoop
    BY <1>1, <1>7, SilentMaps
       DEF NetopLoop, StartLoop, BeginPass, ReconcileRules, ReconcileIfaces,
           controlVars, State
  <1>8. QED
    BY <1>2, <1>3, <1>4, <1>5, <1>6, <1>7 DEF NetopNext, NetopControl, Promise!Next

\* netgate: a command has changed the table or the rules before it is
\* answered, and the task that binds a socket changes neither.
LEMMA NetgateMaps ==
    ASSUME Inv, OfNetgate, NetgateNext
    PROVE  [Promise!Next]_(Promise!vars)
  <1> USE DEF Inv
  <1>1. desired = Unset /\ UNCHANGED desired
    BY DEF OfNetgate, Separate, netopVars
  <1>2. CASE ControlStep(NetgateIncoming) /\ UNCHANGED netgateVars
    BY <1>1, <1>2, ControlStepMaps, OfAllRequests DEF State, Stored, netgateVars
  <1>3. ASSUME NEW c \in Conns, UpsertRecord(c) \/ DeleteRecord(c) \/ AddRule(c)
        PROVE  Promise!Succeed(c)
    <2>1. conn[c].at = "dispatch" /\ conn[c].req \in AllRequests /\ Replied(c, "Ok")
      BY <1>3, TaskFacts DEF UpsertRecord, DeleteRecord, AddRule, Requested
    <2>2. State' = CommandEffect(conn[c].req, State)
      <3>1. CASE UpsertRecord(c)
        BY <1>1, <2>1, <3>1, Effects DEF UpsertRecord, Requested, State, Stored
      <3>2. CASE DeleteRecord(c) /\ conn[c].req.arg # Broken
        BY <1>1, <2>1, <3>2, Effects DEF DeleteRecord, Requested, State, Stored
      <3>3. CASE DeleteRecord(c) /\ conn[c].req.arg = Broken
        <4>1. dns' = dns
          BY <3>3, MarkersAssumption DEF DeleteRecord, DnsOK
        <4>2. QED
          BY <1>1, <2>1, <3>3, <4>1, Effects DEF DeleteRecord, State, Stored
      <3>4. CASE AddRule(c)
        BY <1>1, <2>1, <3>4, Effects DEF AddRule, Requested, State, Stored
      <3>5. QED
        BY <1>3, <3>1, <3>2, <3>3, <3>4
    <2>3. QED
      BY <2>1, <2>2, MapsToSucceed
  <1>4. ASSUME NEW c \in Conns, RefuseBroken(c) PROVE Promise!Fail(c)
    BY <1>1, <1>4, MapsToFail DEF RefuseBroken, Requested, netgateVars, State, Stored
  <1>5. CASE (\E c \in Conns : NetgateExit(c)) \/ (AcceptFails /\ NetgateLost)
    <2>1. State' = Stored(Unset, NoDns, <<>>)
      BY <1>1, <1>5 DEF NetgateExit, NetgateLost, State
    <2>2. QED
      BY <1>5, <2>1, ExitMaps DEF NetgateExit
  <1>6. CASE Start /\ UNCHANGED netgateVars
    BY <1>1, <1>6, SilentMaps DEF Start, netgateVars, State
  <1>7. ASSUME NEW i \in DOMAIN rules, Bind(i) PROVE [Promise!Next]_(Promise!vars)
    BY <1>1, <1>7, SilentMaps DEF Bind, controlVars, State
  <1>8. QED
    BY <1>2, <1>3, <1>4, <1>5, <1>6, <1>7
       DEF NetgateNext, NetgateControl, Promise!Next

\* orchestrator and imager: no command has an effect.
LEMMA WorkloadsMap ==
    ASSUME Inv, Stateless, daemon \in Workers, OrchestratorControl \/ ImagerControl
    PROVE  [Promise!Next]_(Promise!vars)
  <1> USE DEF Inv
  <1>1. State = Stored(Unset, NoDns, <<>>) /\ UNCHANGED State
    BY DEF Stateless, Workers, Separate, netopVars, netgateVars, State
  <1>2. CASE ControlStep(OrchestratorRequests) \/ ControlStep(ImagerRequests)
    BY <1>1, <1>2, ControlStepMaps, OfAllRequests
  <1>3. ASSUME NEW c \in Conns,
               CreateVm(c) \/ CreateContainer(c) \/ ListImages(c) \/ ImageStub(c)
        PROVE  Promise!Succeed(c) \/ Promise!Fail(c)
    <2>1. conn[c].at = "dispatch" /\ conn[c].req \in AllRequests
      BY <1>3, TaskFacts
         DEF CreateVm, CreateContainer, ListImages, ImageStub, Requested
    <2>2. CommandEffect(conn[c].req, State) = State
      BY <1>3, <2>1, Effects
         DEF CreateVm, CreateContainer, ListImages, ImageStub, Requested
    <2>3. Replied(c, "Ok") \/ Replied(c, "Data") \/ Replied(c, "Error")
      BY <1>3 DEF CreateVm, CreateContainer, ListImages, ImageStub
    <2>4. QED
      BY <1>1, <2>1, <2>2, <2>3, MapsToSucceed, MapsToFail
  <1>4. CASE (\E c \in Conns : Shutdown(c)) \/ AcceptFails
    BY <1>1, <1>4, ExitMaps
  <1>5. CASE Start
    BY <1>1, <1>5, SilentMaps DEF Start
  <1>6. QED
    BY <1>2, <1>3, <1>4, <1>5 DEF OrchestratorControl, ImagerControl, Promise!Next

\* Each daemon implements Commands: whatever clients send and wherever the
\* process ends, a command takes effect at most once and while its client
\* waits, and the reply says whether it did.
THEOREM ImplementsCommands == Spec => CommandsHonoured
  <1>1. Init => Promise!Init
    BY DEF Init, ControlInit, NetopFresh, NetgateFresh, Promise!Init, Closed, Phase
  <1>2. Inv /\ [Next]_vars => [Promise!Next]_(Promise!vars)
    <2> SUFFICES ASSUME Inv, [Next]_vars PROVE [Promise!Next]_(Promise!vars)
      OBVIOUS
    <2>1. CASE OfNetop /\ NetopNext
      BY <2>1, NetopMaps
    <2>2. CASE OfNetgate /\ NetgateNext
      BY <2>2, NetgateMaps
    <2>3. CASE daemon \in Workers /\ Stateless /\ (OrchestratorControl \/ ImagerControl)
      BY <2>3, WorkloadsMap
    <2>4. CASE UNCHANGED vars
      BY <2>4, SilentMaps DEF vars, controlVars, netopVars, netgateVars, State
    <2>5. QED
      BY <2>1, <2>2, <2>3, <2>4 DEF Next, Workers
  <1>3. QED
    BY <1>1, <1>2, InvHolds, PTL DEF Spec, CommandsHonoured, Promise!Spec

=============================================================================
