------------------------------- MODULE Hivectl ------------------------------
(***************************************************************************)
(* hivectl (crates/hivectl/src/main.rs), the terminal view of a cluster,   *)
(* and the hivebus daemon that it asks.                                    *)
(*                                                                         *)
(* One thread draws, polls the keyboard and refreshes.  A refresh asks     *)
(* twice, GetNodes and then GetMaster, each on a connection of its own,    *)
(* and the membership table (HivebusNode) goes on changing in between.     *)
(* The daemon may stop, start again, or be too slow for SOCKET_TIMEOUT;    *)
(* connections that it has not accepted fill the backlog of its socket.    *)
(* Time is abstracted to `due': REFRESH_INTERVAL has gone by.              *)
(***************************************************************************)
EXTENDS Membership

CONSTANTS
    Self,           \* the daemon's node id
    Backlog         \* connections the socket holds before they are accepted

ASSUME HivectlAssumption ==
    /\ Self \in Ids /\ Backlog \in Nat \ {0}
    /\ IsFiniteSet(Ids)     \* they are u16

VARIABLES
    members, lag,   \* the daemon's table and detector, see HivebusNode
    running,        \* is the daemon running
    slow,           \* does it take longer than SOCKET_TIMEOUT to answer
    bulk,           \* how large a reply of several lines is
    queue,          \* connections that wait to be accepted, ours the last
    reply,          \* what the daemon has written to our connection
    at,             \* where run_loop is
    query,          \* the refresh under way
    nodes, master, error,   \* ClusterState
    selected,       \* the selected row, from 0, or NoRow
    due,            \* has REFRESH_INTERVAL passed since queried_at
    quit            \* has the user pressed q

tableVars == <<members, lag>>
daemonVars == <<tableVars, running, slow>>
screenVars == <<nodes, master, error, selected>>
socketVars == <<queue, reply>>
vars == <<daemonVars, bulk, socketVars, at, query, screenVars, due, quit>>

Hivebus == INSTANCE HivebusNode

NoRow == -1
NoMaster == -1

NodesReply == GetNodes(members, Self)
MasterReply == GetMaster(members, Self)

(***************************************************************************)
(* MAX_CONTROL_PAYLOAD is below what the frame's u16 can carry: a reply    *)
(* "fits", is "large", which hivectl refuses, or is "huge", at which       *)
(* encode_control panics.  Long host names and many nodes make it so; one  *)
(* line always fits.                                                       *)
(***************************************************************************)
Size(lines) == IF Cardinality(lines) > 1 THEN bulk ELSE "fits"

Silence == [kind |-> "none", lines |-> {}, id |-> NoMaster]
Eof == [Silence EXCEPT !.kind = "Eof"]

NoQuery == [op |-> "none", got |-> {}, from |-> "none"]
Refresh(from) == [op |-> "GetNodes", got |-> {}, from |-> from]

-----------------------------------------------------------------------------
Init ==
    /\ Hivebus!Init
    /\ running \in BOOLEAN
    /\ slow = FALSE
    /\ bulk \in {"fits", "large", "huge"}
    /\ queue = 0
    /\ reply = Silence
    /\ at = "draw"
    /\ query = NoQuery
    /\ nodes = {} /\ master = NoMaster /\ error = TRUE
    /\ selected = NoRow
    /\ due = TRUE
    /\ quit = FALSE

(***************************************************************************)
(* The daemon.                                                             *)
(***************************************************************************)
TableStep(A) ==
    /\ running
    /\ A
    /\ UNCHANGED <<running, slow, bulk, socketVars, at, query, screenVars, due, quit>>

\* Connections that are open or wait get an end of file.
DaemonStops ==
    /\ running
    /\ Hivebus!Restart
    /\ running' = FALSE
    /\ queue' = 0
    /\ reply' = IF at = "wait" /\ reply = Silence THEN Eof ELSE reply
    /\ UNCHANGED <<slow, bulk, at, query, screenVars, due, quit>>

DaemonStarts ==
    /\ ~running
    /\ running' = TRUE
    /\ UNCHANGED <<tableVars, slow, bulk, socketVars, at, query, screenVars, due, quit>>

SpeedChanges ==
    /\ slow' = ~slow
    /\ UNCHANGED <<tableVars, running, bulk, socketVars, at, query, screenVars, due, quit>>

Accept ==
    /\ queue > 0
    /\ queue' = queue - 1
    /\ UNCHANGED <<daemonVars, bulk, reply, at, query, screenVars, due, quit>>

\* The task of our connection answers from the table as it is now.
Answer ==
    IF query.op = "GetMaster" THEN [Silence EXCEPT !.kind = "Master", !.id = MasterReply]
    ELSE IF Size(NodesReply) = "huge" THEN Eof
    ELSE [Silence EXCEPT !.kind = "Nodes", !.lines = NodesReply]

Serve ==
    /\ running
    /\ at = "wait"
    /\ queue = 0
    /\ reply = Silence
    /\ reply' = Answer
    /\ UNCHANGED <<daemonVars, bulk, queue, at, query, screenVars, due, quit>>

(***************************************************************************)
(* run_loop.                                                               *)
(***************************************************************************)
Goto(phase) ==
    /\ at' = phase
    /\ UNCHANGED <<daemonVars, bulk, socketVars, query, screenVars, due, quit>>

Draw == at = "draw" /\ Goto("poll")

\* draw, poll or read fails: run_loop returns the error.
TerminalFails == at \in {"draw", "poll"} /\ Goto("ended")

NoKey == at = "poll" /\ ~quit /\ Goto("check")

QuitKey == at = "poll" /\ quit /\ Goto("ended")

\* Variant: the automatic refresh is for rounds without a key.
OtherKeySkipsCheck == at = "poll" /\ Goto("draw")

OtherKey == at = "poll" /\ Goto("check")

StartRefresh(from) ==
    /\ at' = "connect"
    /\ query' = Refresh(from)
    /\ UNCHANGED <<daemonVars, bulk, socketVars, screenVars, due, quit>>

RefreshKey == at = "poll" /\ StartRefresh("key")

\* `selected' is None only while there are no rows.
Scrolled(up) ==
    IF up THEN IF selected > 0 THEN selected - 1 ELSE selected
    ELSE IF selected + 1 < Cardinality(nodes) THEN selected + 1 ELSE selected

ScrollKey(up) ==
    /\ at = "poll"
    /\ selected' = Scrolled(up)
    /\ at' = "check"
    /\ UNCHANGED <<daemonVars, bulk, socketVars, query, nodes, master, error, due, quit>>

Check ==
    /\ at = "check"
    /\ IF due THEN StartRefresh("auto") ELSE Goto("draw")

Back == IF query.from = "key" THEN "check" ELSE "draw"

\* Variant: an error is shown only as long as there is no table to show.
RefreshFailedQuietly ==
    /\ error' = (nodes = {})
    /\ due' = FALSE
    /\ at' = Back
    /\ query' = NoQuery
    /\ reply' = Silence
    /\ UNCHANGED <<daemonVars, bulk, nodes, master, selected, quit>>

\* The Err arm of refresh: the former table stays.
RefreshFailed ==
    /\ error' = TRUE
    /\ due' = FALSE
    /\ at' = Back
    /\ query' = NoQuery
    /\ reply' = Silence
    /\ UNCHANGED <<daemonVars, bulk, nodes, master, selected, quit>>

\* Variant: the selection is left where it is.
KeptInBoundsNot(lines) == IF selected = NoRow /\ lines # {} THEN 0 ELSE selected

KeptInBounds(lines) ==
    IF lines = {} THEN selected
    ELSE IF selected = NoRow THEN 0
    ELSE IF selected >= Cardinality(lines) THEN Cardinality(lines) - 1
    ELSE selected

\* Its Ok arm.
RefreshDone ==
    /\ selected' = KeptInBounds(query.got)
    /\ nodes' = query.got
    /\ master' = reply.id
    /\ error' = FALSE
    /\ due' = FALSE
    /\ at' = Back
    /\ query' = NoQuery
    /\ reply' = Silence
    /\ UNCHANGED <<daemonVars, bulk, quit>>

\* UnixStream::connect, which has no timeout: with a full backlog it waits.
Connect ==
    /\ at = "connect"
    /\ \/ /\ running
          /\ queue < Backlog
          /\ queue' = queue + 1
          /\ reply' = Silence
          /\ at' = "wait"
          /\ UNCHANGED <<daemonVars, bulk, query, screenVars, due, quit>>
       \/ ~running /\ RefreshFailed /\ UNCHANGED queue

TakeReply ==
    /\ at = "wait"
    /\ \/ reply.kind = "Eof" /\ RefreshFailed
       \/ reply.kind = "Nodes" /\ Size(reply.lines) = "large" /\ RefreshFailed
       \/ /\ reply.kind = "Nodes"
          /\ Size(reply.lines) # "large"
          /\ query' = [query EXCEPT !.op = "GetMaster", !.got = reply.lines]
          /\ at' = "connect"
          /\ reply' = Silence
          /\ UNCHANGED <<daemonVars, bulk, screenVars, due, quit>>
       \/ reply.kind = "Master" /\ RefreshDone
    /\ UNCHANGED queue

\* Variant: only the first of the two connections has a timeout.
TimeOutFirst ==
    /\ at = "wait"
    /\ query.op = "GetNodes"
    /\ slow
    /\ reply = Silence
    /\ RefreshFailed
    /\ UNCHANGED queue

\* The read times out; a late answer goes to a connection that is gone.
TimeOut ==
    /\ at = "wait"
    /\ slow
    /\ reply = Silence
    /\ RefreshFailed
    /\ UNCHANGED queue

\* The user presses q; time passes.
PressQuit ==
    /\ ~quit
    /\ quit' = TRUE
    /\ UNCHANGED <<daemonVars, bulk, socketVars, at, query, screenVars, due>>

Elapse ==
    /\ ~due
    /\ due' = TRUE
    /\ UNCHANGED <<daemonVars, bulk, socketVars, at, query, screenVars, quit>>

-----------------------------------------------------------------------------
DaemonNext ==
    \/ TableStep(Hivebus!Listen \/ Hivebus!DetectorNow \/ Hivebus!DetectorScan \/ Hivebus!Tick)
    \/ DaemonStops \/ DaemonStarts \/ SpeedChanges \/ Accept \/ Serve

LoopNext ==
    \/ Draw \/ TerminalFails \/ NoKey \/ QuitKey \/ OtherKey \/ RefreshKey
    \/ \E up \in BOOLEAN : ScrollKey(up)
    \/ Check \/ Connect \/ TakeReply \/ TimeOut

Next == DaemonNext \/ LoopNext \/ PressQuit \/ Elapse

\* What ends a wait: the answer of a daemon that is not slow, or the timeout.
Awaited ==
    /\ at = "wait"
    /\ (~slow /\ (Accept \/ Serve)) \/ TakeReply \/ TimeOut

(***************************************************************************)
(* The only thread of hivectl goes on where nothing stops it, and a wait   *)
(* ends one way or the other.  Keys are read in their order, so q has its  *)
(* turn (SF).  The clock and the daemon's detector run, and a daemon that  *)
(* is not slow accepts.                                                    *)
(***************************************************************************)
Fairness ==
    /\ WF_vars(Draw \/ NoKey \/ Check \/ Connect \/ Awaited)
    /\ SF_vars(QuitKey)
    /\ WF_vars(Elapse)
    /\ WF_vars(~slow /\ Accept)
    /\ WF_vars(TableStep(Hivebus!Tick))
    /\ WF_vars(TableStep(Hivebus!DetectorNow))
    /\ WF_vars(TableStep(Hivebus!DetectorScan))

Spec == Init /\ [][Next]_vars /\ Fairness

-----------------------------------------------------------------------------
Lines == [id : Ids, state : NodeState, master : BOOLEAN]

\* Every variable has its type, and the selected row is one of those shown:
\* a shrinking table must take the selection along (main.rs:95-102, 117-132).
TypeOK ==
    /\ Hivebus!TypeOK
    /\ running \in BOOLEAN /\ slow \in BOOLEAN
    /\ queue \in 0 .. Backlog
    /\ reply \in [kind : {"none", "Eof", "Nodes", "Master"}, lines : SUBSET Lines,
                  id : Ids \cup {NoMaster}]
    /\ at \in {"draw", "poll", "check", "connect", "wait", "ended"}
    /\ query.op \in {"none", "GetNodes", "GetMaster"}
    /\ query.got \subseteq Lines
    /\ (at \in {"connect", "wait"}) <=> (query # NoQuery)
    /\ nodes \subseteq Lines
    /\ master \in Ids \cup {NoMaster}
    /\ error \in BOOLEAN /\ due \in BOOLEAN /\ quit \in BOOLEAN
    /\ IF nodes = {} THEN selected = NoRow ELSE selected \in 0 .. Cardinality(nodes) - 1

\* What ui draws: the table, the master named in the header, and no error.
Shown(lines, id) == nodes = lines /\ master = id /\ ~error

Settled == <>[][UNCHANGED <<NodesReply, MasterReply>>]_vars

Ended == at = "ended"

\* When the cluster's table has settled and the daemon answers in time with
\* replies that fit, the screen comes to show that table and stays so, with
\* one star on the very node that the header names, although the two come
\* from two queries and whatever keys are pressed (main.rs:171-201, 442 "so
\* the auto-refresh ticker fires roughly on schedule regardless of user
\* input").
ScreenSettles ==
    (Settled /\ <>[](running /\ ~slow /\ Size(NodesReply) = "fits")) =>
      <>[](Ended \/ (/\ Shown(NodesReply, MasterReply)
                     /\ \E n \in nodes : Stars(nodes) = {n} /\ n.id = master))

\* If the daemon stays away, or its reply is too large for the socket's
\* framing, the screen does not pretend otherwise: it comes to show the
\* connection error and keeps showing it (main.rs:110-113, 158, 223-226).
FailureShown ==
    /\ <>[]~running => <>[](Ended \/ error)
    /\ <>[](running /\ Size(NodesReply) # "fits") => <>[](Ended \/ error)

\* q ends the program whatever the daemon does, also in the middle of a
\* refresh, because each wait has a timeout (main.rs:8 "q / Ctrl-C   quit",
\* 177, 191); connect has none, so the backlog must not stay full.
QuitHonoured ==
    []<>(~running \/ queue < Backlog) => (quit ~> Ended)
=============================================================================
