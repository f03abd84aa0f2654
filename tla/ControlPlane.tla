---------------------------- MODULE ControlPlane ----------------------------
(***************************************************************************)
(* The control socket that every daemon of the repository serves in the    *)
(* same way (control_plane, control_plane_task): one task per connection,  *)
(* one request per connection, framed as marker, length, payload.          *)
(*                                                                         *)
(* A connection's task goes through the phases "header", "payload",        *)
(* "dispatch" and "reply"; it is "closed" afterwards, with the reply that  *)
(* the client has got or None.  What "dispatch" does with a Custom request *)
(* is the matter of the daemons' modules, which extend this one.  The read *)
(* steps wait for the client, who may send nothing for ever (no timeout)   *)
(* or hang up.                                                             *)
(***************************************************************************)
EXTENDS Integers, Sequences, FiniteSets

CONSTANTS
    Conns,      \* connections, as many as the process has descriptors for;
                \* each is used again once it is closed
    None,       \* no request, no reply
    Broken      \* the payload of a Custom request that does not decode

\* A process has finitely many descriptors.
ASSUME ConnsAssumption == IsFiniteSet(Conns)

VARIABLES
    alive,      \* is the process running
    conn        \* the connections

controlVars == <<alive, conn>>

(***************************************************************************)
(* The header that a client sends is good, has a wrong marker, or claims   *)
(* more than MAX_CONTROL_PAYLOAD; the payload decodes to a request, or is  *)
(* "Undecodable".  "Unsupported" is an operation of another daemon and     *)
(* "unknown" a Custom tag that nobody knows; arg is the payload of a       *)
(* Custom request.                                                         *)
(***************************************************************************)
Headers == {"good", "badMarker", "tooLong"}

Request(tag, arg) == [tag |-> tag, arg |-> arg]

CommonRequests ==
    {Request(t, None) : t \in {"Ping", "Shutdown", "Undecodable",
                               "Unsupported", "unknown"}}

Replies == {"Ok", "Error", "Data"}

Phase(at) == [at |-> at, req |-> None, reply |-> None]

Closed == Phase("closed")

Connection(requests) ==
    {Closed, Phase("header"), Phase("payload")}
      \cup [at : {"dispatch"}, req : requests, reply : {None}]
      \cup [at : {"reply", "closed"}, req : {None}, reply : Replies]

-----------------------------------------------------------------------------
ControlInit ==
    /\ alive = TRUE
    /\ conn = [c \in Conns |-> Closed]

\* listener.accept() and the task spawned for the connection.
Connect(c) ==
    /\ alive
    /\ conn[c].at = "closed"
    /\ conn' = [conn EXCEPT ![c] = Phase("header")]
    /\ UNCHANGED alive

\* A frame with the wrong marker or length ends the task without a reply.
ReadHeader(c, header) ==
    /\ conn[c].at = "header"
    /\ conn' = [conn EXCEPT ![c] = IF header = "good" THEN Phase("payload") ELSE Closed]
    /\ UNCHANGED alive

ReadPayload(c, r) ==
    /\ conn[c].at = "payload"
    /\ conn' = [conn EXCEPT ![c] = [at |-> "dispatch", req |-> r, reply |-> None]]
    /\ UNCHANGED alive

\* The client closes before its request is complete: read_exact fails.
HangUp(c) ==
    /\ conn[c].at \in {"header", "payload"}
    /\ conn' = [conn EXCEPT ![c] = Closed]
    /\ UNCHANGED alive

\* The request of c is complete and carries this tag.
Requested(c, tag) == conn[c].at = "dispatch" /\ conn[c].req.tag = tag

\* The match on the request yields the reply r.
Replied(c, r) ==
    /\ conn' = [conn EXCEPT ![c] = [at |-> "reply", req |-> None, reply |-> r]]
    /\ UNCHANGED alive

Ping(c) == Requested(c, "Ping") /\ Replied(c, "Ok")

Reject(c) ==
    /\ \E t \in {"Undecodable", "Unsupported", "unknown"} : Requested(c, t)
    /\ Replied(c, "Error")

\* encode_control and write_all.  The replies of the daemons that extend
\* this module stay below the u16 of the length: the longest is "unknown
\* tag: ..." with a tag of the request, which keeps to MAX_CONTROL_PAYLOAD;
\* such a reply may be a few bytes above that limit and is sent all the same.
Write(c) ==
    /\ conn[c].at = "reply"
    /\ conn' = [conn EXCEPT ![c].at = "closed"]
    /\ UNCHANGED alive

\* Variant: only the task that reads Shutdown ends at once.
ShutdownLater(c) ==
    /\ Requested(c, "Shutdown")
    /\ alive' = FALSE
    /\ conn' = [conn EXCEPT ![c] = Closed]

\* process::exit: every task ends where it is, and nobody gets a reply.
Shutdown(c) ==
    /\ Requested(c, "Shutdown")
    /\ alive' = FALSE
    /\ conn' = [d \in Conns |-> Closed]

\* One connection too many: accept fails, control_plane returns the error
\* and with it main.
AcceptFails ==
    /\ alive
    /\ \A c \in Conns : conn[c].at # "closed"
    /\ alive' = FALSE
    /\ conn' = [d \in Conns |-> Closed]

\* main runs again.
Start ==
    /\ ~alive
    /\ alive' = TRUE
    /\ UNCHANGED conn

\* The steps that do not touch the state of the daemon.
ControlStep(requests) ==
    \E c \in Conns :
      \/ Connect(c) \/ HangUp(c)
      \/ \E h \in Headers : ReadHeader(c, h)
      \/ \E r \in requests : ReadPayload(c, r)
      \/ Ping(c) \/ Reject(c) \/ Write(c)

\* The steps of a task that waits for nobody.
ControlTask(c) == Ping(c) \/ Reject(c) \/ Write(c)

ControlTypeOK(requests) ==
    /\ alive \in BOOLEAN
    /\ conn \in [Conns -> Connection(requests)]
    /\ ~alive => conn = [c \in Conns |-> Closed]

\* The client of c has been told r.
Told(c, r) == conn[c].at = "closed" /\ conn[c].reply = r

\* A complete request is answered, unless the process exits: no command,
\* however it is dispatched, keeps its task from the reply (main.rs of each
\* daemon, the match in control_plane; proto lib.rs:232 "The daemon always
\* responds with the same envelope framing.").
Answered ==
    \A c \in Conns :
      conn[c].at = "dispatch" ~> (~alive \/ \E r \in Replies : Told(c, r))
=============================================================================
