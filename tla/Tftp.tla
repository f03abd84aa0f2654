-------------------------------- MODULE Tftp --------------------------------
(***************************************************************************)
(* The TFTP server of pxeboot (crates/pxeboot/src/main.rs).  tftp_server   *)
(* starts a transfer, a task with a socket of its own, for every read      *)
(* request it gets, a repeated one included; serve_tftp_read sends one     *)
(* block at a time and waits for its acknowledgement.                      *)
(*                                                                         *)
(* The client, one machine that wants one file, is external: it takes the  *)
(* first transfer that answers, acknowledges each block in turn, and a     *)
(* repeated one again (RFC 1350).  Either side's packets may be lost, be   *)
(* duplicated, come late, or overtake each other.                          *)
(*                                                                         *)
(* The file does not change during a transfer.  Its blocks are numbered    *)
(* from 1, and only the last, possibly empty one is short.  A packet with  *)
(* a block carries its number as the wire shows it, modulo BlockMod.       *)
(***************************************************************************)
EXTENDS Integers, SequencesExt

CONSTANTS
    Transfers,      \* the tasks that requests of the client start
    FileBlocks,     \* blocks of the file, the short one included
    BlockMod,       \* 2^16, the values of a u16
    MaxRetries,     \* TFTP_MAX_RETRIES
    Overtaking,     \* bound: packets that another one may overtake
    MaxDups         \* bound: packets the network duplicates

ASSUME TftpAssumption ==
    /\ FileBlocks \in Nat \ {0}
    /\ BlockMod \in Nat \ {0, 1}
    /\ MaxRetries \in Nat \ {0}
    /\ Overtaking \in Nat /\ MaxDups \in Nat

VARIABLES
    server,     \* each transfer: where it is, its block and its retries
    down,       \* its packets on the way to the client: blocks of the file
    back,       \* packets on the way to it: acknowledged numbers or Error
    client,     \* the transfer the client takes, and if it is still there
    got,        \* the blocks the client has stored
    trouble,    \* history: timeouts, duplicates and errors met by a transfer
    dups        \* duplicates so far

vars == <<server, down, back, client, got, trouble, dups>>

Undecided == "undecided"
ASSUME UndecidedAssumption == Undecided \notin Transfers

Error == -1         \* any packet that is no acknowledgement
Number(pos) == pos % BlockMod

NotStarted == [at |-> "unused", pos |-> 1, retries |-> 0]

-----------------------------------------------------------------------------
Init ==
    /\ server = [t \in Transfers |-> NotStarted]
    /\ down = [t \in Transfers |-> <<>>]
    /\ back = [t \in Transfers |-> <<>>]
    /\ client = [takes |-> Undecided, there |-> TRUE]
    /\ got = <<>>
    /\ trouble = [t \in Transfers |-> 0]
    /\ dups = 0

(***************************************************************************)
(* The server.                                                             *)
(***************************************************************************)

\* tftp_server gets a read request and the file is opened, ...
Request(t) ==
    /\ server[t].at = "unused"
    /\ server' = [server EXCEPT ![t].at = "read"]
    /\ UNCHANGED <<down, back, client, got, trouble, dups>>

\* ... or it is refused: no read request, unknown mode, bad path, no file,
\* no socket.
Refuse(t) ==
    /\ server[t].at = "unused"
    /\ server' = [server EXCEPT ![t].at = "error"]
    /\ UNCHANGED <<down, back, client, got, trouble, dups>>

\* The next block cannot be read or sent.
ReadFails(t) ==
    /\ server[t].at = "read"
    /\ server' = [server EXCEPT ![t].at = "error"]
    /\ UNCHANGED <<down, back, client, got, trouble, dups>>

\* Variant: the count of retries goes on from block to block.
SendBlockStillCounting(t) ==
    /\ server[t].at = "read"
    /\ server' = [server EXCEPT ![t].at = "wait"]
    /\ down' = [down EXCEPT ![t] = Append(@, server[t].pos)]
    /\ UNCHANGED <<back, client, got, trouble, dups>>

\* Variant: every block is sent twice, to be on the safe side.
SendBlockTwice(t) ==
    /\ server[t].at = "read"
    /\ server' = [server EXCEPT ![t].at = "wait", ![t].retries = 0]
    /\ down' = [down EXCEPT ![t] = @ \o <<server[t].pos, server[t].pos>>]
    /\ UNCHANGED <<back, client, got, trouble, dups>>

\* The next block is read and sent.
SendBlock(t) ==
    /\ server[t].at = "read"
    /\ server' = [server EXCEPT ![t].at = "wait", ![t].retries = 0]
    /\ down' = [down EXCEPT ![t] = Append(@, server[t].pos)]
    /\ UNCHANGED <<back, client, got, trouble, dups>>

\* Sending the block once more, which may fail and then ends the transfer.
SendAgain(t) ==
    \/ /\ server' = [server EXCEPT ![t].retries = @ + 1]
       /\ down' = [down EXCEPT ![t] = Append(@, server[t].pos)]
    \/ /\ server' = [server EXCEPT ![t].retries = @ + 1, ![t].at = "error"]
       /\ UNCHANGED down

GiveUp(t) ==
    /\ server' = [server EXCEPT ![t].retries = @ + 1, ![t].at = "given up"]
    /\ UNCHANGED down

\* Variant: one attempt too many.
RetryOnceMore(t) == IF server[t].retries + 1 > MaxRetries THEN GiveUp(t) ELSE SendAgain(t)

\* A wait that ends without the acknowledgement: the attempts are limited.
Retry(t) == IF server[t].retries + 1 >= MaxRetries THEN GiveUp(t) ELSE SendAgain(t)

\* Variant: any acknowledgement will do.
AckedByAny(t, packet) == packet # Error

\* Is this the acknowledgement that the transfer waits for?
Acked(t, packet) == packet # Error /\ packet = Number(server[t].pos)

Advanced(s) ==
    IF s.pos = FileBlocks THEN [s EXCEPT !.at = "complete"]
    ELSE [s EXCEPT !.at = "read", !.pos = @ + 1]

\* A packet comes in while the transfer waits.
ServerReceives(t, k) ==
    /\ server[t].at = "wait"
    /\ back' = [back EXCEPT ![t] = RemoveAt(@, k)]
    /\ \/ /\ Acked(t, back[t][k])
          /\ server' = [server EXCEPT ![t] = Advanced(@)]
          /\ UNCHANGED down
       \/ /\ ~Acked(t, back[t][k])
          /\ Retry(t)
    /\ trouble' = [trouble EXCEPT ![t] = IF back[t][k] = Error THEN @ + 1 ELSE @]
    /\ UNCHANGED <<client, got, dups>>

\* Variant: the last attempt waits without a limit.
TimeoutNotLast(t) ==
    /\ server[t].at = "wait"
    /\ server[t].retries + 1 < MaxRetries
    /\ Retry(t)
    /\ trouble' = [trouble EXCEPT ![t] = @ + 1]
    /\ UNCHANGED <<back, client, got, dups>>

\* TFTP_ACK_TIMEOUT passes, whether or not an answer is on its way, or the
\* socket reports an error.
Timeout(t) ==
    /\ server[t].at = "wait"
    /\ Retry(t)
    /\ trouble' = [trouble EXCEPT ![t] = @ + 1]
    /\ UNCHANGED <<back, client, got, dups>>

-----------------------------------------------------------------------------
(***************************************************************************)
(* The client.                                                             *)
(***************************************************************************)
Awaited == Number(Len(got) + 1)
Finished == Len(got) > 0 /\ got[Len(got)] = FileBlocks

\* A block of the transfer the client takes: the next one is stored, and a
\* block that is no news is acknowledged only.
ClientReceives(t, k) ==
    LET pos == down[t][k]
        next == ~Finished /\ Number(pos) = Awaited
    IN  /\ client.there
        /\ \/ client.takes = t
           \/ client.takes = Undecided /\ next
        /\ client' = [client EXCEPT !.takes = t]
        /\ got' = IF next THEN Append(got, pos) ELSE got
        /\ down' = [down EXCEPT ![t] = RemoveAt(@, k)]
        /\ back' = [back EXCEPT ![t] = Append(@, Number(pos))]
        /\ UNCHANGED <<server, trouble, dups>>

\* A block of another transfer is answered by an error ("unknown transfer").
ClientRejects(t, k) ==
    /\ client.there
    /\ client.takes \notin {t, Undecided}
    /\ down' = [down EXCEPT ![t] = RemoveAt(@, k)]
    /\ back' = [back EXCEPT ![t] = Append(@, Error)]
    /\ UNCHANGED <<server, client, got, trouble, dups>>

\* The client leaves, done or not; blocks sent to it come to nothing.
ClientLeaves ==
    /\ client.there
    /\ client' = [client EXCEPT !.there = FALSE]
    /\ UNCHANGED <<server, down, back, got, trouble, dups>>

-----------------------------------------------------------------------------
(***************************************************************************)
(* The network.                                                            *)
(***************************************************************************)
Arriving(q) == {k \in DOMAIN q : k <= Overtaking + 1}

Lose(t) ==
    /\ \/ /\ \E k \in Arriving(down[t]) : down' = [down EXCEPT ![t] = RemoveAt(@, k)]
          /\ UNCHANGED back
       \/ /\ \E k \in Arriving(back[t]) : back' = [back EXCEPT ![t] = RemoveAt(@, k)]
          /\ UNCHANGED down
    /\ UNCHANGED <<server, client, got, trouble, dups>>

Duplicate(t) ==
    /\ dups < MaxDups
    /\ dups' = dups + 1
    /\ trouble' = [trouble EXCEPT ![t] = @ + 1]
    /\ \/ /\ \E k \in DOMAIN down[t] : down' = [down EXCEPT ![t] = InsertAt(@, k, @[k])]
          /\ UNCHANGED back
       \/ /\ \E k \in DOMAIN back[t] : back' = [back EXCEPT ![t] = InsertAt(@, k, @[k])]
          /\ UNCHANGED down
    /\ UNCHANGED <<server, client, got>>

Ended(t) == server[t].at \in {"error", "given up", "complete"}

Next ==
    \/ \E t \in Transfers :
         \/ Request(t) \/ Refuse(t) \/ SendBlock(t) \/ ReadFails(t)
         \/ Timeout(t)
         \/ \E k \in Arriving(back[t]) : ServerReceives(t, k)
         \/ \E k \in Arriving(down[t]) : ClientReceives(t, k) \/ ClientRejects(t, k)
         \/ Lose(t) \/ Duplicate(t)
    \/ ClientLeaves

Spec == Init /\ [][Next]_vars

\* The runtime runs a transfer's task when its timer fires, and the read of
\* a file comes back.  Nothing is assumed of the client or the network.
FairSpec ==
    /\ Spec
    /\ \A t \in Transfers : /\ WF_vars(SendBlock(t) \/ ReadFails(t))
                            /\ WF_vars(Timeout(t))

-----------------------------------------------------------------------------
(***************************************************************************)
(* Properties.                                                             *)
(***************************************************************************)

\* Every part of the state has its type; a waiting transfer has attempts left.
TypeOK ==
    /\ server \in [Transfers ->
         [at : {"unused", "read", "wait", "error", "given up", "complete"},
          pos : 1 .. FileBlocks, retries : 0 .. MaxRetries]]
    /\ \A t \in Transfers : server[t].at = "wait" => server[t].retries < MaxRetries
    /\ \A t \in Transfers :
         /\ \A k \in DOMAIN down[t] : down[t][k] \in 1 .. FileBlocks
         /\ \A k \in DOMAIN back[t] : back[t][k] \in {Error} \cup 0 .. BlockMod - 1
    /\ client \in [takes : Transfers \cup {Undecided}, there : BOOLEAN]
    /\ trouble \in [Transfers -> Nat]
    /\ dups \in 0 .. MaxDups

\* What the client has stored is the beginning of the file, each block once
\* and in its place, whatever is repeated, late or taken for another block
\* of the same number (main.rs:510-521, 535).
StoredIsPrefix == \A i \in DOMAIN got : got[i] = i

\* A transfer that logs "TFTP transfer complete" (main.rs:530-533) has
\* delivered the whole file to the client.
CompleteIsDelivered ==
    \A t \in Transfers :
      server[t].at = "complete" => client.takes = t /\ Len(got) = FileBlocks

\* Each packet that is answered at once makes another one, so a repeated
\* block is repeated for the rest of the file; but the traffic of a transfer
\* never grows beyond one packet for each thing that went wrong.
TrafficBounded ==
    \A t \in Transfers : Len(down[t]) + Len(back[t]) <= 1 + trouble[t]

\* A transfer is given up (main.rs:523-527) only if as many things went wrong
\* in it: the late acknowledgements of one block, which count as attempts
\* for the next one, are not enough.
GivenUpForCause ==
    \A t \in Transfers :
      server[t].at = "given up" => trouble[t] >= MaxRetries

\* Every transfer that was started ends, also when its client is gone.
TransferEnds == \A t \in Transfers : (server[t].at = "read") ~> Ended(t)
=============================================================================
