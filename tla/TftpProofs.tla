----------------------------- MODULE TftpProofs -----------------------------
(***************************************************************************)
(* Proofs about the TFTP server of pxeboot and its client, for any number  *)
(* of transfers, any file, any number of retries, and a network that loses,*)
(* duplicates, delays and reorders packets without limits.                 *)
(***************************************************************************)
EXTENDS Tftp, SequenceTheorems, FiniteSetTheorems, TLAPS

-----------------------------------------------------------------------------
(***************************************************************************)
(* Queues.                                                                 *)
(***************************************************************************)

\* A packet joins a queue.
LEMMA Appended ==
    ASSUME NEW S, NEW q \in Seq(S), NEW e \in S
    PROVE  /\ Append(q, e) \in Seq(S)
           /\ Len(Append(q, e)) = Len(q) + 1
           /\ \A j \in 1 .. Len(q) : Append(q, e)[j] = q[j]
           /\ Append(q, e)[Len(q) + 1] = e
  BY AppendProperties

\* A packet leaves a queue, and those behind it move up.
LEMMA Removed ==
    ASSUME NEW S, NEW q \in Seq(S), NEW k \in DOMAIN q
    PROVE  /\ RemoveAt(q, k) \in Seq(S)
           /\ Len(RemoveAt(q, k)) = Len(q) - 1
           /\ \A j \in 1 .. Len(q) - 1 :
                RemoveAt(q, k)[j] = IF j < k THEN q[j] ELSE q[j + 1]
  <1> DEFINE a == SubSeq(q, 1, k - 1)
             b == SubSeq(q, k + 1, Len(q))
  <1>1. Len(q) \in Nat /\ k \in 1 .. Len(q) /\ \A i \in 1 .. Len(q) : q[i] \in S
    BY LenProperties, ElementOfSeq
  <1>2. /\ a \in Seq(S) /\ Len(a) = k - 1
        /\ \A i \in 1 .. k - 1 : a[i] = q[i]
    <2>1. 1 \in Int /\ k - 1 \in Int /\ \A i \in 1 .. k - 1 : q[i] \in S
      BY <1>1
    <2> QED BY <1>1, <2>1, SubSeqProperties
  <1>3. /\ b \in Seq(S) /\ Len(b) = Len(q) - k
        /\ \A i \in 1 .. Len(q) - k : b[i] = q[k + i]
    <2>1. k + 1 \in Int /\ Len(q) \in Int /\ \A i \in k + 1 .. Len(q) : q[i] \in S
      BY <1>1
    <2> QED BY <1>1, <2>1, SubSeqProperties
  <1>4. RemoveAt(q, k) = a \o b
    BY DEF RemoveAt
  <1> HIDE DEF a, b
  <1>5. /\ a \o b \in Seq(S)
        /\ Len(a \o b) = Len(a) + Len(b)
        /\ \A i \in 1 .. Len(a) + Len(b) :
             (a \o b)[i] = IF i <= Len(a) THEN a[i] ELSE b[i - Len(a)]
    BY <1>2, <1>3, ConcatProperties
  <1>6. Len(a) + Len(b) = Len(q) - 1
    BY <1>1, <1>2, <1>3
  <1>7. ASSUME NEW j \in 1 .. Len(q) - 1
        PROVE  (a \o b)[j] = IF j < k THEN q[j] ELSE q[j + 1]
    <2>1. CASE j < k
      BY <1>1, <1>2, <1>5, <1>6, <2>1
    <2>2. CASE ~(j < k)
      <3>1. j - (k - 1) \in 1 .. Len(q) - k /\ k + (j - (k - 1)) = j + 1
        BY <1>1, <2>2
      <3>2. (a \o b)[j] = b[j - (k - 1)]
        BY <1>1, <1>2, <1>5, <1>6, <2>2
      <3> QED BY <1>3, <2>2, <3>1, <3>2
    <2> QED BY <2>1, <2>2
  <1> QED BY <1>4, <1>5, <1>6, <1>7

\* A packet is put into a queue.
LEMMA Inserted ==
    ASSUME NEW S, NEW q \in Seq(S), NEW k \in DOMAIN q, NEW e \in S
    PROVE  /\ InsertAt(q, k, e) \in Seq(S)
           /\ Len(InsertAt(q, k, e)) = Len(q) + 1
           /\ \A j \in 1 .. Len(q) + 1 :
                InsertAt(q, k, e)[j] =
                  IF j < k THEN q[j] ELSE IF j = k THEN e ELSE q[j - 1]
  <1> DEFINE a == SubSeq(q, 1, k - 1)
             b == SubSeq(q, k, Len(q))
             ae == a \o <<e>>
  <1>1. Len(q) \in Nat /\ k \in 1 .. Len(q) /\ \A i \in 1 .. Len(q) : q[i] \in S
    BY LenProperties, ElementOfSeq
  <1>2. /\ a \in Seq(S) /\ Len(a) = k - 1
        /\ \A i \in 1 .. k - 1 : a[i] = q[i]
    <2>1. 1 \in Int /\ k - 1 \in Int /\ \A i \in 1 .. k - 1 : q[i] \in S
      BY <1>1
    <2> QED BY <1>1, <2>1, SubSeqProperties
  <1>3. /\ b \in Seq(S) /\ Len(b) = Len(q) - k + 1
        /\ \A i \in 1 .. Len(q) - k + 1 : b[i] = q[k + i - 1]
    <2>1. k \in Int /\ Len(q) \in Int /\ \A i \in k .. Len(q) : q[i] \in S
      BY <1>1
    <2> QED BY <1>1, <2>1, SubSeqProperties
  <1>4. InsertAt(q, k, e) = ae \o b
    BY DEF InsertAt
  <1> HIDE DEF a, b
  <1>5. /\ ae \in Seq(S) /\ Len(ae) = k
        /\ \A i \in 1 .. k : ae[i] = IF i < k THEN a[i] ELSE e
    <2>1. <<e>> \in Seq(S) /\ Len(<<e>>) = 1 /\ <<e>>[1] = e
      OBVIOUS
    <2>2. /\ ae \in Seq(S)
          /\ Len(ae) = Len(a) + Len(<<e>>)
          /\ \A i \in 1 .. Len(a) + Len(<<e>>) :
               ae[i] = IF i <= Len(a) THEN a[i] ELSE <<e>>[i - Len(a)]
      BY <1>2, <2>1, ConcatProperties
    <2> HIDE DEF ae
    <2> QED BY <1>1, <1>2, <2>1, <2>2
  <1> HIDE DEF ae
  <1>6. /\ ae \o b \in Seq(S)
        /\ Len(ae \o b) = Len(ae) + Len(b)
        /\ \A i \in 1 .. Len(ae) + Len(b) :
             (ae \o b)[i] = IF i <= Len(ae) THEN ae[i] ELSE b[i - Len(ae)]
    BY <1>3, <1>5, ConcatProperties
  <1>7. Len(ae) + Len(b) = Len(q) + 1
    BY <1>1, <1>3, <1>5
  <1>8. ASSUME NEW j \in 1 .. Len(q) + 1
        PROVE  (ae \o b)[j] = IF j < k THEN q[j] ELSE IF j = k THEN e ELSE q[j - 1]
    <2>1. CASE j <= k
      BY <1>1, <1>2, <1>5, <1>6, <1>7, <2>1
    <2>2. CASE ~(j <= k)
      <3>1. j - k \in 1 .. Len(q) - k + 1 /\ k + (j - k) - 1 = j - 1
        BY <1>1, <2>2
      <3>2. (ae \o b)[j] = b[j - k]
        BY <1>1, <1>5, <1>6, <1>7, <2>2
      <3>3. b[j - k] = q[j - 1]
        BY <1>3, <3>1
      <3>4. ~(j < k) /\ j # k
        BY <1>1, <2>2
      <3> QED BY <3>2, <3>3, <3>4
    <2> QED BY <2>1, <2>2
  <1> QED BY <1>4, <1>6, <1>7, <1>8

\* A packet of a queue is repeated in it.
LEMMA Copied ==
    ASSUME NEW S, NEW q \in Seq(S), NEW k \in DOMAIN q
    PROVE  /\ InsertAt(q, k, q[k]) \in Seq(S)
           /\ Len(InsertAt(q, k, q[k])) = Len(q) + 1
           /\ \A j \in 1 .. Len(q) + 1 :
                InsertAt(q, k, q[k])[j] =
                  IF j < k THEN q[j] ELSE IF j = k THEN q[k] ELSE q[j - 1]
  <1>1. q[k] \in S
    BY ElementOfSeq, LenProperties
  <1> QED BY <1>1, Inserted

\* A block's number is one that an acknowledgement can carry.
LEMMA NumberType ==
    ASSUME NEW pos \in Nat
    PROVE  Number(pos) \in 0 .. BlockMod - 1 /\ Number(pos) # Error
  <1>1. BlockMod \in Nat /\ BlockMod > 0
    BY TftpAssumption
  <1> QED BY <1>1 DEF Number, Error

\* Up to 2^16 blocks have different numbers.
LEMMA NumbersDiffer ==
    ASSUME FileBlocks <= BlockMod, NEW p \in 1 .. FileBlocks, NEW r \in 1 .. FileBlocks,
           Number(p) = Number(r)
    PROVE  p = r
  <1>1. BlockMod \in Nat /\ BlockMod > 0 /\ FileBlocks \in Nat
    BY TftpAssumption
  <1>2. \A x \in 0 .. BlockMod - 1 : x % BlockMod = x
    BY <1>1
  <1>3. BlockMod % BlockMod = 0
    BY <1>1
  <1> QED BY <1>1, <1>2, <1>3 DEF Number

-----------------------------------------------------------------------------
(***************************************************************************)
(* The types.                                                              *)
(***************************************************************************)
Transfer == [at : {"unused", "read", "wait", "error", "given up", "complete"},
             pos : 1 .. FileBlocks, retries : 0 .. MaxRetries]
Blocks == 1 .. FileBlocks
Answers == {Error} \cup 0 .. BlockMod - 1

ServerOK ==
    /\ server \in [Transfers -> Transfer]
    /\ \A t \in Transfers : server[t].at = "wait" => server[t].retries < MaxRetries
DownOK == down \in [Transfers -> Seq(Blocks)]
BackOK == back \in [Transfers -> Seq(Answers)]
ClientOK ==
    /\ client \in [takes : Transfers \cup {Undecided}, there : BOOLEAN]
    /\ got \in Seq(Blocks)
CountsOK == trouble \in [Transfers -> Nat] /\ dups \in 0 .. MaxDups

Types == ServerOK /\ DownOK /\ BackOK /\ ClientOK /\ CountsOK

\* A transfer moves on.
LEMMA ServerMoves ==
    ASSUME ServerOK, NEW t \in Transfers, NEW v \in Transfer,
           v.at = "wait" => v.retries < MaxRetries, server' = [server EXCEPT ![t] = v]
    PROVE  ServerOK'
  BY DEF ServerOK

\* The outcomes of an attempt that got no acknowledgement: the block is sent
\* again, or that fails, or the transfer is given up after its last attempt.
LEMMA RetryFacts ==
    ASSUME ServerOK, NEW t \in Transfers, server[t].at = "wait", Retry(t)
    PROVE  /\ ServerOK'
           /\ \A u \in Transfers : u # t => server'[u] = server[u]
           /\ server'[t].pos = server[t].pos
           /\ server'[t].retries = server[t].retries + 1
           /\ \/ /\ server'[t].at = "wait"
                 /\ down' = [down EXCEPT ![t] = Append(@, server[t].pos)]
              \/ server'[t].at = "error" /\ down' = down
              \/ /\ server'[t].at = "given up" /\ down' = down
                 /\ server[t].retries + 1 >= MaxRetries
  <1>1. server[t] \in Transfer /\ server[t].retries < MaxRetries
    BY DEF ServerOK
  <1>2. MaxRetries \in Nat /\ server[t].retries \in Nat
    <2>1. server[t].retries \in 0 .. MaxRetries
      BY <1>1 DEF Transfer
    <2> QED BY <2>1, TftpAssumption
  <1>3. server[t].retries + 1 \in 0 .. MaxRetries
    BY <1>1, <1>2
  <1> DEFINE Next1(a) == [server[t] EXCEPT !.retries = server[t].retries + 1, !.at = a]
  <1>4. ASSUME NEW a \in {"wait", "error", "given up"}
        PROVE  /\ Next1(a) \in Transfer
               /\ Next1(a).pos = server[t].pos /\ Next1(a).at = a
               /\ Next1(a).retries = server[t].retries + 1
    BY <1>1, <1>3 DEF Transfer
  <1>5. CASE server[t].retries + 1 >= MaxRetries
    <2>1. server' = [server EXCEPT ![t] = Next1("given up")] /\ down' = down
      BY <1>5 DEF Retry, GiveUp
    <2> HIDE DEF Next1
    <2>2. ServerOK'
      BY <1>4, <2>1, ServerMoves
    <2>3. server'[t] = Next1("given up") /\ \A u \in Transfers : u # t => server'[u] = server[u]
      BY <2>1 DEF ServerOK
    <2> QED BY <1>4, <1>5, <2>1, <2>2, <2>3
  <1>6. CASE ~(server[t].retries + 1 >= MaxRetries)
    <2>1. SendAgain(t) /\ server[t].retries + 1 < MaxRetries
      BY <1>2, <1>6 DEF Retry
    <2>2. CASE /\ server' = [server EXCEPT ![t].retries = @ + 1]
               /\ down' = [down EXCEPT ![t] = Append(@, server[t].pos)]
      <3>1. server[t] = [server[t] EXCEPT !.at = "wait"]
        BY <1>1 DEF Transfer
      <3>2. server' = [server EXCEPT ![t] = Next1("wait")]
        BY <1>1, <2>2, <3>1 DEF Transfer
      <3> HIDE DEF Next1
      <3>3. ServerOK'
        BY <1>4, <2>1, <3>2, ServerMoves
      <3>4. server'[t] = Next1("wait") /\ \A u \in Transfers : u # t => server'[u] = server[u]
        BY <3>2 DEF ServerOK
      <3> QED BY <1>4, <2>2, <3>3, <3>4
    <2>3. CASE /\ server' = [server EXCEPT ![t].retries = @ + 1, ![t].at = "error"]
               /\ down' = down
      <3>1. server' = [server EXCEPT ![t] = Next1("error")]
        BY <2>3 DEF ServerOK
      <3> HIDE DEF Next1
      <3>2. ServerOK'
        BY <1>4, <3>1, ServerMoves
      <3>3. server'[t] = Next1("error") /\ \A u \in Transfers : u # t => server'[u] = server[u]
        BY <3>1 DEF ServerOK
      <3> QED BY <1>4, <2>3, <3>2, <3>3
    <2> QED BY <2>1, <2>2, <2>3 DEF SendAgain
  <1> QED BY <1>5, <1>6

\* An acknowledgement moves a transfer to its next block, or to its end.
LEMMA AdvancedFacts ==
    ASSUME NEW s \in Transfer
    PROVE  /\ Advanced(s) \in Transfer
           /\ \/ Advanced(s).at = "complete" /\ s.pos = FileBlocks /\ Advanced(s).pos = s.pos
              \/ Advanced(s).at = "read" /\ s.pos < FileBlocks /\ Advanced(s).pos = s.pos + 1
  <1>1. s.pos \in 1 .. FileBlocks /\ FileBlocks \in Nat
    BY TftpAssumption DEF Transfer
  <1>2. CASE s.pos = FileBlocks
    BY <1>2 DEF Advanced, Transfer
  <1>3. CASE s.pos # FileBlocks
    <2>1. s.pos < FileBlocks /\ s.pos + 1 \in 1 .. FileBlocks
      BY <1>1, <1>3
    <2>2. Advanced(s) = [s EXCEPT !.at = "read", !.pos = s.pos + 1]
      BY <1>3 DEF Advanced
    <2> QED BY <2>1, <2>2 DEF Transfer
  <1> QED BY <1>2, <1>3

-----------------------------------------------------------------------------
(***************************************************************************)
(* What a step is for one transfer, its packets and what went wrong in it. *)
(***************************************************************************)
Stays(t) ==
    /\ server'[t] = server[t] /\ down'[t] = down[t] /\ back'[t] = back[t]
    /\ trouble'[t] = trouble[t]

\* The request is accepted or refused, or the file cannot be read.
Changes(t) ==
    /\ server[t].at \in {"unused", "read"}
    /\ server'[t].at \in {"read", "error"}
    /\ server'[t].pos = server[t].pos
    /\ down'[t] = down[t] /\ back'[t] = back[t] /\ trouble'[t] = trouble[t]

Sends(t) ==
    /\ server[t].at = "read" /\ server'[t].at = "wait"
    /\ server'[t].pos = server[t].pos /\ server'[t].retries = 0
    /\ down'[t] = Append(down[t], server[t].pos)
    /\ back'[t] = back[t] /\ trouble'[t] = trouble[t]

Attempt(t) ==
    /\ server[t].at = "wait"
    /\ server'[t].pos = server[t].pos
    /\ server'[t].retries = server[t].retries + 1
    /\ \/ server'[t].at = "wait" /\ down'[t] = Append(down[t], server[t].pos)
       \/ server'[t].at = "error" /\ down'[t] = down[t]
       \/ /\ server'[t].at = "given up" /\ down'[t] = down[t]
          /\ server[t].retries + 1 >= MaxRetries

TimesOut(t) ==
    Attempt(t) /\ back'[t] = back[t] /\ trouble'[t] = trouble[t] + 1

Advances(t) ==
    /\ server[t].at = "wait" /\ server'[t] = Advanced(server[t])
    /\ \E k \in DOMAIN back[t] : /\ k <= Overtaking + 1
                                 /\ Acked(t, back[t][k])
                                 /\ back'[t] = RemoveAt(back[t], k)
    /\ down'[t] = down[t] /\ trouble'[t] = trouble[t]

Rejects(t) ==
    /\ Attempt(t)
    /\ \E k \in DOMAIN back[t] :
         /\ ~Acked(t, back[t][k])
         /\ back'[t] = RemoveAt(back[t], k)
         /\ trouble'[t] = IF back[t][k] = Error THEN trouble[t] + 1 ELSE trouble[t]

Answered(t) ==
    /\ server'[t] = server[t] /\ trouble'[t] = trouble[t]
    /\ \E k \in DOMAIN down[t] :
         /\ k <= Overtaking + 1
         /\ down'[t] = RemoveAt(down[t], k)
         /\ \/ ClientReceives(t, k) /\ back'[t] = Append(back[t], Number(down[t][k]))
            \/ back'[t] = Append(back[t], Error)

Loses(t) ==
    /\ server'[t] = server[t] /\ trouble'[t] = trouble[t]
    /\ \/ /\ \E k \in DOMAIN down[t] : down'[t] = RemoveAt(down[t], k)
          /\ back'[t] = back[t]
       \/ /\ \E k \in DOMAIN back[t] : back'[t] = RemoveAt(back[t], k)
          /\ down'[t] = down[t]

Doubles(t) ==
    /\ server'[t] = server[t] /\ trouble'[t] = trouble[t] + 1
    /\ \/ /\ \E k \in DOMAIN down[t] : down'[t] = InsertAt(down[t], k, down[t][k])
          /\ back'[t] = back[t]
       \/ /\ \E k \in DOMAIN back[t] : back'[t] = InsertAt(back[t], k, back[t][k])
          /\ down'[t] = down[t]

StepOf(t) ==
    \/ Stays(t) \/ Changes(t) \/ Sends(t) \/ TimesOut(t) \/ Advances(t) \/ Rejects(t)
    \/ Answered(t) \/ Loses(t) \/ Doubles(t)

\* The types after a step, and what it is for each transfer.
Good == Types' /\ \A u \in Transfers : StepOf(u)

\* A queue changes.
LEMMA DownMoves ==
    ASSUME DownOK, NEW t \in Transfers, NEW q \in Seq(Blocks), down' = [down EXCEPT ![t] = q]
    PROVE  DownOK' /\ down'[t] = q /\ \A u \in Transfers : u # t => down'[u] = down[u]
  BY DEF DownOK

\* The same for the other direction.
LEMMA BackMoves ==
    ASSUME BackOK, NEW t \in Transfers, NEW q \in Seq(Answers), back' = [back EXCEPT ![t] = q]
    PROVE  BackOK' /\ back'[t] = q /\ \A u \in Transfers : u # t => back'[u] = back[u]
  BY DEF BackOK

\* Something goes wrong, or nothing does.
LEMMA TroubleMoves ==
    ASSUME CountsOK, NEW t \in Transfers, NEW n \in Nat, dups' \in 0 .. MaxDups,
           trouble' = [trouble EXCEPT ![t] = n]
    PROVE  CountsOK' /\ trouble'[t] = n
             /\ \A u \in Transfers : u # t => trouble'[u] = trouble[u]
  BY DEF CountsOK

\* Variables that do not change keep their types.
LEMMA Kept ==
    /\ ServerOK /\ server' = server => ServerOK'
    /\ DownOK /\ down' = down => DownOK'
    /\ BackOK /\ back' = back => BackOK'
    /\ ClientOK /\ UNCHANGED <<client, got>> => ClientOK'
    /\ CountsOK /\ UNCHANGED <<trouble, dups>> => CountsOK'
  BY DEF ServerOK, DownOK, BackOK, ClientOK, CountsOK

\* Requests are taken or refused, and files fail to be read.
LEMMA ChangesGood ==
    ASSUME Types, NEW t \in Transfers, Request(t) \/ Refuse(t) \/ ReadFails(t)
    PROVE  Good
  <1>1. PICK a \in {"read", "error"} : server' = [server EXCEPT ![t].at = a]
    BY DEF Request, Refuse, ReadFails
  <1>2. /\ server[t].at \in {"unused", "read"}
        /\ UNCHANGED <<down, back, client, got, trouble, dups>>
    BY DEF Request, Refuse, ReadFails
  <1> DEFINE v == [server[t] EXCEPT !.at = a]
  <1>3. server[t] \in Transfer
    BY DEF Types, ServerOK
  <1>4. v \in Transfer /\ v.at = a /\ v.pos = server[t].pos
    BY <1>3 DEF Transfer
  <1>5. server' = [server EXCEPT ![t] = v]
    BY <1>1
  <1> HIDE DEF v
  <1>6. ServerOK'
    BY <1>4, <1>5, ServerMoves DEF Types
  <1>7. Types'
    BY <1>2, <1>6, Kept DEF Types
  <1>8. server'[t] = v /\ \A u \in Transfers : u # t => server'[u] = server[u]
    BY <1>5 DEF Types, ServerOK
  <1>9. Changes(t) /\ \A u \in Transfers : u # t => Stays(u)
    BY <1>2, <1>4, <1>8 DEF Changes, Stays
  <1> QED BY <1>7, <1>9 DEF Good, StepOf

\* A block is sent.
LEMMA SendBlockGood ==
    ASSUME Types, NEW t \in Transfers, SendBlock(t)
    PROVE  Good
  <1> DEFINE v == [server[t] EXCEPT !.at = "wait", !.retries = 0]
             q == Append(down[t], server[t].pos)
  <1>1. server[t] \in Transfer /\ down[t] \in Seq(Blocks)
    BY DEF Types, ServerOK, DownOK
  <1>2. /\ v \in Transfer /\ v.at = "wait" /\ v.pos = server[t].pos
        /\ v.retries = 0 /\ v.retries < MaxRetries
    <2>1. 0 \in 0 .. MaxRetries /\ 0 < MaxRetries
      BY TftpAssumption
    <2> QED BY <1>1, <2>1 DEF Transfer
  <1>3. q \in Seq(Blocks)
    <2>1. server[t].pos \in Blocks
      BY <1>1 DEF Transfer, Blocks
    <2> QED BY <1>1, <2>1, Appended
  <1>4. /\ server[t].at = "read" /\ UNCHANGED <<back, client, got, trouble, dups>>
        /\ server' = [server EXCEPT ![t] = v] /\ down' = [down EXCEPT ![t] = q]
    BY DEF SendBlock
  <1>5. ServerOK' /\ DownOK'
    <2> HIDE DEF v, q
    <2> QED BY <1>2, <1>3, <1>4, ServerMoves, DownMoves DEF Types
  <1>6. Types'
    BY <1>4, <1>5, Kept DEF Types
  <1>7. /\ server'[t] = v /\ \A u \in Transfers : u # t => server'[u] = server[u]
        /\ down'[t] = q /\ \A u \in Transfers : u # t => down'[u] = down[u]
    BY <1>4 DEF Types, ServerOK, DownOK
  <1>8. Sends(t) /\ \A u \in Transfers : u # t => Stays(u)
    BY <1>2, <1>4, <1>7 DEF Sends, Stays
  <1> QED BY <1>6, <1>8 DEF Good, StepOf

\* Sending a block again keeps the queue.
LEMMA AttemptDown ==
    ASSUME Types, NEW t \in Transfers, server[t].at = "wait", Retry(t)
    PROVE  /\ ServerOK' /\ DownOK' /\ Attempt(t)
           /\ \A u \in Transfers : u # t => server'[u] = server[u] /\ down'[u] = down[u]
  <1>1. /\ ServerOK'
        /\ \A u \in Transfers : u # t => server'[u] = server[u]
        /\ server'[t].pos = server[t].pos
        /\ server'[t].retries = server[t].retries + 1
        /\ \/ /\ server'[t].at = "wait"
              /\ down' = [down EXCEPT ![t] = Append(@, server[t].pos)]
           \/ server'[t].at = "error" /\ down' = down
           \/ /\ server'[t].at = "given up" /\ down' = down
              /\ server[t].retries + 1 >= MaxRetries
    BY RetryFacts DEF Types
  <1>2. CASE server'[t].at # "wait" /\ down' = down
    <2>1. DownOK'
      BY <1>2, Kept DEF Types
    <2> QED BY <1>1, <1>2, <2>1 DEF Attempt
  <1>3. CASE server'[t].at = "wait" /\ down' = [down EXCEPT ![t] = Append(@, server[t].pos)]
    <2> DEFINE q == Append(down[t], server[t].pos)
    <2>1. server[t].pos \in Blocks /\ down[t] \in Seq(Blocks)
      BY DEF Types, ServerOK, DownOK, Transfer, Blocks
    <2>2. q \in Seq(Blocks) /\ down' = [down EXCEPT ![t] = q]
      BY <1>3, <2>1, Appended
    <2>3. DownOK' /\ down'[t] = q /\ \A u \in Transfers : u # t => down'[u] = down[u]
      <3> HIDE DEF q
      <3> QED BY <2>2, DownMoves DEF Types
    <2> QED BY <1>1, <1>3, <2>3 DEF Attempt
  <1> QED BY <1>1, <1>2, <1>3

\* The wait for an acknowledgement ends.
LEMMA TimeoutGood ==
    ASSUME Types, NEW t \in Transfers, Timeout(t)
    PROVE  Good
  <1>1. /\ ServerOK' /\ DownOK' /\ Attempt(t)
        /\ \A u \in Transfers : u # t => server'[u] = server[u] /\ down'[u] = down[u]
    BY AttemptDown DEF Timeout
  <1>2. /\ UNCHANGED <<back, client, got, dups>>
        /\ trouble' = [trouble EXCEPT ![t] = trouble[t] + 1]
    BY DEF Timeout
  <1>3. CountsOK' /\ trouble'[t] = trouble[t] + 1
          /\ \A u \in Transfers : u # t => trouble'[u] = trouble[u]
    <2>1. trouble[t] + 1 \in Nat /\ dups' \in 0 .. MaxDups
      BY <1>2 DEF Types, CountsOK
    <2> QED BY <1>2, <2>1, TroubleMoves DEF Types
  <1>4. Types'
    BY <1>1, <1>2, <1>3, Kept DEF Types
  <1>5. TimesOut(t) /\ \A u \in Transfers : u # t => Stays(u)
    BY <1>1, <1>2, <1>3 DEF TimesOut, Stays
  <1> QED BY <1>4, <1>5 DEF Good, StepOf

\* A packet comes in.
LEMMA ServerReceivesGood ==
    ASSUME Types, NEW t \in Transfers, NEW k \in DOMAIN back[t], k <= Overtaking + 1,
           ServerReceives(t, k)
    PROVE  Good
  <1> DEFINE a == back[t][k]
             n == IF a = Error THEN trouble[t] + 1 ELSE trouble[t]
  <1>1. back[t] \in Seq(Answers) /\ trouble[t] \in Nat /\ server[t] \in Transfer
    BY DEF Types, BackOK, CountsOK, ServerOK
  <1>2. RemoveAt(back[t], k) \in Seq(Answers)
    BY <1>1, Removed
  <1>3. /\ server[t].at = "wait" /\ UNCHANGED <<client, got, dups>>
        /\ back' = [back EXCEPT ![t] = RemoveAt(back[t], k)]
        /\ trouble' = [trouble EXCEPT ![t] = n]
    BY DEF ServerReceives
  <1>4. /\ BackOK' /\ back'[t] = RemoveAt(back[t], k)
        /\ \A u \in Transfers : u # t => back'[u] = back[u]
    BY <1>2, <1>3, BackMoves DEF Types
  <1>5. CountsOK' /\ trouble'[t] = n /\ \A u \in Transfers : u # t => trouble'[u] = trouble[u]
    <2>1. n \in Nat /\ dups' \in 0 .. MaxDups
      BY <1>1, <1>3 DEF Types, CountsOK
    <2> HIDE DEF n
    <2> QED BY <1>3, <2>1, TroubleMoves DEF Types
  <1>6. ClientOK'
    BY <1>3, Kept DEF Types
  <1>7. CASE Acked(t, a)
    <2>1. server' = [server EXCEPT ![t] = Advanced(server[t])] /\ down' = down
      BY <1>7 DEF ServerReceives
    <2>2. Advanced(server[t]) \in Transfer /\ Advanced(server[t]).at # "wait"
      BY <1>1, AdvancedFacts
    <2>3. ServerOK' /\ DownOK'
      BY <2>1, <2>2, ServerMoves, Kept DEF Types
    <2>4. /\ server'[t] = Advanced(server[t])
          /\ \A u \in Transfers : u # t => server'[u] = server[u]
      BY <2>1 DEF Types, ServerOK
    <2>5. n = trouble[t]
      BY <1>7 DEF Acked
    <2>6. Advances(t) /\ \A u \in Transfers : u # t => Stays(u)
      <3> HIDE DEF n
      <3> QED BY <1>3, <1>4, <1>5, <1>7, <2>1, <2>4, <2>5 DEF Advances, Stays
    <2> QED BY <1>4, <1>5, <1>6, <2>3, <2>6 DEF Good, StepOf, Types
  <1>8. CASE ~Acked(t, a)
    <2>1. Retry(t)
      BY <1>8 DEF ServerReceives
    <2>2. /\ ServerOK' /\ DownOK' /\ Attempt(t)
          /\ \A u \in Transfers : u # t => server'[u] = server[u] /\ down'[u] = down[u]
      BY <1>3, <2>1, AttemptDown
    <2>3. Rejects(t) /\ \A u \in Transfers : u # t => Stays(u)
      BY <1>4, <1>5, <1>8, <2>2 DEF Rejects, Stays
    <2> QED BY <1>4, <1>5, <1>6, <2>2, <2>3 DEF Good, StepOf, Types
  <1> QED BY <1>7, <1>8

\* The client answers a block.
LEMMA ClientGood ==
    ASSUME Types, NEW t \in Transfers, NEW k \in DOMAIN down[t], k <= Overtaking + 1,
           ClientReceives(t, k) \/ ClientRejects(t, k)
    PROVE  Good
  <1>1. down[t] \in Seq(Blocks) /\ back[t] \in Seq(Answers) /\ down[t][k] \in Blocks
    <2>1. down[t] \in Seq(Blocks) /\ back[t] \in Seq(Answers)
      BY DEF Types, DownOK, BackOK
    <2> QED BY <2>1, ElementOfSeq
  <1>2. PICK e \in {Number(down[t][k]), Error} :
          /\ back' = [back EXCEPT ![t] = Append(back[t], e)]
          /\ e = Error \/ (e = Number(down[t][k]) /\ ClientReceives(t, k))
    BY DEF ClientReceives, ClientRejects
  <1>3. /\ down' = [down EXCEPT ![t] = RemoveAt(down[t], k)]
        /\ UNCHANGED <<server, trouble, dups>>
    BY DEF ClientReceives, ClientRejects
  <1>4. e \in Answers
    <2>1. down[t][k] \in Nat
      BY <1>1, TftpAssumption DEF Blocks
    <2> QED BY <1>2, <2>1, NumberType DEF Answers
  <1>5. /\ DownOK' /\ down'[t] = RemoveAt(down[t], k)
        /\ \A u \in Transfers : u # t => down'[u] = down[u]
    <2>1. RemoveAt(down[t], k) \in Seq(Blocks)
      BY <1>1, Removed
    <2> QED BY <1>3, <2>1, DownMoves DEF Types
  <1>6. /\ BackOK' /\ back'[t] = Append(back[t], e)
        /\ \A u \in Transfers : u # t => back'[u] = back[u]
    <2>1. Append(back[t], e) \in Seq(Answers)
      BY <1>1, <1>4, Appended
    <2> QED BY <1>2, <2>1, BackMoves DEF Types
  <1>7. ClientOK'
    <2>1. CASE ClientRejects(t, k)
      BY <2>1, Kept DEF ClientRejects, Types
    <2>2. CASE ClientReceives(t, k)
      <3>1. client' = [client EXCEPT !.takes = t]
        BY <2>2 DEF ClientReceives
      <3>2. got' = Append(got, down[t][k]) \/ got' = got
        BY <2>2 DEF ClientReceives
      <3>3. got' \in Seq(Blocks)
        BY <1>1, <3>2, Appended DEF Types, ClientOK
      <3> QED BY <3>1, <3>3 DEF Types, ClientOK
    <2> QED BY <2>1, <2>2
  <1>8. ServerOK' /\ CountsOK'
    BY <1>3, Kept DEF Types
  <1>9. Answered(t) /\ \A u \in Transfers : u # t => Stays(u)
    BY <1>2, <1>3, <1>5, <1>6 DEF Answered, Stays
  <1> QED BY <1>5, <1>6, <1>7, <1>8, <1>9 DEF Good, StepOf, Types

\* The network loses a packet.
LEMMA LoseGood ==
    ASSUME Types, NEW t \in Transfers, Lose(t)
    PROVE  Good
  <1>1. down[t] \in Seq(Blocks) /\ back[t] \in Seq(Answers)
    BY DEF Types, DownOK, BackOK
  <1>2. ServerOK' /\ ClientOK' /\ CountsOK' /\ UNCHANGED <<server, trouble>>
    BY Kept DEF Lose, Types
  <1>3. CASE \E k \in DOMAIN down[t] :
               down' = [down EXCEPT ![t] = RemoveAt(down[t], k)] /\ back' = back
    <2>1. PICK k \in DOMAIN down[t] :
            down' = [down EXCEPT ![t] = RemoveAt(down[t], k)] /\ back' = back
      BY <1>3
    <2>2. /\ DownOK' /\ down'[t] = RemoveAt(down[t], k)
          /\ \A u \in Transfers : u # t => down'[u] = down[u]
      <3>1. RemoveAt(down[t], k) \in Seq(Blocks)
        BY <1>1, Removed
      <3> QED BY <2>1, <3>1, DownMoves DEF Types
    <2>3. Loses(t) /\ \A u \in Transfers : u # t => Stays(u)
      BY <1>2, <2>1, <2>2 DEF Loses, Stays
    <2> QED BY <1>2, <2>1, <2>2, <2>3, Kept DEF Good, StepOf, Types
  <1>4. CASE \E k \in DOMAIN back[t] :
               back' = [back EXCEPT ![t] = RemoveAt(back[t], k)] /\ down' = down
    <2>1. PICK k \in DOMAIN back[t] :
            back' = [back EXCEPT ![t] = RemoveAt(back[t], k)] /\ down' = down
      BY <1>4
    <2>2. /\ BackOK' /\ back'[t] = RemoveAt(back[t], k)
          /\ \A u \in Transfers : u # t => back'[u] = back[u]
      <3>1. RemoveAt(back[t], k) \in Seq(Answers)
        BY <1>1, Removed
      <3> QED BY <2>1, <3>1, BackMoves DEF Types
    <2>3. Loses(t) /\ \A u \in Transfers : u # t => Stays(u)
      BY <1>2, <2>1, <2>2 DEF Loses, Stays
    <2> QED BY <1>2, <2>1, <2>2, <2>3, Kept DEF Good, StepOf, Types
  <1> QED BY <1>3, <1>4 DEF Lose, Arriving

\* The network duplicates a packet.
LEMMA DuplicateGood ==
    ASSUME Types, NEW t \in Transfers, Duplicate(t)
    PROVE  Good
  <1>1. down[t] \in Seq(Blocks) /\ back[t] \in Seq(Answers)
    BY DEF Types, DownOK, BackOK
  <1>2. /\ ServerOK' /\ ClientOK' /\ server' = server
        /\ trouble' = [trouble EXCEPT ![t] = trouble[t] + 1]
    BY Kept DEF Duplicate, Types
  <1>3. CountsOK' /\ trouble'[t] = trouble[t] + 1
          /\ \A u \in Transfers : u # t => trouble'[u] = trouble[u]
    <2>1. trouble[t] + 1 \in Nat /\ dups' \in 0 .. MaxDups
      BY TftpAssumption DEF Duplicate, Types, CountsOK
    <2> QED BY <1>2, <2>1, TroubleMoves DEF Types
  <1>4. CASE \E k \in DOMAIN down[t] :
               down' = [down EXCEPT ![t] = InsertAt(down[t], k, down[t][k])] /\ back' = back
    <2>1. PICK k \in DOMAIN down[t] :
            down' = [down EXCEPT ![t] = InsertAt(down[t], k, down[t][k])] /\ back' = back
      BY <1>4
    <2>2. /\ DownOK' /\ down'[t] = InsertAt(down[t], k, down[t][k])
          /\ \A u \in Transfers : u # t => down'[u] = down[u]
      <3>1. InsertAt(down[t], k, down[t][k]) \in Seq(Blocks)
        BY <1>1, Inserted, ElementOfSeq
      <3> QED BY <2>1, <3>1, DownMoves DEF Types
    <2>3. Doubles(t) /\ \A u \in Transfers : u # t => Stays(u)
      BY <1>2, <1>3, <2>1, <2>2 DEF Doubles, Stays
    <2> QED BY <1>2, <1>3, <2>1, <2>2, <2>3, Kept DEF Good, StepOf, Types
  <1>5. CASE \E k \in DOMAIN back[t] :
               back' = [back EXCEPT ![t] = InsertAt(back[t], k, back[t][k])] /\ down' = down
    <2>1. PICK k \in DOMAIN back[t] :
            back' = [back EXCEPT ![t] = InsertAt(back[t], k, back[t][k])] /\ down' = down
      BY <1>5
    <2>2. /\ BackOK' /\ back'[t] = InsertAt(back[t], k, back[t][k])
          /\ \A u \in Transfers : u # t => back'[u] = back[u]
      <3>1. InsertAt(back[t], k, back[t][k]) \in Seq(Answers)
        BY <1>1, Inserted, ElementOfSeq
      <3> QED BY <2>1, <3>1, BackMoves DEF Types
    <2>3. Doubles(t) /\ \A u \in Transfers : u # t => Stays(u)
      BY <1>2, <1>3, <2>1, <2>2 DEF Doubles, Stays
    <2> QED BY <1>2, <1>3, <2>1, <2>2, <2>3, Kept DEF Good, StepOf, Types
  <1> QED BY <1>4, <1>5 DEF Duplicate

\* Every step keeps the types and is one of these for each transfer.
LEMMA StepIsGood == Types /\ [Next]_vars => Good
  <1> SUFFICES ASSUME Types, [Next]_vars PROVE Good
    OBVIOUS
  <1>1. CASE \E t \in Transfers :
               \/ Request(t) \/ Refuse(t) \/ SendBlock(t) \/ ReadFails(t)
               \/ Timeout(t) \/ Lose(t) \/ Duplicate(t)
    BY <1>1, ChangesGood, SendBlockGood, TimeoutGood, LoseGood, DuplicateGood
  <1>2. CASE \E t \in Transfers :
               \/ \E k \in Arriving(back[t]) : ServerReceives(t, k)
               \/ \E k \in Arriving(down[t]) : ClientReceives(t, k) \/ ClientRejects(t, k)
    BY <1>2, ServerReceivesGood, ClientGood DEF Arriving
  <1>3. CASE ClientLeaves \/ UNCHANGED vars
    <2>1. UNCHANGED <<server, down, back, got, trouble, dups>>
      BY <1>3 DEF ClientLeaves, vars
    <2>2. ClientOK'
      BY <1>3 DEF ClientLeaves, vars, Types, ClientOK
    <2>3. \A u \in Transfers : Stays(u)
      BY <2>1 DEF Stays
    <2> QED BY <2>1, <2>2, <2>3, Kept DEF Good, StepOf, Types
  <1> QED BY <1>1, <1>2, <1>3 DEF Next

\* The types hold throughout.
LEMMA TypesHold == Spec => []Types
  <1>1. Init => Types
    <2> SUFFICES ASSUME Init PROVE Types
      OBVIOUS
    <2>1. ServerOK
      <3>1. NotStarted \in Transfer /\ NotStarted.at = "unused"
        BY TftpAssumption DEF NotStarted, Transfer
      <3> QED BY <3>1 DEF Init, ServerOK
    <2>2. DownOK /\ BackOK
      BY DEF Init, DownOK, BackOK
    <2>3. ClientOK /\ CountsOK
      BY TftpAssumption DEF Init, ClientOK, CountsOK
    <2> QED BY <2>1, <2>2, <2>3 DEF Types
  <1> QED BY <1>1, StepIsGood, PTL DEF Spec, Good

\* Transfers and packets are well-formed, and a transfer that waits has not
\* used up its attempts (main.rs:504-536), for any file and any network.
THEOREM TypeCorrect == Spec => []TypeOK
  <1>1. Types => TypeOK
    <2> SUFFICES ASSUME Types PROVE TypeOK
      OBVIOUS
    <2>1. ASSUME NEW t \in Transfers
          PROVE  /\ \A k \in DOMAIN down[t] : down[t][k] \in 1 .. FileBlocks
                 /\ \A k \in DOMAIN back[t] : back[t][k] \in {Error} \cup 0 .. BlockMod - 1
      <3>1. down[t] \in Seq(Blocks) /\ back[t] \in Seq(Answers)
        BY DEF Types, DownOK, BackOK
      <3> QED BY <3>1, ElementOfSeq, LenProperties DEF Blocks, Answers
    <2> QED BY <2>1 DEF Types, ServerOK, ClientOK, CountsOK, Transfer, TypeOK
  <1> QED BY <1>1, TypesHold, PTL

-----------------------------------------------------------------------------
(***************************************************************************)
(* Traffic: a transfer that is about to send a block owes a packet, and    *)
(* owed and travelling packets together are one, and one for each thing    *)
(* that went wrong.                                                        *)
(***************************************************************************)
Owed(t) == IF server[t].at \in {"unused", "read"} THEN 1 ELSE 0

Economical(t) == Len(down[t]) + Len(back[t]) + Owed(t) <= 1 + trouble[t]

\* What the types say of the numbers involved.
LEMMA Numbers ==
    ASSUME Types, NEW t \in Transfers
    PROVE  /\ Len(down[t]) \in Nat /\ Len(back[t]) \in Nat /\ trouble[t] \in Nat
           /\ down[t] \in Seq(Blocks) /\ back[t] \in Seq(Answers)
           /\ server[t] \in Transfer /\ server[t].pos \in Blocks
           /\ server[t].retries \in Nat /\ MaxRetries \in Nat
  <1>1. down[t] \in Seq(Blocks) /\ back[t] \in Seq(Answers)
    BY DEF Types, DownOK, BackOK
  <1>2. server[t] \in Transfer /\ server[t].pos \in Blocks
          /\ server[t].retries \in 0 .. MaxRetries
    BY DEF Types, ServerOK, Transfer, Blocks
  <1> QED BY <1>1, <1>2, LenProperties, TftpAssumption DEF Types, CountsOK

\* How an attempt changes the traffic.
LEMMA AttemptLen ==
    ASSUME Types, NEW t \in Transfers, Attempt(t)
    PROVE  /\ Len(down'[t]) = Len(down[t]) \/ Len(down'[t]) = Len(down[t]) + 1
           /\ Owed(t)' = 0 /\ Owed(t) = 0
  <1>1. Owed(t)' = 0 /\ Owed(t) = 0
    BY DEF Attempt, Owed
  <1>2. down'[t] = down[t] \/ down'[t] = Append(down[t], server[t].pos)
    BY DEF Attempt
  <1>3. down[t] \in Seq(Blocks) /\ server[t].pos \in Blocks
    BY Numbers
  <1>4. Len(Append(down[t], server[t].pos)) = Len(down[t]) + 1
    BY <1>3, Appended
  <1> QED BY <1>1, <1>2, <1>4

\* Every step keeps the traffic of a transfer bounded.
LEMMA EconomicalStep ==
    ASSUME Types, NEW t \in Transfers, Economical(t), StepOf(t)
    PROVE  Economical(t)'
  <1> DEFINE d == Len(down[t])
             b == Len(back[t])
             o == Owed(t)
             n == trouble[t]
  <1>0. /\ d \in Nat /\ b \in Nat /\ n \in Nat
        /\ down[t] \in Seq(Blocks) /\ back[t] \in Seq(Answers)
        /\ server[t].pos \in Blocks
    BY Numbers
  <1>a. (o = 0 \/ o = 1) /\ (o' = 0 \/ o' = 1)
    BY DEF Owed
  <1>b. d + b + o <= 1 + n
    BY DEF Economical
  <1> SUFFICES d' + b' + o' <= 1 + n'
    BY DEF Economical
  <1>1. CASE Stays(t)
    <2>1. d' = d /\ b' = b /\ o' = o /\ n' = n
      BY <1>1 DEF Stays, Owed
    <2> QED BY <1>b, <2>1
  <1>2. CASE Changes(t)
    <2>1. d' = d /\ b' = b /\ o = 1 /\ n' = n
      BY <1>2 DEF Changes, Owed
    <2> HIDE DEF d, b, o, n
    <2> QED BY <1>0, <1>a, <1>b, <2>1
  <1>3. CASE Sends(t)
    <2>1. d' = d + 1 /\ b' = b /\ o = 1 /\ o' = 0 /\ n' = n
      BY <1>0, <1>3, Appended DEF Sends, Owed
    <2> HIDE DEF d, b, o, n
    <2> QED BY <1>0, <1>b, <2>1
  <1>4. CASE TimesOut(t)
    <2>1. (d' = d \/ d' = d + 1) /\ b' = b /\ o = 0 /\ o' = 0 /\ n' = n + 1
      BY <1>4, AttemptLen DEF TimesOut
    <2> HIDE DEF d, b, o, n
    <2> QED BY <1>0, <1>b, <2>1
  <1>5. CASE Advances(t)
    <2>1. b' = b - 1
      BY <1>0, <1>5, Removed DEF Advances
    <2>2. d' = d /\ o = 0 /\ n' = n
      BY <1>5 DEF Advances, Owed
    <2> HIDE DEF d, b, o, n
    <2> QED BY <1>0, <1>a, <1>b, <2>1, <2>2
  <1>6. CASE Rejects(t)
    <2>1. b' = b - 1
      BY <1>0, <1>6, Removed DEF Rejects
    <2>2. (d' = d \/ d' = d + 1) /\ o = 0 /\ o' = 0
      BY <1>6, AttemptLen DEF Rejects
    <2>3. n' = n \/ n' = n + 1
      BY <1>6 DEF Rejects
    <2> HIDE DEF d, b, o, n
    <2> QED BY <1>0, <1>b, <2>1, <2>2, <2>3
  <1>7. CASE Answered(t)
    <2>1. PICK k \in DOMAIN down[t] :
            /\ down'[t] = RemoveAt(down[t], k)
            /\ \/ back'[t] = Append(back[t], Number(down[t][k]))
               \/ back'[t] = Append(back[t], Error)
      BY <1>7 DEF Answered
    <2>2. d' = d - 1
      BY <1>0, <2>1, Removed
    <2>3. Number(down[t][k]) \in Answers /\ Error \in Answers
      <3>1. down[t][k] \in Nat
        BY <1>0, ElementOfSeq, TftpAssumption DEF Blocks
      <3> QED BY <3>1, NumberType DEF Answers
    <2>4. b' = b + 1
      BY <1>0, <2>1, <2>3, Appended
    <2>5. o' = o /\ n' = n
      BY <1>7 DEF Answered, Owed
    <2> HIDE DEF d, b, o, n
    <2> QED BY <1>0, <1>a, <1>b, <2>2, <2>4, <2>5
  <1>8. CASE Loses(t)
    <2>1. (d' = d - 1 /\ b' = b) \/ (b' = b - 1 /\ d' = d)
      BY <1>0, <1>8, Removed DEF Loses
    <2>2. o' = o /\ n' = n
      BY <1>8 DEF Loses, Owed
    <2> HIDE DEF d, b, o, n
    <2> QED BY <1>0, <1>a, <1>b, <2>1, <2>2
  <1>9. CASE Doubles(t)
    <2>1. (d' = d + 1 /\ b' = b) \/ (b' = b + 1 /\ d' = d)
      <3>1. ASSUME NEW S, NEW q \in Seq(S), NEW k \in DOMAIN q
            PROVE  Len(InsertAt(q, k, q[k])) = Len(q) + 1
        <4>1. q[k] \in S
          BY <3>1, ElementOfSeq
        <4> QED BY <3>1, <4>1, Inserted
      <3> QED BY <1>0, <1>9, <3>1 DEF Doubles
    <2>2. o' = o /\ n' = n + 1
      BY <1>9 DEF Doubles, Owed
    <2> HIDE DEF d, b, o, n
    <2> QED BY <1>0, <1>a, <1>b, <2>1, <2>2
  <1> QED BY <1>1, <1>2, <1>3, <1>4, <1>5, <1>6, <1>7, <1>8, <1>9 DEF StepOf

\* The traffic of every transfer is bounded throughout.
LEMMA EconomicalHolds == Spec => []\A t \in Transfers : Economical(t)
  <1>1. Init => \A t \in Transfers : Economical(t)
    BY DEF Init, Economical, Owed, NotStarted
  <1>2. Types /\ (\A t \in Transfers : Economical(t)) /\ [Next]_vars
          => (\A t \in Transfers : Economical(t))'
    BY StepIsGood, EconomicalStep DEF Good
  <1> QED BY <1>1, <1>2, TypesHold, PTL DEF Spec

\* However a repeated block and its acknowledgement make each other repeat
\* (main.rs:510-536), a transfer has at most one packet on the way, and one
\* more for each timeout, duplicate and error it met.
THEOREM TrafficIsBounded == Spec => []TrafficBounded
  <1>1. Types /\ (\A t \in Transfers : Economical(t)) => TrafficBounded
    <2> SUFFICES ASSUME Types, NEW t \in Transfers, Economical(t)
                 PROVE  Len(down[t]) + Len(back[t]) <= 1 + trouble[t]
      BY DEF TrafficBounded
    <2>1. Owed(t) = 0 \/ Owed(t) = 1
      BY DEF Owed
    <2>2. Len(down[t]) \in Nat /\ Len(back[t]) \in Nat /\ trouble[t] \in Nat
      BY Numbers
    <2>3. Len(down[t]) + Len(back[t]) + Owed(t) <= 1 + trouble[t]
      BY DEF Economical
    <2>4. \A x, y, n \in Nat : \A o \in Nat : x + y + o <= 1 + n => x + y <= 1 + n
      OBVIOUS
    <2> QED BY <2>1, <2>2, <2>3, <2>4
  <1> QED BY <1>1, TypesHold, EconomicalHolds, PTL

-----------------------------------------------------------------------------
(***************************************************************************)
(* Delivery.  As long as the numbers of a file's blocks differ, a transfer *)
(* sends no block beyond the next one for the client, and what is          *)
(* acknowledged to it is a block that the client has stored, from it.      *)
(***************************************************************************)
Unambiguous == FileBlocks <= BlockMod

\* An acknowledgement that is on the way to a transfer is of a stored block.
Genuine(t, packet) ==
    packet # Error => client.takes = t /\ \E p \in 1 .. Len(got) : packet = Number(p)

Delivers(t) ==
    /\ \A k \in DOMAIN down[t] : down[t][k] <= server[t].pos
    /\ server[t].pos <= Len(got) + 1
    /\ \A k \in DOMAIN back[t] : Genuine(t, back[t][k])
    /\ server[t].at = "complete" => client.takes = t /\ Len(got) = FileBlocks

Delivery == Unambiguous => StoredIsPrefix /\ \A t \in Transfers : Delivers(t)

\* The packets in a queue that lost one, got one more or got a copy of one.
LEMMA PacketsOf ==
    ASSUME NEW S, NEW q \in Seq(S)
    PROVE  /\ \A k \in DOMAIN q : \A j \in DOMAIN RemoveAt(q, k) :
                \E i \in DOMAIN q : RemoveAt(q, k)[j] = q[i]
           /\ \A k \in DOMAIN q : \A j \in DOMAIN InsertAt(q, k, q[k]) :
                \E i \in DOMAIN q : InsertAt(q, k, q[k])[j] = q[i]
           /\ \A e \in S : \A j \in DOMAIN Append(q, e) :
                Append(q, e)[j] = e \/ \E i \in DOMAIN q : Append(q, e)[j] = q[i]
  <1>1. Len(q) \in Nat /\ DOMAIN q = 1 .. Len(q)
    BY LenProperties
  <1>2. ASSUME NEW k \in DOMAIN q, NEW j \in DOMAIN RemoveAt(q, k)
        PROVE  \E i \in DOMAIN q : RemoveAt(q, k)[j] = q[i]
    <2>1. /\ RemoveAt(q, k) \in Seq(S)
          /\ Len(RemoveAt(q, k)) = Len(q) - 1
          /\ \A x \in 1 .. Len(q) - 1 :
               RemoveAt(q, k)[x] = IF x < k THEN q[x] ELSE q[x + 1]
      BY Removed
    <2>2. j \in 1 .. Len(q) - 1
      BY <2>1, LenProperties
    <2>3. j \in DOMAIN q /\ j + 1 \in DOMAIN q
      BY <1>1, <2>2
    <2> QED BY <2>1, <2>2, <2>3
  <1>3. ASSUME NEW k \in DOMAIN q, NEW j \in DOMAIN InsertAt(q, k, q[k])
        PROVE  \E i \in DOMAIN q : InsertAt(q, k, q[k])[j] = q[i]
    <2>1. q[k] \in S
      BY ElementOfSeq, <1>1
    <2>2. /\ InsertAt(q, k, q[k]) \in Seq(S)
          /\ Len(InsertAt(q, k, q[k])) = Len(q) + 1
          /\ \A x \in 1 .. Len(q) + 1 :
               InsertAt(q, k, q[k])[x] =
                 IF x < k THEN q[x] ELSE IF x = k THEN q[k] ELSE q[x - 1]
      BY <2>1, Inserted
    <2>3. j \in 1 .. Len(q) + 1
      BY <2>2, LenProperties
    <2>4. CASE j <= k
      <3>1. j \in DOMAIN q
        BY <1>1, <2>3, <2>4
      <3> QED BY <2>2, <2>3, <2>4, <3>1
    <2>5. CASE ~(j <= k)
      <3>1. j - 1 \in DOMAIN q /\ ~(j < k) /\ j # k
        BY <1>1, <2>3, <2>5
      <3> QED BY <2>2, <2>3, <3>1
    <2> QED BY <2>4, <2>5
  <1>4. ASSUME NEW e \in S, NEW j \in DOMAIN Append(q, e)
        PROVE  Append(q, e)[j] = e \/ \E i \in DOMAIN q : Append(q, e)[j] = q[i]
    <2>1. /\ Append(q, e) \in Seq(S) /\ Len(Append(q, e)) = Len(q) + 1
          /\ \A x \in 1 .. Len(q) : Append(q, e)[x] = q[x]
          /\ Append(q, e)[Len(q) + 1] = e
      BY Appended
    <2>2. j \in 1 .. Len(q) + 1
      BY <2>1, LenProperties
    <2>3. j = Len(q) + 1 \/ j \in 1 .. Len(q)
      BY <1>1, <2>2
    <2> QED BY <1>1, <2>1, <2>3
  <1> QED BY <1>2, <1>3, <1>4

\* What is stored is no more than the file.
LEMMA StoredLen ==
    ASSUME Types, StoredIsPrefix
    PROVE  /\ Len(got) \in Nat /\ Len(got) <= FileBlocks /\ FileBlocks \in Nat \ {0}
           /\ DOMAIN got = 1 .. Len(got)
           /\ ~Finished => Len(got) < FileBlocks
           /\ Finished => Len(got) = FileBlocks
  <1>1. got \in Seq(Blocks) /\ Len(got) \in Nat /\ DOMAIN got = 1 .. Len(got)
    BY LenProperties DEF Types, ClientOK
  <1>2. FileBlocks \in Nat \ {0}
    BY TftpAssumption
  <1>3. Len(got) > 0 => Len(got) \in DOMAIN got
    BY <1>1
  <1>4. Len(got) > 0 => got[Len(got)] = Len(got) /\ got[Len(got)] \in Blocks
    BY <1>1, <1>3, ElementOfSeq DEF StoredIsPrefix
  <1>5. Len(got) <= FileBlocks
    BY <1>1, <1>2, <1>4 DEF Blocks
  <1>6. ASSUME ~Finished PROVE Len(got) < FileBlocks
    <2>1. Len(got) = 0 \/ Len(got) # FileBlocks
      BY <1>1, <1>4, <1>6 DEF Finished
    <2>2. \A x \in Nat, y \in Nat \ {0} : x <= y /\ (x = 0 \/ x # y) => x < y
      OBVIOUS
    <2> QED BY <1>1, <1>2, <1>5, <2>1, <2>2
  <1>7. ASSUME Finished PROVE Len(got) = FileBlocks
    BY <1>4, <1>7 DEF Finished
  <1> QED BY <1>1, <1>2, <1>5, <1>6, <1>7

Fits == Len(got) <= FileBlocks

\* The same, in a form that can be used of the next state.
LEMMA NoMoreThanFile == Types /\ StoredIsPrefix => Fits
  BY StoredLen DEF Fits

\* The client stores the next block, or has the block already.
LEMMA ClientStores ==
    ASSUME Types, Unambiguous, StoredIsPrefix, NEW t \in Transfers, Delivers(t),
           NEW k \in DOMAIN down[t], ClientReceives(t, k)
    PROVE  /\ StoredIsPrefix'
           /\ Len(got') \in Nat /\ Len(got') >= Len(got)
           /\ down[t][k] \in 1 .. Len(got')
           /\ client'.takes = t
  <1> DEFINE pos == down[t][k]
             len == Len(got)
             next == ~Finished /\ Number(pos) = Awaited
  <1>1. /\ len \in Nat /\ len <= FileBlocks /\ FileBlocks \in Nat \ {0} /\ DOMAIN got = 1 .. len
        /\ (~Finished => len < FileBlocks) /\ (Finished => len = FileBlocks)
    BY StoredLen
  <1>2. pos \in 1 .. FileBlocks
    <2>1. down[t] \in Seq(Blocks) /\ k \in 1 .. Len(down[t])
      BY Numbers, LenProperties
    <2>2. down[t][k] \in Blocks
      BY <2>1, ElementOfSeq
    <2> QED BY <2>2 DEF Blocks
  <1>3. pos <= len + 1
    <2>1. pos <= server[t].pos /\ server[t].pos <= len + 1
      BY DEF Delivers
    <2>2. server[t].pos \in 1 .. FileBlocks
      BY Numbers DEF Blocks
    <2> HIDE DEF pos, len
    <2> QED BY <1>1, <1>2, <2>1, <2>2
  <1>4. client'.takes = t
    BY DEF ClientReceives, Types, ClientOK
  <1>5. got' = IF next THEN Append(got, pos) ELSE got
    BY DEF ClientReceives
  <1>6. CASE next
    <2>1. Number(pos) = Number(len + 1) /\ len < FileBlocks
      BY <1>1, <1>6 DEF Awaited
    <2>2. len + 1 \in 1 .. FileBlocks
      <3> HIDE DEF len
      <3> QED BY <1>1, <2>1
    <2>3. pos = len + 1
      BY <1>2, <2>1, <2>2, NumbersDiffer DEF Unambiguous
    <2>4. got \in Seq(Blocks) /\ pos \in Blocks /\ got' = Append(got, pos)
      BY <1>2, <1>5, <1>6 DEF Types, ClientOK, Blocks
    <2> HIDE DEF pos
    <2>5. /\ Append(got, pos) \in Seq(Blocks) /\ Len(got') = len + 1
          /\ \A j \in 1 .. len : got'[j] = got[j]
          /\ got'[len + 1] = pos
      BY <2>4, Appended
    <2>6. DOMAIN got' = 1 .. len + 1
      BY <2>4, <2>5, LenProperties
    <2>7. StoredIsPrefix'
      <3> SUFFICES ASSUME NEW i \in 1 .. len + 1 PROVE got'[i] = i
        BY <2>6 DEF StoredIsPrefix
      <3>1. len \in Nat
        BY <1>1
      <3> HIDE DEF len
      <3>2. i \in 1 .. len \/ i = len + 1
        BY <3>1
      <3> QED BY <1>1, <2>3, <2>5, <3>2 DEF StoredIsPrefix
    <2> HIDE DEF len
    <2>8. Len(got') \in Nat /\ Len(got') >= len /\ pos \in 1 .. Len(got')
      BY <1>1, <2>3, <2>5
    <2> QED BY <1>4, <2>7, <2>8 DEF pos, len
  <1>7. CASE ~next
    <2>1. got' = got
      BY <1>5, <1>7
    <2>2. pos \in 1 .. len
      <3>1. CASE Finished
        <4> HIDE DEF pos, len
        <4> QED BY <1>1, <1>2, <3>1
      <3>2. CASE ~Finished
        <4>1. Number(pos) # Number(len + 1)
          BY <1>7, <3>2 DEF Awaited
        <4>2. pos # len + 1
          BY <4>1
        <4> HIDE DEF pos, len
        <4> QED BY <1>1, <1>2, <1>3, <4>2
      <3> QED BY <3>1, <3>2
    <2>3. len \in Nat
      BY <1>1
    <2>4. StoredIsPrefix'
      BY <2>1 DEF StoredIsPrefix
    <2> QED BY <1>4, <2>1, <2>2, <2>3, <2>4
  <1> QED BY <1>6, <1>7

\* Only a block that the client receives changes what it stored and from whom.
LEMMA OnlyReceivingStores ==
    ASSUME Types, [Next]_vars
    PROVE  \/ got' = got /\ client'.takes = client.takes
           \/ \E t \in Transfers : \E k \in DOMAIN down[t] :
                k <= Overtaking + 1 /\ ClientReceives(t, k)
  <1>1. CASE \E t \in Transfers :
               \/ Request(t) \/ Refuse(t) \/ SendBlock(t) \/ ReadFails(t)
               \/ Timeout(t) \/ Lose(t) \/ Duplicate(t)
    BY <1>1 DEF Request, Refuse, SendBlock, ReadFails, Timeout, Lose, Duplicate
  <1>2. CASE \E t \in Transfers :
               \/ \E k \in Arriving(back[t]) : ServerReceives(t, k)
               \/ \E k \in Arriving(down[t]) : ClientRejects(t, k)
    BY <1>2 DEF ServerReceives, ClientRejects
  <1>3. CASE \E t \in Transfers : \E k \in Arriving(down[t]) : ClientReceives(t, k)
    BY <1>3 DEF Arriving
  <1>4. CASE ClientLeaves
    BY <1>4 DEF ClientLeaves, Types, ClientOK
  <1>5. CASE UNCHANGED vars
    BY <1>5 DEF vars
  <1> QED BY <1>1, <1>2, <1>3, <1>4, <1>5 DEF Next

\* What the client stored stays stored, and it stays with its transfer.
LEMMA StoredStays ==
    ASSUME Types, [Next]_vars, Unambiguous, StoredIsPrefix,
           \A t \in Transfers : Delivers(t)
    PROVE  /\ StoredIsPrefix'
           /\ Len(got') \in Nat /\ Len(got) \in Nat /\ Len(got') >= Len(got)
           /\ client.takes # Undecided => client'.takes = client.takes
  <1>1. Len(got) \in Nat
    BY StoredLen
  <1>2. CASE got' = got /\ client'.takes = client.takes
    BY <1>1, <1>2 DEF StoredIsPrefix
  <1>3. CASE \E t \in Transfers : \E k \in DOMAIN down[t] : ClientReceives(t, k)
    <2>0. PICK t \in Transfers : \E k \in DOMAIN down[t] : ClientReceives(t, k)
      BY <1>3
    <2>1. PICK k \in DOMAIN down[t] : ClientReceives(t, k)
      BY <2>0
    <2>2. /\ StoredIsPrefix' /\ Len(got') \in Nat /\ Len(got') >= Len(got)
          /\ client'.takes = t
      BY <2>1, ClientStores
    <2>3. client.takes = t \/ client.takes = Undecided
      BY <2>1 DEF ClientReceives
    <2> QED BY <1>1, <2>2, <2>3
  <1> QED BY <1>2, <1>3, OnlyReceivingStores

\* The acknowledgement that a transfer waits for says that its block is stored.
LEMMA AckedIsStored ==
    ASSUME Types, Unambiguous, StoredIsPrefix, NEW t \in Transfers,
           NEW packet, Genuine(t, packet), Acked(t, packet)
    PROVE  client.takes = t /\ server[t].pos <= Len(got)
  <1>1. packet # Error /\ packet = Number(server[t].pos)
    BY DEF Acked
  <1>2. PICK p \in 1 .. Len(got) : packet = Number(p)
    BY <1>1 DEF Genuine
  <1>3. Len(got) \in Nat /\ Len(got) <= FileBlocks /\ FileBlocks \in Nat
    BY StoredLen
  <1>4. p \in 1 .. FileBlocks
    BY <1>3
  <1>5. server[t].pos \in 1 .. FileBlocks
    BY Numbers DEF Blocks
  <1>6. p = server[t].pos
    BY <1>1, <1>2, <1>4, <1>5, NumbersDiffer DEF Unambiguous
  <1> QED BY <1>1, <1>3, <1>6 DEF Genuine

\* A packet stays genuine.
LEMMA GenuineStays ==
    ASSUME Types, [Next]_vars, Unambiguous, StoredIsPrefix,
           \A t \in Transfers : Delivers(t),
           NEW t \in Transfers, NEW packet, Genuine(t, packet)
    PROVE  packet # Error =>
             client'.takes = t /\ \E p \in 1 .. Len(got') : packet = Number(p)
  <1> SUFFICES ASSUME packet # Error
               PROVE  client'.takes = t /\ \E p \in 1 .. Len(got') : packet = Number(p)
    OBVIOUS
  <1>1. client.takes = t
    BY DEF Genuine
  <1>2. PICK p \in 1 .. Len(got) : packet = Number(p)
    BY DEF Genuine
  <1>3. client'.takes = t
    BY <1>1, StoredStays, UndecidedAssumption
  <1>4. p \in 1 .. Len(got')
    BY StoredStays
  <1> QED BY <1>2, <1>3, <1>4

\* Where a transfer is after a step, and which packets it has then.
LEMMA DeliversStep ==
    ASSUME Types, Types', [Next]_vars, Unambiguous, StoredIsPrefix,
           \A t \in Transfers : Delivers(t),
           NEW t \in Transfers, StepOf(t)
    PROVE  Delivers(t)'
  <1>0. /\ Delivers(t)
        /\ down[t] \in Seq(Blocks) /\ back[t] \in Seq(Answers)
        /\ server[t] \in Transfer /\ server[t].pos \in Blocks
        /\ Len(got) \in Nat /\ Len(got') \in Nat /\ Len(got') >= Len(got)
        /\ FileBlocks \in Nat /\ Len(got) <= FileBlocks
    BY Numbers, StoredStays, StoredLen
  <1>a. Len(got') <= FileBlocks
    <2>1. StoredIsPrefix'
      BY StoredStays
    <2>2. Fits'
      BY <2>1, NoMoreThanFile, PTL
    <2> QED BY <2>2 DEF Fits
  <1>b. server[t].pos \in 1 .. FileBlocks /\ server'[t].pos \in 1 .. FileBlocks
    BY DEF Types, ServerOK, Transfer
  <1>1. server[t].at = "complete" => client'.takes = t /\ Len(got') = FileBlocks
    <2> SUFFICES ASSUME server[t].at = "complete"
                 PROVE  client'.takes = t /\ Len(got') = FileBlocks
      OBVIOUS
    <2>1. client.takes = t /\ Len(got) = FileBlocks
      BY <1>0 DEF Delivers
    <2>2. client'.takes = t
      BY <2>1, StoredStays, UndecidedAssumption
    <2>3. \A x, y, z \in Nat : x = z /\ y >= x /\ y <= z => y = z
      OBVIOUS
    <2> QED BY <1>0, <1>a, <2>1, <2>2, <2>3
  \* Where the transfer is.
  <1>2. /\ server'[t].pos >= server[t].pos
        /\ server'[t].pos <= Len(got') + 1
        /\ server'[t].at = "complete" => client'.takes = t /\ Len(got') = FileBlocks
    <2>1. CASE /\ server'[t].pos = server[t].pos
               /\ server'[t].at = "complete" => server[t].at = "complete"
      <3>1. server[t].pos <= Len(got) + 1
        BY <1>0 DEF Delivers
      <3>2. \A p, x, y \in Nat : p <= x + 1 /\ y >= x => p >= p /\ p <= y + 1
        OBVIOUS
      <3>3. server[t].pos \in Nat
        BY <1>b
      <3>4. server[t].pos >= server[t].pos /\ server[t].pos <= Len(got') + 1
        BY <1>0, <3>1, <3>2, <3>3
      <3> QED BY <1>1, <2>1, <3>4
    <2>2. CASE Advances(t)
      <3>1. PICK k \in DOMAIN back[t] : Acked(t, back[t][k])
        BY <2>2 DEF Advances
      <3>2. client.takes = t /\ server[t].pos <= Len(got)
        BY <1>0, <3>1, AckedIsStored DEF Delivers
      <3>3. client'.takes = t
        BY <3>2, StoredStays, UndecidedAssumption
      <3>4. server'[t] = Advanced(server[t])
        BY <2>2 DEF Advances
      <3>5. \/ server'[t].at = "complete" /\ server[t].pos = FileBlocks
               /\ server'[t].pos = server[t].pos
            \/ server'[t].at = "read" /\ server'[t].pos = server[t].pos + 1
        BY <1>0, <3>4, AdvancedFacts
      <3>6. \A p, x, y, f \in Nat :
              p <= x /\ y >= x /\ y <= f
                => /\ p >= p /\ p + 1 >= p /\ p <= y + 1 /\ p + 1 <= y + 1
                   /\ p = f => y = f
        OBVIOUS
      <3>7. server[t].pos \in Nat
        BY <1>b
      <3>8. /\ server[t].pos >= server[t].pos /\ server[t].pos + 1 >= server[t].pos
            /\ server[t].pos <= Len(got') + 1 /\ server[t].pos + 1 <= Len(got') + 1
            /\ server[t].pos = FileBlocks => Len(got') = FileBlocks
        BY <1>0, <1>a, <3>2, <3>6, <3>7
      <3>9. "read" # "complete"
        OBVIOUS
      <3> QED BY <3>3, <3>5, <3>8, <3>9
    <2>3. CASE ~Advances(t)
      <3>1. /\ server'[t].pos = server[t].pos
            /\ server'[t].at = "complete" => server[t].at = "complete"
        BY <2>3 DEF StepOf, Stays, Changes, Sends, TimesOut, Rejects, Attempt, Answered,
                    Loses, Doubles
      <3> QED BY <2>1, <3>1
    <2> QED BY <2>2, <2>3
  \* The blocks on the way to the client.
  <1>3. ASSUME NEW j \in DOMAIN down'[t] PROVE down'[t][j] <= server'[t].pos
    <2>1. down'[t][j] = server[t].pos \/ \E i \in DOMAIN down[t] : down'[t][j] = down[t][i]
      <3>1. CASE down'[t] = down[t]
        BY <1>3, <3>1
      <3>2. CASE down'[t] = Append(down[t], server[t].pos)
        BY <1>0, <1>3, <3>2, PacketsOf
      <3>3. CASE \E k \in DOMAIN down[t] : down'[t] = RemoveAt(down[t], k)
        BY <1>0, <1>3, <3>3, PacketsOf
      <3>4. CASE \E k \in DOMAIN down[t] : down'[t] = InsertAt(down[t], k, down[t][k])
        BY <1>0, <1>3, <3>4, PacketsOf
      <3> QED BY <3>1, <3>2, <3>3, <3>4
            DEF StepOf, Stays, Changes, Sends, TimesOut, Rejects, Attempt, Answered,
                Loses, Doubles, Advances
    <2>2. down'[t][j] \in Nat /\ down'[t][j] <= server[t].pos
      <3>1. ASSUME NEW i \in DOMAIN down[t]
            PROVE  down[t][i] \in Nat /\ down[t][i] <= server[t].pos
        <4>1. down[t][i] \in Blocks
          BY <1>0, ElementOfSeq, LenProperties
        <4> QED BY <1>0, <4>1 DEF Blocks, Delivers
      <3> QED BY <1>b, <2>1, <3>1
    <2>3. \A x, y, z \in Nat : x <= y /\ z >= y => x <= z
      OBVIOUS
    <2>4. server[t].pos \in Nat /\ server'[t].pos \in Nat
      BY <1>b
    <2> QED BY <1>2, <2>2, <2>3, <2>4
  \* The answers on the way to the transfer.
  <1>4. ASSUME NEW j \in DOMAIN back'[t]
        PROVE  back'[t][j] # Error =>
                 client'.takes = t /\ \E p \in 1 .. Len(got') : back'[t][j] = Number(p)
    <2>1. CASE \E i \in DOMAIN back[t] : back'[t][j] = back[t][i]
      <3>1. PICK i \in DOMAIN back[t] : back'[t][j] = back[t][i]
        BY <2>1
      <3>2. Genuine(t, back[t][i])
        BY <1>0 DEF Delivers
      <3> QED BY <3>1, <3>2, GenuineStays
    <2>2. CASE Answered(t)
      <3>1. PICK k \in DOMAIN down[t] :
              \/ ClientReceives(t, k) /\ back'[t] = Append(back[t], Number(down[t][k]))
              \/ back'[t] = Append(back[t], Error)
        BY <2>2 DEF Answered
      <3>2. down[t][k] \in Nat
        <4>1. down[t][k] \in Blocks
          BY <1>0, ElementOfSeq, LenProperties
        <4> QED BY <1>0, <4>1 DEF Blocks
      <3>3. Number(down[t][k]) \in Answers /\ Error \in Answers
        BY <3>2, NumberType DEF Answers
      <3>4. CASE ClientReceives(t, k) /\ back'[t] = Append(back[t], Number(down[t][k]))
        <4>1. \/ back'[t][j] = Number(down[t][k])
              \/ \E i \in DOMAIN back[t] : back'[t][j] = back[t][i]
          BY <1>0, <1>4, <3>3, <3>4, PacketsOf
        <4>2. down[t][k] \in 1 .. Len(got') /\ client'.takes = t
          BY <1>0, <3>4, ClientStores
        <4> QED BY <2>1, <4>1, <4>2
      <3>5. CASE back'[t] = Append(back[t], Error)
        <4>1. \/ back'[t][j] = Error
              \/ \E i \in DOMAIN back[t] : back'[t][j] = back[t][i]
          BY <1>0, <1>4, <3>3, <3>5, PacketsOf
        <4> QED BY <2>1, <4>1
      <3> QED BY <3>1, <3>4, <3>5
    <2>3. CASE ~Answered(t)
      <3>1. CASE back'[t] = back[t]
        BY <1>4, <2>1, <3>1
      <3>2. CASE \E k \in DOMAIN back[t] : back'[t] = RemoveAt(back[t], k)
        BY <1>0, <1>4, <2>1, <3>2, PacketsOf
      <3>3. CASE \E k \in DOMAIN back[t] : back'[t] = InsertAt(back[t], k, back[t][k])
        BY <1>0, <1>4, <2>1, <3>3, PacketsOf
      <3> QED BY <2>3, <3>1, <3>2, <3>3
            DEF StepOf, Stays, Changes, Sends, TimesOut, Rejects,
                Loses, Doubles, Advances
    <2> QED BY <2>2, <2>3
  <1> QED BY <1>2, <1>3, <1>4 DEF Delivers, Genuine

\* Blocks are delivered in order, throughout.
LEMMA DeliveryHolds == Spec => []Delivery
  <1>1. Init => Delivery
    <2> SUFFICES ASSUME Init PROVE StoredIsPrefix /\ \A t \in Transfers : Delivers(t)
      BY DEF Delivery
    <2>1. got = <<>> /\ \A t \in Transfers : /\ down[t] = <<>> /\ back[t] = <<>>
                                             /\ server[t].pos = 1 /\ server[t].at = "unused"
      BY DEF Init, NotStarted
    <2>2. \A q : q = <<>> => Len(q) = 0 /\ DOMAIN q = {}
      OBVIOUS
    <2> QED BY <2>1, <2>2 DEF StoredIsPrefix, Delivers
  <1>2. Types /\ Delivery /\ [Next]_vars => Delivery'
    <2> SUFFICES ASSUME Types, Delivery, [Next]_vars, Unambiguous
                 PROVE  StoredIsPrefix' /\ \A t \in Transfers : Delivers(t)'
      BY DEF Delivery, Unambiguous
    <2>1. StoredIsPrefix /\ \A t \in Transfers : Delivers(t)
      BY DEF Delivery
    <2>2. Types' /\ \A t \in Transfers : StepOf(t)
      BY StepIsGood DEF Good
    <2>3. StoredIsPrefix'
      BY <2>1, StoredStays
    <2> QED BY <2>1, <2>2, <2>3, DeliversStep
  <1> QED BY <1>1, <1>2, TypesHold, PTL DEF Spec

\* A client that gets a file of at most 2^16 blocks stores its blocks once
\* each and in order (main.rs:510-521, 535), whatever the network does.
THEOREM StoredInOrder == Unambiguous /\ Spec => []StoredIsPrefix
  <1>1. Unambiguous => (Delivery => StoredIsPrefix)
    BY DEF Delivery
  <1>2. CASE Unambiguous
    <2>1. Delivery => StoredIsPrefix
      BY <1>1, <1>2
    <2> QED BY <2>1, DeliveryHolds, PTL
  <1>3. CASE ~Unambiguous
    BY <1>3
  <1> QED BY <1>2, <1>3

\* A transfer of such a file that logs "TFTP transfer complete"
\* (main.rs:530-533) has delivered all of it, and to the client that took it.
THEOREM WholeFileDelivered == Unambiguous /\ Spec => []CompleteIsDelivered
  <1>1. CASE Unambiguous
    <2>1. Delivery => CompleteIsDelivered
      BY <1>1 DEF Delivery, Delivers, CompleteIsDelivered
    <2> QED BY <2>1, DeliveryHolds, PTL
  <1>2. CASE ~Unambiguous
    BY <1>2
  <1> QED BY <1>1, <1>2

-----------------------------------------------------------------------------
(***************************************************************************)
(* Causes.  A packet is stale when it is about another block than the one  *)
(* that the transfer waits for.  The attempts made and those that stale    *)
(* packets may still cost are paid by what went wrong.                     *)
(***************************************************************************)
At(q, S) == {i \in DOMAIN q : q[i] \in S}
Count(q, S) == Cardinality(At(q, S))

\* The number of such packets is a number, and one at most for each packet.
LEMMA CountType ==
    ASSUME NEW S, NEW q \in Seq(S), NEW B
    PROVE  /\ IsFiniteSet(At(q, B)) /\ Count(q, B) \in Nat
           /\ Count(q, B) <= Len(q)
  <1>1. Len(q) \in Nat /\ DOMAIN q = 1 .. Len(q)
    BY LenProperties
  <1>2. IsFiniteSet(1 .. Len(q)) /\ Cardinality(1 .. Len(q)) = Len(q)
    <2>1. 1 \in Int /\ Len(q) \in Int
      BY <1>1
    <2>2. /\ IsFiniteSet(1 .. Len(q))
          /\ Cardinality(1 .. Len(q)) = IF 1 > Len(q) THEN 0 ELSE Len(q) - 1 + 1
      BY <2>1, FS_Interval
    <2> QED BY <1>1, <2>2
  <1>3. At(q, B) \subseteq 1 .. Len(q)
    BY <1>1 DEF At
  <1> QED BY <1>2, <1>3, FS_Subset, FS_CardinalityType DEF Count

\* A packet that joins counts if it is one of them.
LEMMA CountAppended ==
    ASSUME NEW S, NEW q \in Seq(S), NEW e \in S, NEW B
    PROVE  Count(Append(q, e), B) <= IF e \in B THEN Count(q, B) + 1 ELSE Count(q, B)
  <1>1. Len(q) \in Nat /\ DOMAIN q = 1 .. Len(q)
    BY LenProperties
  <1>2. /\ Append(q, e) \in Seq(S) /\ Len(Append(q, e)) = Len(q) + 1
        /\ \A j \in 1 .. Len(q) : Append(q, e)[j] = q[j]
        /\ Append(q, e)[Len(q) + 1] = e
    BY Appended
  <1>3. DOMAIN Append(q, e) = 1 .. Len(q) + 1
    BY <1>2, LenProperties
  <1>4. IsFiniteSet(At(q, B)) /\ Count(q, B) \in Nat
    BY CountType
  <1>5. ASSUME NEW i \in At(Append(q, e), B)
        PROVE  i \in At(q, B) \/ (i = Len(q) + 1 /\ e \in B)
    <2>1. i \in 1 .. Len(q) + 1 /\ Append(q, e)[i] \in B
      BY <1>3, <1>5 DEF At
    <2>2. i \in 1 .. Len(q) \/ i = Len(q) + 1
      BY <1>1, <2>1
    <2> QED BY <1>1, <1>2, <2>1, <2>2 DEF At
  <1>6. CASE e \in B
    <2>1. At(Append(q, e), B) \subseteq At(q, B) \cup {Len(q) + 1}
      BY <1>5
    <2>2. /\ IsFiniteSet(At(q, B) \cup {Len(q) + 1})
          /\ \/ Cardinality(At(q, B) \cup {Len(q) + 1}) = Count(q, B)
             \/ Cardinality(At(q, B) \cup {Len(q) + 1}) = Count(q, B) + 1
      BY <1>4, FS_AddElement DEF Count
    <2>3. Cardinality(At(Append(q, e), B)) <= Cardinality(At(q, B) \cup {Len(q) + 1})
      BY <2>1, <2>2, FS_Subset
    <2>4. Count(Append(q, e), B) \in Nat
      BY <1>2, CountType
    <2> QED BY <1>4, <1>6, <2>2, <2>3, <2>4 DEF Count
  <1>7. CASE e \notin B
    <2>1. At(Append(q, e), B) \subseteq At(q, B)
      BY <1>5, <1>7
    <2> QED BY <1>4, <1>7, <2>1, FS_Subset DEF Count
  <1> QED BY <1>6, <1>7

\* A packet that leaves no longer counts.
LEMMA CountRemoved ==
    ASSUME NEW S, NEW q \in Seq(S), NEW k \in DOMAIN q, NEW B
    PROVE  Count(RemoveAt(q, k), B) <= IF q[k] \in B THEN Count(q, B) - 1 ELSE Count(q, B)
  <1> DEFINE r == RemoveAt(q, k)
             f == [j \in At(r, B) |-> IF j < k THEN j ELSE j + 1]
             T == At(q, B) \ {k}
  <1>1. Len(q) \in Nat /\ DOMAIN q = 1 .. Len(q) /\ k \in 1 .. Len(q)
    BY LenProperties
  <1>2. /\ r \in Seq(S) /\ Len(r) = Len(q) - 1
        /\ \A j \in 1 .. Len(q) - 1 : r[j] = IF j < k THEN q[j] ELSE q[j + 1]
    BY Removed
  <1>3. DOMAIN r = 1 .. Len(q) - 1
    BY <1>2, LenProperties
  <1> HIDE DEF r
  <1>4. IsFiniteSet(At(q, B)) /\ Count(q, B) \in Nat
    BY CountType
  <1>5. ASSUME NEW j \in At(r, B)
        PROVE  j \in Int /\ (IF j < k THEN j ELSE j + 1) \in T
    <2>1. j \in 1 .. Len(q) - 1 /\ r[j] \in B
      BY <1>3 DEF At
    <2>2. CASE j < k
      <3>1. j \in DOMAIN q /\ j # k /\ j \in Int
        BY <1>1, <2>1, <2>2
      <3> QED BY <1>2, <2>1, <2>2, <3>1 DEF At
    <2>3. CASE ~(j < k)
      <3>1. j + 1 \in DOMAIN q /\ j + 1 # k /\ j \in Int
        BY <1>1, <2>1, <2>3
      <3> QED BY <1>2, <2>1, <2>3, <3>1 DEF At
    <2> QED BY <2>2, <2>3
  <1> HIDE DEF T
  <1>6. f \in Injection(At(r, B), T)
    <2>1. f \in [At(r, B) -> T]
      BY <1>5
    <2>2. \A a, b \in At(r, B) : f[a] = f[b] => a = b
      BY <1>1, <1>5
    <2> QED BY <2>1, <2>2 DEF Injection, IsInjective
  <1>7. IsFiniteSet(T) /\ Cardinality(T) = IF k \in At(q, B) THEN Count(q, B) - 1 ELSE Count(q, B)
    BY <1>4, FS_RemoveElement DEF Count, T
  <1> HIDE DEF f
  <1>8. Cardinality(At(r, B)) <= Cardinality(T)
    BY <1>6, <1>7, FS_Injection
  <1>9. k \in At(q, B) <=> q[k] \in B
    BY DEF At
  <1> QED BY <1>7, <1>8, <1>9 DEF Count, r

\* A copy counts once more at most.
LEMMA CountInserted ==
    ASSUME NEW S, NEW q \in Seq(S), NEW k \in DOMAIN q, NEW B
    PROVE  Count(InsertAt(q, k, q[k]), B) <= Count(q, B) + 1
  <1> DEFINE r == InsertAt(q, k, q[k])
             T == At(r, B) \ {k}
             f == [j \in T |-> IF j < k THEN j ELSE j - 1]
  <1>1. Len(q) \in Nat /\ DOMAIN q = 1 .. Len(q) /\ k \in 1 .. Len(q) /\ q[k] \in S
    BY LenProperties, ElementOfSeq
  <1>2. /\ r \in Seq(S) /\ Len(r) = Len(q) + 1
        /\ \A j \in 1 .. Len(q) + 1 :
             r[j] = IF j < k THEN q[j] ELSE IF j = k THEN q[k] ELSE q[j - 1]
    BY Copied
  <1>3. DOMAIN r = 1 .. Len(q) + 1
    BY <1>2, LenProperties
  <1> HIDE DEF r
  <1>4. /\ IsFiniteSet(At(q, B)) /\ Count(q, B) \in Nat
        /\ IsFiniteSet(At(r, B)) /\ Count(r, B) \in Nat
    BY <1>2, CountType
  <1>5. ASSUME NEW j \in T
        PROVE  j \in Int /\ j # k /\ (IF j < k THEN j ELSE j - 1) \in At(q, B)
    <2>1. j \in 1 .. Len(q) + 1 /\ r[j] \in B /\ j # k
      BY <1>3 DEF At
    <2>2. CASE j < k
      <3>1. j \in DOMAIN q /\ j \in Int
        BY <1>1, <2>1, <2>2
      <3> QED BY <1>2, <2>1, <2>2, <3>1 DEF At
    <2>3. CASE ~(j < k)
      <3>1. j - 1 \in DOMAIN q /\ j \in Int
        BY <1>1, <2>1, <2>3
      <3> QED BY <1>2, <2>1, <2>3, <3>1 DEF At
    <2> QED BY <2>2, <2>3
  <1>6. IsFiniteSet(T) /\ Cardinality(T) = IF k \in At(r, B) THEN Count(r, B) - 1 ELSE Count(r, B)
    BY <1>4, FS_RemoveElement DEF Count
  <1> HIDE DEF T
  <1>7. f \in Injection(T, At(q, B))
    <2>1. f \in [T -> At(q, B)]
      BY <1>5
    <2>2. \A a, b \in T : f[a] = f[b] => a = b
      BY <1>1, <1>5
    <2> QED BY <2>1, <2>2 DEF Injection, IsInjective
  <1> HIDE DEF f
  <1>8. Cardinality(T) <= Cardinality(At(q, B))
    BY <1>4, <1>7, FS_Injection
  <1> QED BY <1>4, <1>6, <1>8 DEF Count, r

\* The stale packets of a transfer: blocks on the way to the client, and
\* acknowledgements on the way back.
Others(t) == Blocks \ {server[t].pos}
OtherAnswers(t) == Answers \ {Error, Number(server[t].pos)}
Stale(t) == Count(down[t], Others(t)) + Count(back[t], OtherAnswers(t))

Paid(t) ==
    /\ server[t].at = "wait" => server[t].retries + Stale(t) <= trouble[t]
    /\ server[t].at = "given up" => trouble[t] >= MaxRetries

\* Every step keeps the attempts of a transfer paid for.
LEMMA PaidStep ==
    ASSUME Types, Types', NEW t \in Transfers, Economical(t), Paid(t), StepOf(t)
    PROVE  Paid(t)'
  <1> DEFINE d == Count(down[t], Others(t))
             b == Count(back[t], OtherAnswers(t))
             n == trouble[t]
             r == server[t].retries
             M == MaxRetries
  <1>0. /\ down[t] \in Seq(Blocks) /\ back[t] \in Seq(Answers)
        /\ server[t].pos \in Blocks /\ n \in Nat /\ r \in Nat /\ M \in Nat
    BY Numbers
  <1>a. d \in Nat /\ b \in Nat
    BY <1>0, CountType
  <1>b. d' \in Nat /\ b' \in Nat
    <2>1. down'[t] \in Seq(Blocks) /\ back'[t] \in Seq(Answers)
      BY DEF Types, DownOK, BackOK
    <2> QED BY <2>1, CountType
  <1>c. server[t].at = "wait" => r + (d + b) <= n
    BY DEF Paid, Stale
  <1>d. server[t].at = "given up" => n >= M
    BY DEF Paid
  <1> SUFFICES /\ server'[t].at = "wait" => r' + (d' + b') <= n'
               /\ server'[t].at = "given up" => n' >= M
    BY DEF Paid, Stale
  <1>p. server'[t].pos = server[t].pos =>
          Others(t)' = Others(t) /\ OtherAnswers(t)' = OtherAnswers(t)
    BY DEF Others, OtherAnswers, Number, Blocks, Answers
  \* Steps that leave the transfer where it is.
  <1>1. ASSUME server'[t] = server[t], n' >= n, n' \in Nat,
               (d' + b') + n <= (d + b) + n'
        PROVE  /\ server'[t].at = "wait" => r' + (d' + b') <= n'
               /\ server'[t].at = "given up" => n' >= M
    <2>1. r' = r
      BY <1>1
    <2>2. \A rr, x, y, m, mm \in Nat : rr + x <= m /\ y + m <= x + mm => rr + y <= mm
      OBVIOUS
    <2>3. d + b \in Nat /\ d' + b' \in Nat
      BY <1>a, <1>b
    <2>4. ASSUME server[t].at = "wait" PROVE r + (d' + b') <= n'
      <3> HIDE DEF d, b, n, r
      <3> QED BY <1>0, <1>1, <1>c, <2>2, <2>3, <2>4
    <2>5. ASSUME server[t].at = "given up" PROVE n' >= M
      <3>1. \A x, y, z \in Nat : x >= y /\ z >= x => z >= y
        OBVIOUS
      <3> HIDE DEF d, b, n, r, M
      <3> QED BY <1>0, <1>1, <1>d, <2>5, <3>1
    <2> QED BY <1>1, <2>1, <2>4, <2>5
  <1>2. CASE Stays(t)
    <2>1. server'[t] = server[t] /\ n' = n /\ d' = d /\ b' = b
      BY <1>2, <1>p DEF Stays
    <2> HIDE DEF d, b, n, r, M
    <2>2. n' >= n /\ n' \in Nat /\ (d' + b') + n <= (d + b) + n'
      BY <1>0, <1>a, <2>1
    <2> QED BY <1>1, <2>1, <2>2
  <1>3. CASE Changes(t)
    BY <1>3 DEF Changes
  <1>4. CASE Sends(t)
    <2>1. r' = 0 /\ n' = n /\ server'[t].at = "wait"
      BY <1>4 DEF Sends
    <2>2. Others(t)' = Others(t) /\ OtherAnswers(t)' = OtherAnswers(t)
      BY <1>4, <1>p DEF Sends
    <2>3. d' <= d
      <3>1. server[t].pos \notin Others(t)
        BY DEF Others
      <3>2. down'[t] = Append(down[t], server[t].pos)
        BY <1>4 DEF Sends
      <3> QED BY <1>0, <2>2, <3>1, <3>2, CountAppended
    <2>4. b' = b
      BY <1>4, <2>2 DEF Sends
    <2>5. d <= Len(down[t]) /\ b <= Len(back[t])
      BY <1>0, CountType
    <2>6. Len(down[t]) + Len(back[t]) + 1 <= 1 + n
      BY <1>4 DEF Sends, Economical, Owed
    <2>7. Len(down[t]) \in Nat /\ Len(back[t]) \in Nat
      BY Numbers
    <2>8. \A x, y, z, u, v, m \in Nat :
            x <= y /\ y <= u /\ z <= v /\ u + v + 1 <= 1 + m => 0 + (x + z) <= m
      OBVIOUS
    <2> HIDE DEF d, b, n, r, M
    <2>9. 0 + (d' + b') <= n
      BY <1>0, <1>a, <1>b, <2>3, <2>4, <2>5, <2>6, <2>7, <2>8
    <2> QED BY <2>1, <2>9
  <1>5. CASE Advances(t)
    <2>1. server'[t].at = "complete" \/ server'[t].at = "read"
      BY <1>5, Numbers, AdvancedFacts DEF Advances
    <2> QED BY <2>1
  \* An attempt is paid for by what went wrong, or by a stale packet.
  <1>6. ASSUME Attempt(t), n' \in Nat, b' + n + 1 <= b + n'
        PROVE  /\ server'[t].at = "wait" => r' + (d' + b') <= n'
               /\ server'[t].at = "given up" => n' >= M
    <2>1. server[t].at = "wait" /\ r' = r + 1
      BY <1>6 DEF Attempt
    <2>2. server'[t].at = "wait" => d' <= d
      <3> SUFFICES ASSUME server'[t].at = "wait" PROVE d' <= d
        OBVIOUS
      <3>1. server[t].pos \notin Others(t) /\ Others(t)' = Others(t)
        BY <1>6, <1>p DEF Attempt, Others
      <3>2. down'[t] = Append(down[t], server[t].pos)
        BY <1>6 DEF Attempt
      <3> QED BY <1>0, <3>1, <3>2, CountAppended
    <2>3. server'[t].at = "given up" => r + 1 >= M
      BY <1>6 DEF Attempt
    <2>4. r + (d + b) <= n
      BY <1>c, <2>1
    <2>5. \A x, y, z, u, v, m, mm \in Nat :
            x + (y + z) <= m /\ v + m + 1 <= z + mm => x + 1 <= mm /\ (u <= y => x + 1 + (u + v) <= mm)
      OBVIOUS
    <2> HIDE DEF d, b, n, r, M
    <2>6. r + 1 <= n' /\ (d' <= d => r + 1 + (d' + b') <= n')
      BY <1>0, <1>6, <1>a, <1>b, <2>4, <2>5
    <2>7. \A x, y, z \in Nat : x + 1 <= y /\ x + 1 >= z => y >= z
      OBVIOUS
    <2> QED BY <1>0, <1>6, <2>1, <2>2, <2>3, <2>6, <2>7
  <1>7. CASE TimesOut(t)
    <2>1. Attempt(t) /\ n' = n + 1 /\ back'[t] = back[t]
      BY <1>7 DEF TimesOut
    <2>2. b' = b
      BY <1>p, <2>1 DEF Attempt
    <2> HIDE DEF d, b, n, r, M
    <2>3. n' \in Nat /\ b' + n + 1 <= b + n'
      BY <1>0, <1>a, <2>1, <2>2
    <2> QED BY <1>6, <2>1, <2>3
  <1>8. CASE Rejects(t)
    <2>1. PICK k \in DOMAIN back[t] :
            /\ ~Acked(t, back[t][k])
            /\ back'[t] = RemoveAt(back[t], k)
            /\ n' = IF back[t][k] = Error THEN n + 1 ELSE n
      BY <1>8 DEF Rejects
    <2>2. Attempt(t) /\ OtherAnswers(t)' = OtherAnswers(t)
      BY <1>8, <1>p DEF Rejects, Attempt
    <2>3. b' <= IF back[t][k] \in OtherAnswers(t) THEN b - 1 ELSE b
      BY <1>0, <2>1, <2>2, CountRemoved
    <2>4. back[t][k] \in Answers
      BY <1>0, ElementOfSeq, LenProperties
    <2>5. back[t][k] = Error \/ back[t][k] \in OtherAnswers(t)
      BY <2>1, <2>4 DEF Acked, OtherAnswers
    <2>6. back[t][k] = Error => back[t][k] \notin OtherAnswers(t)
      BY DEF OtherAnswers
    <2>7. (b' <= b - 1 /\ n' = n) \/ (b' <= b /\ n' = n + 1)
      BY <2>1, <2>3, <2>5, <2>6
    <2> HIDE DEF d, b, n, r, M
    <2>8. n' \in Nat /\ b' + n + 1 <= b + n'
      BY <1>0, <1>a, <1>b, <2>7
    <2> QED BY <1>6, <2>2, <2>8
  <1>9. CASE Answered(t)
    <2>1. PICK k \in DOMAIN down[t] :
            /\ down'[t] = RemoveAt(down[t], k)
            /\ \/ back'[t] = Append(back[t], Number(down[t][k]))
               \/ back'[t] = Append(back[t], Error)
      BY <1>9 DEF Answered
    <2>2. /\ server'[t] = server[t] /\ n' = n
          /\ Others(t)' = Others(t) /\ OtherAnswers(t)' = OtherAnswers(t)
      BY <1>9, <1>p DEF Answered
    <2>3. down[t][k] \in Blocks
      BY <1>0, ElementOfSeq, LenProperties
    <2>4. Number(down[t][k]) \in Answers /\ Error \in Answers
      <3>1. down[t][k] \in Nat
        BY <2>3, TftpAssumption DEF Blocks
      <3> QED BY <3>1, NumberType DEF Answers
    <2>5. d' <= IF down[t][k] \in Others(t) THEN d - 1 ELSE d
      BY <1>0, <2>1, <2>2, CountRemoved
    <2>6. CASE down[t][k] = server[t].pos
      <3>1. Number(down[t][k]) \notin OtherAnswers(t) /\ Error \notin OtherAnswers(t)
        BY <2>6 DEF OtherAnswers
      <3>2. b' <= b
        BY <1>0, <2>1, <2>2, <2>4, <3>1, CountAppended
      <3>3. d' <= d
        BY <2>5, <2>6 DEF Others
      <3> HIDE DEF d, b, n, r, M
      <3>4. n' >= n /\ n' \in Nat /\ (d' + b') + n <= (d + b) + n'
        BY <1>0, <1>a, <1>b, <2>2, <3>2, <3>3
      <3> QED BY <1>1, <2>2, <3>4
    <2>7. CASE down[t][k] # server[t].pos
      <3>1. d' <= d - 1
        BY <2>3, <2>5, <2>7 DEF Others
      <3>2. b' <= b + 1
        <4>1. \A e \in Answers : Count(Append(back[t], e), OtherAnswers(t))
                  <= IF e \in OtherAnswers(t) THEN b + 1 ELSE b
          BY <1>0, CountAppended
        <4>2. PICK e \in Answers : back'[t] = Append(back[t], e)
          BY <2>1, <2>4
        <4>3. b' <= IF e \in OtherAnswers(t) THEN b + 1 ELSE b
          BY <2>2, <4>1, <4>2
        <4> HIDE DEF b
        <4> QED BY <1>a, <1>b, <4>3
      <3> HIDE DEF d, b, n, r, M
      <3>3. n' >= n /\ n' \in Nat /\ (d' + b') + n <= (d + b) + n'
        <4>1. \A x, y, u, v, m \in Nat :
                u <= x - 1 /\ v <= y + 1 => m >= m /\ (u + v) + m <= (x + y) + m
          OBVIOUS
        <4> QED BY <1>0, <1>a, <1>b, <2>2, <3>1, <3>2, <4>1
      <3> QED BY <1>1, <2>2, <3>3
    <2> QED BY <2>6, <2>7
  <1>10. CASE Loses(t)
    <2>1. /\ server'[t] = server[t] /\ n' = n
          /\ Others(t)' = Others(t) /\ OtherAnswers(t)' = OtherAnswers(t)
      BY <1>10, <1>p DEF Loses
    <2>2. d' <= d /\ b' <= b
      <3>1. ASSUME NEW S, NEW q \in Seq(S), NEW k \in DOMAIN q, NEW B
            PROVE  Count(RemoveAt(q, k), B) <= Count(q, B)
        <4>1. Count(RemoveAt(q, k), B) <= IF q[k] \in B THEN Count(q, B) - 1 ELSE Count(q, B)
          BY <3>1, CountRemoved
        <4>2. Count(q, B) \in Nat /\ RemoveAt(q, k) \in Seq(S)
          BY <3>1, CountType, Removed
        <4>3. Count(RemoveAt(q, k), B) \in Nat
          BY <4>2, CountType
        <4> QED BY <4>1, <4>2, <4>3
      <3>2. CASE (\E k \in DOMAIN down[t] : down'[t] = RemoveAt(down[t], k)) /\ back'[t] = back[t]
        <4>1. b' = b
          BY <2>1, <3>2
        <4>2. d' <= d
          BY <1>0, <2>1, <3>1, <3>2
        <4> HIDE DEF b
        <4> QED BY <1>a, <4>1, <4>2
      <3>3. CASE (\E k \in DOMAIN back[t] : back'[t] = RemoveAt(back[t], k)) /\ down'[t] = down[t]
        <4>1. d' = d
          BY <2>1, <3>3
        <4>2. b' <= b
          BY <1>0, <2>1, <3>1, <3>3
        <4> HIDE DEF d
        <4> QED BY <1>a, <4>1, <4>2
      <3> QED BY <1>10, <3>2, <3>3 DEF Loses
    <2> HIDE DEF d, b, n, r, M
    <2>3. n' >= n /\ n' \in Nat /\ (d' + b') + n <= (d + b) + n'
      BY <1>0, <1>a, <1>b, <2>1, <2>2
    <2> QED BY <1>1, <2>1, <2>3
  <1>11. CASE Doubles(t)
    <2>1. /\ server'[t] = server[t] /\ n' = n + 1
          /\ Others(t)' = Others(t) /\ OtherAnswers(t)' = OtherAnswers(t)
      BY <1>11, <1>p DEF Doubles
    <2>2. (d' <= d + 1 /\ b' = b) \/ (d' = d /\ b' <= b + 1)
      <3>1. CASE /\ \E k \in DOMAIN down[t] : down'[t] = InsertAt(down[t], k, down[t][k])
                 /\ back'[t] = back[t]
        BY <1>0, <2>1, <3>1, CountInserted
      <3>2. CASE /\ \E k \in DOMAIN back[t] : back'[t] = InsertAt(back[t], k, back[t][k])
                 /\ down'[t] = down[t]
        BY <1>0, <2>1, <3>2, CountInserted
      <3> QED BY <1>11, <3>1, <3>2 DEF Doubles
    <2> HIDE DEF d, b, n, r, M
    <2>3. n' >= n /\ n' \in Nat /\ (d' + b') + n <= (d + b) + n'
      BY <1>0, <1>a, <1>b, <2>1, <2>2
    <2> QED BY <1>1, <2>1, <2>3
  <1> QED BY <1>2, <1>3, <1>4, <1>5, <1>7, <1>8, <1>9, <1>10, <1>11 DEF StepOf

\* A transfer is given up (main.rs:523-527) only when as many things went
\* wrong in it as it has attempts, whatever late acknowledgements of other
\* blocks, which use up attempts too, come in.
THEOREM OnlyGivenUpForCause == Spec => []GivenUpForCause
  <1>1. Init => \A t \in Transfers : Paid(t)
    <2> SUFFICES ASSUME Init, NEW t \in Transfers PROVE Paid(t)
      OBVIOUS
    <2>1. server[t].at = "unused"
      BY DEF Init, NotStarted
    <2> QED BY <2>1 DEF Paid
  <1>2. Types /\ (\A t \in Transfers : Economical(t)) /\ (\A t \in Transfers : Paid(t))
          /\ [Next]_vars => (\A t \in Transfers : Paid(t))'
    BY StepIsGood, PaidStep DEF Good
  <1>3. (\A t \in Transfers : Paid(t)) => GivenUpForCause
    BY DEF Paid, GivenUpForCause
  <1> QED BY <1>1, <1>2, <1>3, TypesHold, EconomicalHolds, PTL DEF Spec

-----------------------------------------------------------------------------
(***************************************************************************)
(* A network that keeps the order.  Then the numbers may repeat, as they   *)
(* do in a file of more than 2^16 blocks: all that is on the way is about  *)
(* the transfer's block and the one before it, the older ones first.       *)
(***************************************************************************)
InOrder == Overtaking = 0

\* A queue with the old ones before the new ones; errors may be anywhere.
InTurn(q, old, new) ==
    /\ \A k \in DOMAIN q : q[k] = old \/ q[k] = new \/ q[k] = Error
    /\ \A i, j \in DOMAIN q : i <= j /\ q[i] = new => q[j] = new \/ q[j] = Error

Steady(t) ==
    /\ InTurn(down[t], server[t].pos - 1, server[t].pos)
    /\ InTurn(back[t], Number(server[t].pos - 1), Number(server[t].pos))
    /\ IF client.takes = t
         THEN Len(got) = server[t].pos - 1 \/ Len(got) = server[t].pos
         ELSE server[t].pos = 1 /\ \A k \in DOMAIN back[t] : back[t][k] = Error
    /\ client.takes = t /\ Len(got) = server[t].pos =>
         \A k \in DOMAIN down[t] : down[t][k] = server[t].pos
    /\ \A k \in DOMAIN back[t] :
         back[t][k] = Number(server[t].pos) => Len(got) = server[t].pos
    /\ server[t].at = "complete" => client.takes = t /\ Len(got) = FileBlocks

Untouched == client.takes = Undecided => Len(got) = 0

\* Neighbouring blocks have different numbers.
LEMMA NeighboursDiffer ==
    ASSUME NEW p \in Nat
    PROVE  Number(p) # Number(p + 1)
  <1> DEFINE B == BlockMod
  <1>1. B \in Nat /\ B > 1
    BY TftpAssumption
  <1> SUFFICES ASSUME p % B = (p + 1) % B PROVE FALSE
    BY DEF Number
  <1> HIDE DEF B
  <1>2. p = B * (p \div B) + (p % B) /\ p \div B \in Int /\ p % B \in Int
    BY <1>1
  <1>3. p + 1 = B * ((p + 1) \div B) + ((p + 1) % B) /\ (p + 1) \div B \in Int
    BY <1>1
  <1> DEFINE d == ((p + 1) \div B) - (p \div B)
  <1>4. d \in Int /\ B * d = 1
    BY <1>1, <1>2, <1>3
  <1> HIDE DEF d
  <1>5. CASE d <= 0
    BY <1>1, <1>4, <1>5
  <1>6. CASE d >= 1
    BY <1>1, <1>4, <1>6
  <1> QED BY <1>4, <1>5, <1>6

\* A queue stays in turn when something leaves it or is repeated in it.
LEMMA InTurnStays ==
    ASSUME NEW S, NEW q \in Seq(S), NEW old, NEW new, InTurn(q, old, new),
           NEW k \in DOMAIN q
    PROVE  InTurn(RemoveAt(q, k), old, new) /\ InTurn(InsertAt(q, k, q[k]), old, new)
  <1>1. Len(q) \in Nat /\ DOMAIN q = 1 .. Len(q) /\ k \in 1 .. Len(q) /\ q[k] \in S
    BY LenProperties, ElementOfSeq
  <1>2. InTurn(RemoveAt(q, k), old, new)
    <2> DEFINE r == RemoveAt(q, k)
               to(j) == IF j < k THEN j ELSE j + 1
    <2>1. /\ r \in Seq(S) /\ Len(r) = Len(q) - 1
          /\ \A j \in 1 .. Len(q) - 1 : r[j] = IF j < k THEN q[j] ELSE q[j + 1]
      BY Removed
    <2>2. DOMAIN r = 1 .. Len(q) - 1
      BY <2>1, LenProperties
    <2> HIDE DEF r
    <2>3. \A j \in DOMAIN r : to(j) \in DOMAIN q /\ r[j] = q[to(j)]
      BY <1>1, <2>1, <2>2
    <2>4. \A i, j \in DOMAIN r : i <= j => to(i) <= to(j)
      BY <1>1, <2>2
    <2> HIDE DEF to
    <2> QED BY <2>3, <2>4 DEF InTurn, r
  <1>3. InTurn(InsertAt(q, k, q[k]), old, new)
    <2> DEFINE r == InsertAt(q, k, q[k])
               to(j) == IF j <= k THEN j ELSE j - 1
    <2>1. /\ r \in Seq(S) /\ Len(r) = Len(q) + 1
          /\ \A j \in 1 .. Len(q) + 1 :
               r[j] = IF j < k THEN q[j] ELSE IF j = k THEN q[k] ELSE q[j - 1]
      BY Copied
    <2>2. DOMAIN r = 1 .. Len(q) + 1
      BY <2>1, LenProperties
    <2> HIDE DEF r
    <2>3. \A j \in DOMAIN r : to(j) \in DOMAIN q /\ r[j] = q[to(j)]
      BY <1>1, <2>1, <2>2
    <2>4. \A i, j \in DOMAIN r : i <= j => to(i) <= to(j)
      BY <1>1, <2>2
    <2> HIDE DEF to
    <2> QED BY <2>3, <2>4 DEF InTurn, r
  <1> QED BY <1>2, <1>3

\* It stays so too when a new one or an error joins it, or an old one that
\* has no new one before it.
LEMMA InTurnJoined ==
    ASSUME NEW S, NEW q \in Seq(S), NEW old, NEW new, InTurn(q, old, new), NEW e \in S,
           \/ e = new \/ e = Error
           \/ e = old /\ \A k \in DOMAIN q : q[k] # new
    PROVE  InTurn(Append(q, e), old, new)
  <1> DEFINE r == Append(q, e)
  <1>1. Len(q) \in Nat /\ DOMAIN q = 1 .. Len(q)
    BY LenProperties
  <1>2. /\ r \in Seq(S) /\ Len(r) = Len(q) + 1
        /\ \A j \in 1 .. Len(q) : r[j] = q[j]
        /\ r[Len(q) + 1] = e
    BY Appended
  <1>3. DOMAIN r = 1 .. Len(q) + 1
    BY <1>2, LenProperties
  <1> HIDE DEF r
  <1>4. \A j \in DOMAIN r : (j \in DOMAIN q /\ r[j] = q[j]) \/ (j = Len(q) + 1 /\ r[j] = e)
    BY <1>1, <1>2, <1>3
  <1>5. \A i, j \in DOMAIN r : i <= j /\ i = Len(q) + 1 => j = Len(q) + 1
    BY <1>1, <1>3
  <1>6. \A j \in DOMAIN r : r[j] = old \/ r[j] = new \/ r[j] = Error
    BY <1>4 DEF InTurn
  <1>7. ASSUME NEW i \in DOMAIN r, NEW j \in DOMAIN r, i <= j, r[i] = new
        PROVE  r[j] = new \/ r[j] = Error
    <2>1. CASE j = Len(q) + 1 /\ r[j] = e
      <3>1. CASE e = new \/ e = Error
        BY <2>1, <3>1
      <3>2. CASE e = old /\ \A k \in DOMAIN q : q[k] # new
        BY <1>4, <1>7, <2>1, <3>2
      <3> QED BY <3>1, <3>2
    <2>2. CASE j \in DOMAIN q /\ r[j] = q[j]
      <3>1. j # Len(q) + 1
        BY <1>1, <2>2
      <3>2. i \in DOMAIN q /\ r[i] = q[i]
        BY <1>4, <1>5, <1>7, <3>1
      <3> QED BY <1>7, <2>2, <3>2 DEF InTurn
    <2> QED BY <1>4, <2>1, <2>2
  <1> QED BY <1>6, <1>7 DEF InTurn, r

\* Where a transfer can be.
LEMMA Positions ==
    ASSUME Types, NEW t \in Transfers
    PROVE  /\ server[t].pos \in 1 .. FileBlocks /\ server[t].pos \in Nat
           /\ server[t].pos - 1 \in Nat /\ server[t].pos <= FileBlocks
           /\ (server[t].pos - 1) + 1 = server[t].pos
  <1>1. server[t].pos \in 1 .. FileBlocks /\ FileBlocks \in Nat
    BY Numbers, TftpAssumption DEF Blocks
  <1>2. \A f \in Nat : \A x \in 1 .. f :
          x \in Nat /\ x - 1 \in Nat /\ x <= f /\ (x - 1) + 1 = x
    OBVIOUS
  <1> QED BY <1>1, <1>2

\* The client gets the first block on its way: it stores the next one of the
\* file or has it already, and the transfer's packets stay in turn.
LEMMA TakesInTurn ==
    ASSUME Types, Types', StoredIsPrefix, Untouched, NEW t \in Transfers, Steady(t),
           1 \in DOMAIN down[t], ClientReceives(t, 1)
    PROVE  StoredIsPrefix' /\ client'.takes = t /\ Steady(t)'
  <1> DEFINE p == down[t][1]
             pos == server[t].pos
             len == Len(got)
             next == ~Finished /\ Number(p) = Awaited
  <1>1. /\ len \in Nat /\ len <= FileBlocks /\ FileBlocks \in Nat \ {0} /\ DOMAIN got = 1 .. len
        /\ (~Finished => len < FileBlocks) /\ (Finished => len = FileBlocks)
    BY StoredLen
  <1>2. /\ down[t] \in Seq(Blocks) /\ back[t] \in Seq(Answers)
        /\ \A k \in DOMAIN down[t] : down[t][k] \in Nat /\ down[t][k] # 0 /\ down[t][k] # Error
    <2>1. down[t] \in Seq(Blocks) /\ back[t] \in Seq(Answers)
      BY Numbers
    <2>2. \A k \in DOMAIN down[t] : down[t][k] \in 1 .. FileBlocks
      BY <2>1, ElementOfSeq, LenProperties DEF Blocks
    <2>3. \A f \in Nat : \A x \in 1 .. f : x \in Nat /\ x # 0 /\ x # -1
      OBVIOUS
    <2> QED BY <1>1, <2>1, <2>2, <2>3 DEF Error
  <1>3. pos \in 1 .. FileBlocks /\ pos \in Nat /\ pos - 1 \in Nat /\ pos <= FileBlocks
    BY Positions
  <1>4. /\ server'[t] = server[t] /\ client'.takes = t
        /\ down'[t] = RemoveAt(down[t], 1)
        /\ back'[t] = Append(back[t], Number(p))
        /\ got' = IF next THEN Append(got, p) ELSE got
        /\ client.takes = t \/ (client.takes = Undecided /\ next)
    BY DEF ClientReceives, Types, ClientOK, DownOK, BackOK
  <1>5. p = pos - 1 \/ p = pos
    BY <1>2 DEF Steady, InTurn
  <1>6. /\ len = pos - 1 \/ len = pos
        /\ len = pos => p = pos
    <2>1. CASE client.takes = t
      BY <2>1 DEF Steady
    <2>2. CASE client.takes = Undecided
      <3>1. len = 0 /\ pos = 1
        BY <2>2, UndecidedAssumption DEF Untouched, Steady
      <3> QED BY <3>1
    <2> QED BY <1>4, <2>1, <2>2
  <1>7. Number(pos - 1) # Number(pos) /\ Number(pos) # Number(pos + 1)
    <2>1. \A n \in Nat : Number(n) # Number(n + 1)
      BY NeighboursDiffer
    <2>2. (pos - 1) + 1 = pos
      <3> HIDE DEF pos
      <3> QED BY <1>3
    <2> QED BY <1>3, <2>1, <2>2
  <1>8. next => p = pos /\ len = pos - 1
    <2> SUFFICES ASSUME next PROVE p = pos /\ len = pos - 1
      OBVIOUS
    <2>1. Number(p) = Number(len + 1)
      BY DEF Awaited
    <2>2. len # pos
      BY <1>6, <1>7, <2>1
    <2>3. len = pos - 1
      BY <1>6, <2>2
    <2>4. len + 1 = pos
      <3> HIDE DEF len, pos
      <3> QED BY <1>3, <2>3
    <2> QED BY <1>5, <1>7, <2>1, <2>3, <2>4
  <1>9. ~next /\ p = pos => len = pos
    <2> SUFFICES ASSUME ~next, p = pos, len # pos PROVE FALSE
      OBVIOUS
    <2>1. len = pos - 1
      BY <1>6
    <2>2. len + 1 = pos /\ len < FileBlocks
      <3> HIDE DEF len, pos
      <3> QED BY <1>1, <1>3, <2>1
    <2>3. ~Finished
      <3>1. len # FileBlocks
        <4> HIDE DEF len
        <4> QED BY <1>1, <2>2
      <3> QED BY <1>1, <3>1
    <2>4. Number(p) = Awaited
      BY <2>2 DEF Awaited
    <2> QED BY <2>3, <2>4
  \* What is stored.
  <1>10. /\ StoredIsPrefix'
         /\ p = pos => Len(got') = pos
         /\ p # pos => Len(got') = pos - 1
    <2>1. CASE next
      <3>1. p = pos /\ len = pos - 1 /\ got' = Append(got, pos)
        BY <1>4, <1>8, <2>1
      <3>2. got \in Seq(Blocks) /\ pos \in Blocks
        BY <1>3 DEF Types, ClientOK, Blocks
      <3>3. /\ Append(got, pos) \in Seq(Blocks) /\ Len(Append(got, pos)) = len + 1
            /\ \A j \in 1 .. len : Append(got, pos)[j] = got[j]
            /\ Append(got, pos)[len + 1] = pos
        BY <3>2, Appended
      <3>4. DOMAIN got' = 1 .. len + 1
        BY <3>1, <3>3, LenProperties
      <3>5. len + 1 = pos
        <4> HIDE DEF len, pos
        <4> QED BY <1>3, <3>1
      <3>6. ASSUME NEW i \in 1 .. len + 1 PROVE got'[i] = i
        <4>1. i \in 1 .. len \/ i = len + 1
          <5> HIDE DEF len
          <5> QED BY <1>1
        <4> QED BY <1>1, <3>1, <3>3, <3>5, <4>1 DEF StoredIsPrefix
      <3> QED BY <3>1, <3>3, <3>4, <3>5, <3>6 DEF StoredIsPrefix
    <2>2. CASE ~next
      <3>1. got' = got
        BY <1>4, <2>2
      <3>2. p # pos => len = pos - 1
        BY <1>6
      <3> QED BY <1>9, <2>2, <3>1, <3>2 DEF StoredIsPrefix
    <2> QED BY <2>1, <2>2
  <1>11. pos # pos - 1
    <2> HIDE DEF pos
    <2> QED BY <1>3
  \* What is on the way.
  <1>12. InTurn(down'[t], pos - 1, pos)
    BY <1>2, <1>4, InTurnStays DEF Steady
  <1>13. Number(p) \in Answers
    <2>1. p \in Nat
      BY <1>2
    <2> QED BY <2>1, NumberType DEF Answers
  <1>14. p # pos => \A k \in DOMAIN back[t] : back[t][k] # Number(pos)
    BY <1>5, <1>6, <1>11 DEF Steady
  <1>15. InTurn(back'[t], Number(pos - 1), Number(pos))
    <2>1. InTurn(back[t], Number(pos - 1), Number(pos))
      BY DEF Steady
    <2>2. \/ Number(p) = Number(pos)
          \/ Number(p) = Number(pos - 1) /\ \A k \in DOMAIN back[t] : back[t][k] # Number(pos)
      BY <1>5, <1>14
    <2>3. InTurn(Append(back[t], Number(p)), Number(pos - 1), Number(pos))
      <3> HIDE DEF p, pos
      <3> QED BY <1>2, <1>13, <2>1, <2>2, InTurnJoined
    <2> QED BY <1>4, <2>3
  <1>16. Len(got') = pos => \A k \in DOMAIN down'[t] : down'[t][k] = pos
    <2> SUFFICES ASSUME Len(got') = pos, NEW k \in DOMAIN down'[t] PROVE down'[t][k] = pos
      OBVIOUS
    <2>1. p = pos
      BY <1>10, <1>11
    <2>2. PICK i \in DOMAIN down[t] : down'[t][k] = down[t][i]
      BY <1>2, <1>4, PacketsOf
    <2>3. 1 <= i
      BY <1>2, LenProperties
    <2> QED BY <1>2, <2>1, <2>2, <2>3 DEF Steady, InTurn
  <1>17. ASSUME NEW k \in DOMAIN back'[t], back'[t][k] = Number(pos)
         PROVE  Len(got') = pos
    <2>1. back'[t][k] = Number(p) \/ \E i \in DOMAIN back[t] : back'[t][k] = back[t][i]
      BY <1>2, <1>4, <1>13, <1>17, PacketsOf
    <2>2. p = pos
      BY <1>5, <1>7, <1>14, <1>17, <2>1
    <2> QED BY <1>10, <2>2
  <1>18. server[t].at = "complete" => Len(got') = FileBlocks
    <2> SUFFICES ASSUME server[t].at = "complete" PROVE Len(got') = FileBlocks
      OBVIOUS
    <2>1. len = FileBlocks
      BY DEF Steady
    <2>2. len = pos
      <3> HIDE DEF len, pos
      <3> QED BY <1>1, <1>3, <1>6, <2>1
    <2> QED BY <1>6, <1>10, <2>1, <2>2
  <1>19. server'[t].pos = pos /\ server'[t].at = server[t].at
    BY <1>4
  <1>20. Len(got') = pos - 1 \/ Len(got') = pos
    BY <1>10
  <1> HIDE DEF pos, p, len, next
  <1>21. Steady(t)'
    BY <1>4, <1>12, <1>15, <1>16, <1>17, <1>18, <1>19, <1>20 DEF Steady, InTurn, Number
  <1> QED BY <1>4, <1>10, <1>21

\* A step in which the client takes nothing from a transfer that stays at its
\* block: its packets are those it had, its block once more, and errors.
LEMMA QuietSteady ==
    ASSUME Types, NEW t \in Transfers, Steady(t),
           \/ client.takes = t /\ client'.takes = t /\ got' = got
           \/ client.takes # t /\ client'.takes # t,
           server'[t].pos = server[t].pos,
           server'[t].at = "complete" => server[t].at = "complete",
           InTurn(down'[t], server[t].pos - 1, server[t].pos),
           InTurn(back'[t], Number(server[t].pos - 1), Number(server[t].pos)),
           \A j \in DOMAIN down'[t] :
             down'[t][j] = server[t].pos \/ \E i \in DOMAIN down[t] : down'[t][j] = down[t][i],
           \A j \in DOMAIN back'[t] :
             back'[t][j] = Error \/ \E i \in DOMAIN back[t] : back'[t][j] = back[t][i]
    PROVE  Steady(t)'
  <1> DEFINE pos == server[t].pos
  <1>1. CASE client.takes = t /\ client'.takes = t /\ got' = got
    <2>1. Len(got) = pos => \A j \in DOMAIN down'[t] : down'[t][j] = pos
      BY <1>1 DEF Steady
    <2>2. \A j \in DOMAIN back'[t] : back'[t][j] = Number(pos) => Len(got) = pos
      <3> SUFFICES ASSUME NEW j \in DOMAIN back'[t], back'[t][j] = Number(pos)
                   PROVE  Len(got) = pos
        OBVIOUS
      <3>1. back'[t][j] # Error
        <4>1. pos \in Nat => Number(pos) # Error
          BY NumberType
        <4>2. pos \in Nat
          BY Positions
        <4> QED BY <4>1, <4>2
      <3> QED BY <3>1 DEF Steady
    <2>3. /\ Len(got) = pos - 1 \/ Len(got) = pos
          /\ server'[t].at = "complete" => Len(got) = FileBlocks
      BY <1>1 DEF Steady
    <2> QED BY <1>1, <2>1, <2>2, <2>3 DEF Steady, InTurn, Number
  <1>2. CASE client.takes # t /\ client'.takes # t
    <2>1. pos = 1 /\ \A k \in DOMAIN back[t] : back[t][k] = Error
      BY <1>2 DEF Steady
    <2>2. \A j \in DOMAIN back'[t] : back'[t][j] = Error
      BY <2>1
    <2>3. Number(pos) # Error
      BY Positions, NumberType
    <2>4. server'[t].at # "complete"
      BY <1>2 DEF Steady
    <2> QED BY <1>2, <2>1, <2>2, <2>3, <2>4 DEF Steady, InTurn, Number
  <1> QED BY <1>1, <1>2

\* An acknowledged transfer moves on, and all that is on the way is now about
\* the block before.
LEMMA AdvanceSteady ==
    ASSUME Types, InOrder, NEW t \in Transfers, Steady(t), Advances(t),
           \/ client.takes = t /\ client'.takes = t /\ got' = got
           \/ client.takes # t /\ client'.takes # t
    PROVE  Steady(t)'
  <1> DEFINE pos == server[t].pos
  <1>1. /\ server'[t] = Advanced(server[t]) /\ down'[t] = down[t]
        /\ \E k \in DOMAIN back[t] : /\ k <= Overtaking + 1
                                     /\ Acked(t, back[t][k])
                                     /\ back'[t] = RemoveAt(back[t], k)
    BY DEF Advances
  <1>2. PICK k \in DOMAIN back[t] : /\ k <= Overtaking + 1
                                    /\ Acked(t, back[t][k])
                                    /\ back'[t] = RemoveAt(back[t], k)
    BY <1>1
  <1>3. back[t] \in Seq(Answers) /\ server[t] \in Transfer /\ down[t] \in Seq(Blocks)
    BY Numbers
  <1>4. /\ pos \in 1 .. FileBlocks /\ pos \in Nat /\ pos - 1 \in Nat /\ (pos - 1) + 1 = pos
        /\ (pos + 1) - 1 = pos
    <2>1. \A x \in Nat : (x + 1) - 1 = x
      OBVIOUS
    <2> QED BY <2>1, Positions
  <1>5. Number(pos - 1) # Number(pos) /\ Number(pos) # Number(pos + 1)
    <2>1. \A n \in Nat : Number(n) # Number(n + 1)
      BY NeighboursDiffer
    <2> QED BY <1>4, <2>1
  <1>6. \A n \in Nat : Number(n) # Error
    BY NumberType
  <1>7. back[t][k] = Number(pos) /\ back[t][k] # Error
    BY <1>2 DEF Acked
  <1>8. client.takes = t /\ client'.takes = t /\ got' = got /\ Len(got) = pos
    BY <1>7 DEF Steady
  <1>9. \A j \in DOMAIN down[t] : down[t][j] = pos
    BY <1>8 DEF Steady
  <1>10. \A j \in DOMAIN back'[t] : back'[t][j] = Number(pos) \/ back'[t][j] = Error
    <2>1. \A i \in DOMAIN back[t] : k <= i
      <3>1. k \in Nat /\ k <= 1
        BY <1>2, <1>3, LenProperties DEF InOrder
      <3>2. \A i \in DOMAIN back[t] : i \in Nat /\ i >= 1
        BY <1>3, LenProperties
      <3> QED BY <3>1, <3>2
    <2>2. \A i \in DOMAIN back[t] : back[t][i] = Number(pos) \/ back[t][i] = Error
      BY <1>7, <2>1 DEF Steady, InTurn
    <2> QED BY <1>2, <1>3, <2>2, PacketsOf
  <1>11. CASE /\ server'[t].at = "complete" /\ server[t].pos = FileBlocks
              /\ server'[t].pos = server[t].pos
    <2>1. InTurn(back'[t], Number(pos - 1), Number(pos))
      BY <1>10 DEF InTurn
    <2>2. InTurn(down'[t], pos - 1, pos)
      BY <1>1, <1>9 DEF InTurn
    <2> QED BY <1>1, <1>8, <1>9, <1>11, <2>1, <2>2 DEF Steady, InTurn, Number
  <1>12. CASE server'[t].at = "read" /\ server'[t].pos = server[t].pos + 1
    <2> DEFINE new == pos + 1
    <2>1. server'[t].pos = new /\ new - 1 = pos /\ new # pos
      <3>1. \A x \in Nat : x + 1 # x
        OBVIOUS
      <3> QED BY <1>4, <1>12, <3>1
    <2>2. InTurn(back'[t], Number(pos), Number(new))
      <3>1. \A j \in DOMAIN back'[t] : back'[t][j] # Number(new)
        <4>1. Number(new) # Number(pos) /\ Number(new) # Error
          BY <1>4, <1>5, <1>6
        <4> HIDE DEF new, pos
        <4> QED BY <1>10, <4>1
      <3> HIDE DEF new, pos
      <3> QED BY <1>10, <3>1 DEF InTurn
    <2>3. InTurn(down'[t], pos, new)
      <3> HIDE DEF new, pos
      <3> QED BY <1>1, <1>9, <2>1 DEF InTurn
    <2>4. \A j \in DOMAIN back'[t] : back'[t][j] # Number(new)
      <3>1. Number(new) # Number(pos) /\ Number(new) # Error
        BY <1>4, <1>5, <1>6
      <3> HIDE DEF new, pos
      <3> QED BY <1>10, <3>1
    <2>5. Len(got') = new - 1 /\ Len(got') # new
      BY <1>8, <2>1
    <2>6. server'[t].at # "complete"
      BY <1>12
    <2> HIDE DEF new, pos
    <2> QED BY <1>8, <2>1, <2>2, <2>3, <2>4, <2>5, <2>6 DEF Steady, InTurn, Number
  <1> QED BY <1>1, <1>3, <1>11, <1>12, AdvancedFacts

\* For each transfer, the client takes a block of it or is quiet.
LEMMA WhoTakes ==
    ASSUME Types, [Next]_vars, NEW t \in Transfers
    PROVE  \/ \E k \in DOMAIN down[t] : k <= Overtaking + 1 /\ ClientReceives(t, k)
           \/ client.takes = t /\ client'.takes = t /\ got' = got
           \/ client.takes # t /\ client'.takes # t
  <1>1. CASE got' = got /\ client'.takes = client.takes
    BY <1>1
  <1>2. ASSUME NEW u \in Transfers, NEW k \in DOMAIN down[u], ClientReceives(u, k)
        PROVE  client'.takes = u /\ (client.takes = u \/ client.takes = Undecided)
    BY <1>2 DEF ClientReceives, Types, ClientOK
  <1> QED BY <1>1, <1>2, OnlyReceivingStores, UndecidedAssumption

\* Every step keeps a transfer's packets in turn.
LEMMA SteadyStep ==
    ASSUME Types, Types', [Next]_vars, InOrder, StoredIsPrefix, Untouched,
           NEW t \in Transfers, Steady(t), StepOf(t)
    PROVE  Steady(t)'
  <1>0. /\ down[t] \in Seq(Blocks) /\ back[t] \in Seq(Answers) /\ server[t].pos \in Blocks
    BY Numbers
  <1>1. CASE \E k \in DOMAIN down[t] : k <= Overtaking + 1 /\ ClientReceives(t, k)
    <2>1. PICK k \in DOMAIN down[t] : k <= Overtaking + 1 /\ ClientReceives(t, k)
      BY <1>1
    <2>2. k = 1
      BY <1>0, <2>1, LenProperties DEF InOrder
    <2> QED BY <2>1, <2>2, TakesInTurn
  <1>2. CASE \/ client.takes = t /\ client'.takes = t /\ got' = got
             \/ client.takes # t /\ client'.takes # t
    <2>a. /\ InTurn(down[t], server[t].pos - 1, server[t].pos)
          /\ InTurn(back[t], Number(server[t].pos - 1), Number(server[t].pos))
      BY DEF Steady
    <2>b. \A k \in DOMAIN down[t] :
            /\ InTurn(RemoveAt(down[t], k), server[t].pos - 1, server[t].pos)
            /\ InTurn(InsertAt(down[t], k, down[t][k]), server[t].pos - 1, server[t].pos)
      BY <1>0, <2>a, InTurnStays
    <2>c. \A k \in DOMAIN back[t] :
            /\ InTurn(RemoveAt(back[t], k), Number(server[t].pos - 1), Number(server[t].pos))
            /\ InTurn(InsertAt(back[t], k, back[t][k]),
                      Number(server[t].pos - 1), Number(server[t].pos))
      BY <1>0, <2>a, InTurnStays
    <2>d. InTurn(Append(down[t], server[t].pos), server[t].pos - 1, server[t].pos)
      BY <1>0, <2>a, InTurnJoined
    <2>e. InTurn(Append(back[t], Error), Number(server[t].pos - 1), Number(server[t].pos))
      <3>1. Error \in Answers
        BY DEF Answers
      <3> QED BY <1>0, <2>a, <3>1, InTurnJoined
    <2>1. CASE Advances(t)
      BY <1>2, <2>1, AdvanceSteady
    <2>2. CASE Answered(t)
      <3>1. PICK k \in DOMAIN down[t] :
              /\ k <= Overtaking + 1
              /\ down'[t] = RemoveAt(down[t], k)
              /\ ClientReceives(t, k) \/ back'[t] = Append(back[t], Error)
        BY <2>2 DEF Answered
      <3>2. server'[t] = server[t]
        BY <2>2 DEF Answered
      <3>3. CASE back'[t] = Append(back[t], Error)
        <4>1. \A j \in DOMAIN down'[t] : \E i \in DOMAIN down[t] : down'[t][j] = down[t][i]
          BY <1>0, <3>1, PacketsOf
        <4>2. \A j \in DOMAIN back'[t] :
                back'[t][j] = Error \/ \E i \in DOMAIN back[t] : back'[t][j] = back[t][i]
          <5>1. Error \in Answers
            BY DEF Answers
          <5> QED BY <1>0, <3>3, <5>1, PacketsOf
        <4> QED BY <1>2, <2>b, <2>e, <3>1, <3>2, <3>3, <4>1, <4>2, QuietSteady
      <3>4. CASE ClientReceives(t, k)
        BY <1>1, <3>1, <3>4
      <3> QED BY <3>1, <3>3, <3>4
    <2>3. CASE ~Advances(t) /\ ~Answered(t)
      <3>1. /\ server'[t].pos = server[t].pos
            /\ server'[t].at = "complete" => server[t].at = "complete"
        BY <2>3 DEF StepOf, Stays, Changes, Sends, TimesOut, Rejects, Attempt, Loses, Doubles
      <3>2. \/ down'[t] = down[t] \/ down'[t] = Append(down[t], server[t].pos)
            \/ \E k \in DOMAIN down[t] : \/ down'[t] = RemoveAt(down[t], k)
                                         \/ down'[t] = InsertAt(down[t], k, down[t][k])
        BY <2>3 DEF StepOf, Stays, Changes, Sends, TimesOut, Rejects, Attempt, Loses, Doubles
      <3>3. \/ back'[t] = back[t]
            \/ \E k \in DOMAIN back[t] : \/ back'[t] = RemoveAt(back[t], k)
                                         \/ back'[t] = InsertAt(back[t], k, back[t][k])
        BY <2>3 DEF StepOf, Stays, Changes, Sends, TimesOut, Rejects, Loses, Doubles
      <3>4. InTurn(down'[t], server[t].pos - 1, server[t].pos)
        BY <2>a, <2>b, <2>d, <3>2
      <3>5. InTurn(back'[t], Number(server[t].pos - 1), Number(server[t].pos))
        BY <2>a, <2>c, <3>3
      <3>6. \A j \in DOMAIN down'[t] :
              down'[t][j] = server[t].pos \/ \E i \in DOMAIN down[t] : down'[t][j] = down[t][i]
        BY <1>0, <3>2, PacketsOf
      <3>7. \A j \in DOMAIN back'[t] : \E i \in DOMAIN back[t] : back'[t][j] = back[t][i]
        BY <1>0, <3>3, PacketsOf
      <3> QED BY <1>2, <3>1, <3>4, <3>5, <3>6, <3>7, QuietSteady
    <2> QED BY <2>1, <2>2, <2>3
  <1> QED BY <1>1, <1>2, WhoTakes

\* What is stored is a prefix of the file after every step.
LEMMA PrefixStep ==
    ASSUME Types, Types', [Next]_vars, InOrder, StoredIsPrefix, Untouched,
           \A t \in Transfers : Steady(t)
    PROVE  StoredIsPrefix' /\ Untouched'
  <1>1. CASE got' = got /\ client'.takes = client.takes
    BY <1>1 DEF StoredIsPrefix, Untouched
  <1>2. CASE \E t \in Transfers : \E k \in DOMAIN down[t] :
               k <= Overtaking + 1 /\ ClientReceives(t, k)
    <2>1. PICK t \in Transfers : \E k \in DOMAIN down[t] :
            k <= Overtaking + 1 /\ ClientReceives(t, k)
      BY <1>2
    <2>2. PICK k \in DOMAIN down[t] : k <= Overtaking + 1 /\ ClientReceives(t, k)
      BY <2>1
    <2>3. k = 1
      <3>1. down[t] \in Seq(Blocks)
        BY Numbers
      <3> QED BY <2>2, <3>1, LenProperties DEF InOrder
    <2>4. StoredIsPrefix' /\ client'.takes = t
      BY <2>2, <2>3, TakesInTurn
    <2> QED BY <2>4, UndecidedAssumption DEF Untouched
  <1> QED BY <1>1, <1>2, OnlyReceivingStores

SteadyInv == InOrder => StoredIsPrefix /\ Untouched /\ \A t \in Transfers : Steady(t)

\* All of this holds throughout.
LEMMA SteadyHolds == Spec => []SteadyInv
  <1>1. Init => SteadyInv
    <2> SUFFICES ASSUME Init PROVE StoredIsPrefix /\ Untouched /\ \A t \in Transfers : Steady(t)
      BY DEF SteadyInv
    <2>1. /\ got = <<>> /\ client.takes = Undecided
          /\ \A t \in Transfers : /\ down[t] = <<>> /\ back[t] = <<>>
                                  /\ server[t].pos = 1 /\ server[t].at = "unused"
      BY DEF Init, NotStarted
    <2>2. \A q : q = <<>> => Len(q) = 0 /\ DOMAIN q = {}
      OBVIOUS
    <2> QED BY <2>1, <2>2, UndecidedAssumption DEF StoredIsPrefix, Untouched, Steady, InTurn
  <1>2. Types /\ SteadyInv /\ [Next]_vars => SteadyInv'
    <2> SUFFICES ASSUME Types, SteadyInv, [Next]_vars, InOrder
                 PROVE  StoredIsPrefix' /\ Untouched' /\ \A t \in Transfers : Steady(t)'
      BY DEF SteadyInv, InOrder
    <2>1. StoredIsPrefix /\ Untouched /\ \A t \in Transfers : Steady(t)
      BY DEF SteadyInv
    <2>2. Types' /\ \A t \in Transfers : StepOf(t)
      BY StepIsGood DEF Good
    <2>3. StoredIsPrefix' /\ Untouched'
      BY <2>1, <2>2, PrefixStep
    <2> QED BY <2>1, <2>2, <2>3, SteadyStep
  <1> QED BY <1>1, <1>2, TypesHold, PTL DEF Spec

\* On a network that keeps the order of packets, though it loses and repeats
\* them, a file of any length is stored in order and reported complete only
\* when all of it is (main.rs:510-536): the numbers may wrap around.
THEOREM LongFilesInOrder == InOrder /\ Spec => [](StoredIsPrefix /\ CompleteIsDelivered)
  <1>1. CASE InOrder
    <2>1. SteadyInv => StoredIsPrefix /\ CompleteIsDelivered
      BY <1>1 DEF SteadyInv, Steady, CompleteIsDelivered
    <2> QED BY <2>1, SteadyHolds, PTL
  <1>2. CASE ~InOrder
    BY <1>2
  <1> QED BY <1>1, <1>2

=============================================================================
