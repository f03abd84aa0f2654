-------------------------- MODULE MC_HivebusCluster -------------------------
(***************************************************************************)
(* Model-checking instances of HivebusCluster.                             *)
(***************************************************************************)
EXTENDS HivebusCluster

MCAddrs == {Udp(h) : h \in Ids} \cup {Ctl(h) : h \in Ids}
MCIncs == 1 .. 3

\* Start times as they should be, and start times between which the u32
\* counter of milliseconds has wrapped.
Monotone == {<<1, 2>>}
Wrapping == {<<2, 1>>}
MaybeWrapping == Monotone \cup Wrapping

\* Every host starts once, those in Restarting once more.
CONSTANT Restarting

MCMaxStarts == [h \in Ids |-> IF h \in Restarting THEN 2 ELSE 1]
=============================================================================
