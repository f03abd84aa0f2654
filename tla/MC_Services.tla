---------------------------- MODULE MC_Services -----------------------------
(***************************************************************************)
(* The model-checking instance of Services.                                *)
(***************************************************************************)
EXTENDS Services

\* One name with two addresses.
CONSTANT Web

MCDnsRecords == [name : {Web}, addr : {"a1", "a2"}]

\* A rule, of which two may be added for one address, one for an address that
\* is taken, and one for an address that overlaps the first.
MCProxyRules == [listen : {"l1", "l2", "l3"}, target : {"t1"}]
=============================================================================
