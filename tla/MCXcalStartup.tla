---------------------------- MODULE MCXcalStartup -----------------------------
(* XcalStartup on a broadband gateway, for TLC. *)
EXTENDS XcalBroadband

\* A client that may have the gateway's account, and one that could not read its own.
Accounts == [c1 |-> "A", c2 |-> Empty]
Clients == DOMAIN Accounts
=============================================================================
