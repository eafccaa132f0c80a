----------------------------- MODULE MCXcalDevice -----------------------------
(* Instances of XcalDevice for TLC. *)
EXTENDS XcalDevice

One == CHOOSE c \in Client : TRUE

\* Every client uses the DiscoverFriendlies service.
Legacy == [c \in Client |-> "DiscoverFriendlies"]

\* Ids from the bus and a wait for the tuner; ids from the diag file and neither;
\* two clients and a route that changes, refactored or not; an IPv6 gateway whose
\* prefix and tuner come and go.
Confs ==
    { [ipv6 |-> FALSE, useGliDiag |-> TRUE, rmfCrshSupp |-> FALSE, disableTuneReady |-> FALSE,
       rfc_enabled |-> FALSE, varying |-> {"tune", "id", "tz", "dst"}, users |-> {One}],
      [ipv6 |-> FALSE, useGliDiag |-> FALSE, rmfCrshSupp |-> TRUE, disableTuneReady |-> TRUE,
       rfc_enabled |-> FALSE, varying |-> {"tune", "diag", "tz"}, users |-> {One}],
      [ipv6 |-> TRUE, useGliDiag |-> TRUE, rmfCrshSupp |-> FALSE, disableTuneReady |-> FALSE,
       rfc_enabled |-> TRUE, varying |-> {"tune", "prefix"}, users |-> {One}] }
    \cup { [ipv6 |-> FALSE, useGliDiag |-> TRUE, rmfCrshSupp |-> FALSE, disableTuneReady |-> TRUE,
             rfc_enabled |-> r, varying |-> {"id", "route"}, users |-> Client] : r \in BOOLEAN }
=============================================================================
