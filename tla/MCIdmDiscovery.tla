---------------------------- MODULE MCIdmDiscovery ----------------------------
(* Instances of IdmDiscovery for TLC. *)
EXTENDS IdmDiscovery

\* Device 3 belongs to another account.
TwoAccounts == [d \in Dev |-> IF d = 3 THEN "200" ELSE "100"]

\* Nested main loops; blocking requests, with reads that fail; no accounts.
ThreeBuilds ==
    { [IdmDebug |-> FALSE, Reentrant |-> TRUE, ReadsFail |-> FALSE],
      [IdmDebug |-> FALSE, Reentrant |-> FALSE, ReadsFail |-> TRUE],
      [IdmDebug |-> TRUE, Reentrant |-> FALSE, ReadsFail |-> FALSE] }
=============================================================================
