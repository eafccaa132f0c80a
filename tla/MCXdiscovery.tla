----------------------------- MODULE MCXdiscovery -----------------------------
(* Instances of Xdiscovery for TLC. *)
EXTENDS Xdiscovery

\* This device is a broadband gateway, other gateways are video gateways,
\* the rest are renderers.
RefactoredCp ==
    [d \in Dev |-> IF d = Self THEN "bgw" ELSE IF d \in Gateways THEN "gw" ELSE "client"]
=============================================================================
