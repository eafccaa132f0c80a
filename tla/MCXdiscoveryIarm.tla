--------------------------- MODULE MCXdiscoveryIarm ---------------------------
(* The instance of XdiscoveryIarm for TLC. *)
EXTENDS XdiscoveryIarm

\* No device is refactored; every device is announced as BasicDevice only.
LegacyCp == [d \in Dev |-> "basic"]

\* An entry takes two bytes, and one more if its attribute has the longer value.
Bytes(text) == 2 * Cardinality(text) + Cardinality({e \in text : e.val = 1})
=============================================================================
