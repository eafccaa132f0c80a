---------------------------- MODULE MCDpWhitelist ----------------------------
(* Instances of DpWhitelist for TLC. *)
EXTENDS DpWhitelist

\* With 8 slots, 1 has a slot of its own, 2 and 9 share slot 1, and 4 has slot
\* 3.  Devices 1 and 2 may both have 2, and device 3 collides with them.
MixedLeases == [d \in Dev |-> CASE d = 1 -> {1, 2} [] d = 2 -> {2, 4} [] d = 3 -> {9}]

\* Device 2 may change its MAC, to that of device 1.
MixedMacs == [d \in Dev |-> CASE d = 1 -> {1} [] d = 2 -> {1, 2} [] d = 3 -> {2}]

\* 2 and 9 both hash to slot 1.
CollidingLeases == [d \in Dev |-> IF d = 1 THEN {2} ELSE {9}]

TwoMacs == [d \in Dev |-> {1, 2}]
=============================================================================
