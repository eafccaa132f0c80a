-------------------------- MODULE XdiscoveryDirectory --------------------------
(***************************************************************************)
(* The discovery daemon implements the directory of Directory, in the      *)
(* builds where only the main thread runs callbacks (~ClientXcalServer).   *)
(***************************************************************************)
EXTENDS Xdiscovery

\* The main thread is between the lookup or the removal of an entry of the
\* device and the insertion of the new one.
Replacing == IF At("main", "insert") THEN {Top("main").dev} ELSE {}

Dir == INSTANCE Directory WITH dir <- Contents, published <- outputcontents,
                               replacing <- Replacing

\* However callbacks nest, and whatever requests fail: the list changes one device
\* at a time, every change of it is published, whole, before the next, and only a
\* restart takes this device off it.
ImplementsDirectory == Dir!DirSpec
=============================================================================
