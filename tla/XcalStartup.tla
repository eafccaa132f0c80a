----------------------------- MODULE XcalStartup ------------------------------
(***************************************************************************)
(* main of src/xcal-device-main.c: how the device description files, the   *)
(* refactoring switch and the certificates decide what xcal-device         *)
(* announces.  It announces the basic device always, and the protected     *)
(* device when refactoring is enabled; a third one, the RemoteUI server    *)
(* (CVP2), follows where it is configured.  The UPC in the basic           *)
(* description ("10000") tells a refactored xdiscovery that there is a     *)
(* protected device to use instead.                                        *)
(*                                                                         *)
(* systemd starts the process again whenever it ends.  The description     *)
(* files outlive it: updatexmldata empties a file and then writes it.      *)
(***************************************************************************)
EXTENDS Naturals

CONSTANT
    MaxCrashes          \* bound: crashes, failed writes and failed starts

ASSUME CrashAssumption == MaxCrashes \in Nat

Doc == {"basic", "protected", "cvp"}

VARIABLES
    pc,
    rfc_enabled,
    certs,          \* certificate, key and CA files exist
    context,        \* the protected context can be created
    doc,            \* the UPC in each description file, or "torn"
    file,           \* the description being written
    announced,      \* the root devices available on the network
    crashes

vars == <<pc, rfc_enabled, certs, context, doc, file, announced, crashes>>

Init ==
    /\ pc = "down"
    /\ rfc_enabled = FALSE
    /\ certs \in BOOLEAN
    /\ context \in BOOLEAN
    /\ doc \in [Doc -> {"", "10000"}]
    /\ file = "basic"
    /\ announced = {}
    /\ crashes = 0

\* The process ends: everything but the files is lost.
Down ==
    /\ pc' = "down"
    /\ announced' = {}
    /\ UNCHANGED <<rfc_enabled, certs, context, file>>

\* check_rfc: the switch, the files and the network may have changed since the
\* last start.
Start ==
    /\ pc = "down"
    /\ rfc_enabled' \in BOOLEAN
    /\ certs' \in BOOLEAN
    /\ context' \in BOOLEAN
    /\ pc' = "open"
    /\ file' = "basic"
    /\ UNCHANGED <<doc, announced, crashes>>

\* updatexmldata reads the description and opens it for writing, which empties
\* it.  One that cannot be read ends the process.
Open ==
    /\ pc = "open"
    /\ IF doc[file] = "torn"
       THEN Down /\ UNCHANGED <<doc, crashes>>
       ELSE /\ pc' = "dump"
            /\ doc' = [doc EXCEPT ![file] = "torn"]
            /\ UNCHANGED <<rfc_enabled, certs, context, file, announced, crashes>>

\* Mutant: the UPC is left empty.
MutUPC == ""

UPC == IF rfc_enabled THEN "10000" ELSE ""

\* The description is written.  What follows depends on which one it is, and on
\* whether the basic device is there already.
Dump ==
    /\ pc = "dump"
    /\ doc' = [doc EXCEPT ![file] = UPC]
    /\ pc' = CASE file = "protected" -> "secure"
               [] file = "cvp" -> "cvp"
               [] file = "basic" /\ announced = {} -> "announce"
               [] file = "basic" /\ announced # {} -> "serve"
    /\ UNCHANGED <<rfc_enabled, certs, context, file, announced, crashes>>

\* Broadcast context and basic root device.
Announce ==
    /\ pc = "announce"
    /\ announced' = {"basic"}
    /\ pc' = IF rfc_enabled THEN "certs" ELSE "serve"
    /\ UNCHANGED <<rfc_enabled, certs, context, doc, file, crashes>>

\* Mutant: without certificates the process ends.
MutCertificates ==
    /\ pc = "certs"
    /\ IF certs
       THEN /\ pc' = "open" /\ file' = "protected"
            /\ UNCHANGED <<rfc_enabled, certs, context, doc, announced, crashes>>
       ELSE Down /\ UNCHANGED <<doc, crashes>>

\* Mutant: without certificates the description is not written again.
MutNoRewrite ==
    /\ pc = "certs"
    /\ IF certs
       THEN pc' = "open" /\ file' = "protected" /\ UNCHANGED rfc_enabled
       ELSE pc' = "serve" /\ rfc_enabled' = FALSE /\ UNCHANGED file
    /\ UNCHANGED <<certs, context, doc, announced, crashes>>

\* "continuing with older xcal": without certificates the basic description is
\* written again, with refactoring off.
Certificates ==
    /\ pc = "certs"
    /\ pc' = "open"
    /\ IF certs
       THEN file' = "protected" /\ UNCHANGED rfc_enabled
       ELSE file' = "basic" /\ rfc_enabled' = FALSE
    /\ UNCHANGED <<certs, context, doc, announced, crashes>>

\* The protected context: an error is logged, no more.
Secure ==
    /\ pc = "secure"
    /\ pc' = "serve"
    /\ announced' = IF context THEN announced \cup {"protected"} ELSE announced
    /\ UNCHANGED <<rfc_enabled, certs, context, doc, file, crashes>>

\* The callbacks are connected.  Without CVP2 the main loop runs; otherwise the
\* third description is updated, unless the device has no MAC address to put in.
Serve ==
    /\ pc = "serve"
    /\ \/ pc' = "up" /\ UNCHANGED file
       \/ pc' = "open" /\ file' = "cvp"
       \/ pc' = "cvp" /\ UNCHANGED file
    /\ UNCHANGED <<rfc_enabled, certs, context, doc, announced, crashes>>

\* The RemoteUI server is announced, and the main loop runs.
Cvp ==
    /\ pc = "cvp"
    /\ pc' = "up"
    /\ announced' = announced \cup {"cvp"}
    /\ UNCHANGED <<rfc_enabled, certs, context, doc, file, crashes>>

\* The process is killed, or exits because a description cannot be written, the
\* context of the basic device or of the RemoteUI server cannot be created, or one
\* of the two lacks its service.
Crash ==
    /\ pc # "down"
    /\ crashes < MaxCrashes
    /\ crashes' = crashes + 1
    /\ Down
    /\ UNCHANGED doc

Process == Start \/ Open \/ Dump \/ Announce \/ Certificates \/ Secure \/ Serve \/ Cvp

Next == Process \/ Crash

Spec == Init /\ [][Next]_vars

\* systemd restarts the process, and the process runs.
FairSpec == Spec /\ WF_vars(Process)

-----------------------------------------------------------------------------
\* A protected device is never announced beside a basic one that a refactored
\* xdiscovery would list too, whatever an earlier start left in the files.
ProtectedIsMarked == "protected" \in announced => doc["basic"] = "10000"

\* A device that is up is listed by a refactored xdiscovery: as the protected
\* device, or, "continuing with older xcal", as a basic one that is not marked;
\* provided that a protected context can be created.
Reachable == pc = "up" /\ context => "protected" \in announced \/ doc["basic"] # "10000"

Torn == \E f \in Doc : doc[f] = "torn"

\* Whatever the switch, the certificates and the context are, and wherever
\* earlier starts were cut short, the device comes up for good once nothing kills
\* it: unless the process ended between the two halves of updatexmldata's write.
ComesUp == [](pc = "down" => ~Torn) => <>[](pc = "up")
=============================================================================
