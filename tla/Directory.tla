------------------------------ MODULE Directory -------------------------------
(***************************************************************************)
(* What the discovery daemon promises those who read the published list    *)
(* (outputcontents, the output file, the IARM call), without its callbacks,*)
(* main loops and pointers: a directory of devices that changes one device *)
(* at a time, and publishes every change before it makes the next one.     *)
(* Only the device itself is never taken out for good.                     *)
(***************************************************************************)
CONSTANTS
    Dev,            \* serial numbers
    Val,            \* attribute values
    Self            \* the device itself

VARIABLES
    dir,            \* the directory: at most one entry for a device
    published,      \* the last published one
    replacing       \* the device whose entry is being made, if there is one

dvars == <<dir, published, replacing>>

DirInit ==
    /\ dir = {}
    /\ published = {}
    /\ replacing = {}

Others(d) == {e \in dir : e.sno # d}

Known(d) == \E e \in dir : e.sno = d

\* Everything that was changed has been published.
Clean == replacing = {} /\ published = dir

\* update_gwylist: the entry of the device, if there is one, gives way ...
Prepare(d) ==
    /\ Clean
    /\ dir' = Others(d)
    /\ replacing' = {d}
    /\ UNCHANGED published

\* ... to the new one.
Enter(d, v) ==
    /\ replacing = {d}
    /\ dir' = dir \cup {[sno |-> d, val |-> v]}
    /\ replacing' = {}
    /\ UNCHANGED published

\* on_last_change and the refreshed prefix: an attribute changes.
Update(d, v) ==
    /\ Clean
    /\ Known(d)
    /\ dir' = Others(d) \cup {[sno |-> d, val |-> v]}
    /\ UNCHANGED <<published, replacing>>

\* delete_gwyitem for a device that has left: never for the device itself.
Drop(d) ==
    /\ d # Self
    /\ Clean
    /\ Known(d)
    /\ dir' = Others(d)
    /\ UNCHANGED <<published, replacing>>

\* sendDiscoveryResult: the whole directory, never a part of a change.
Publish ==
    /\ replacing = {}
    /\ published' = dir
    /\ UNCHANGED <<dir, replacing>>

\* The process starts again.
Restart ==
    /\ dir' = {}
    /\ published' = {}
    /\ replacing' = {}

DirNext ==
    \/ \E d \in Dev : Prepare(d) \/ Drop(d)
    \/ \E d \in Dev, v \in Val : Enter(d, v) \/ Update(d, v)
    \/ Publish
    \/ Restart

DirSpec == DirInit /\ [][DirNext]_dvars
=============================================================================
