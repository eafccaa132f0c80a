-------------------------------- MODULE IdmWan --------------------------------
(***************************************************************************)
(* EventHandler of src/src/idm_client.c: the thread that follows           *)
(* "wan-status" in sysevent and chooses the certificate checks of gupnp.   *)
(* Without a WAN there is no time of day, so validity periods are not      *)
(* checked ("relaxed", 0x0010) until it has started ("full", 0x001C).      *)
(* sysevent queues a notification for every change after                   *)
(* sysevent_setnotification.                                               *)
(***************************************************************************)
EXTENDS Naturals, Sequences

CONSTANTS
    MaxChanges      \* bound: changes of the status

Status == {"stopped", "starting", "started"}

ASSUME ChangesAssumption == MaxChanges \in Nat

VARIABLES
    wan,            \* the value of wan-status
    changes,        \* how often it has changed
    registered,     \* sysevent notifies this client
    queue,          \* notifications not yet received
    pc,
    flags           \* the argument of the last gupnp_set_cert_flags

vars == <<wan, changes, registered, queue, pc, flags>>

Init ==
    /\ wan \in Status
    /\ changes = 0
    /\ registered = FALSE
    /\ queue = <<>>
    /\ pc = "connect"
    /\ flags = "default"

\* External: the status changes.
Change(s) ==
    /\ s # wan
    /\ changes < MaxChanges
    /\ changes' = changes + 1
    /\ wan' = s
    /\ queue' = IF registered THEN Append(queue, s) ELSE queue
    /\ UNCHANGED <<registered, pc, flags>>

\* s_sysevent_connect and sysevent_setnotification, tried until they succeed.
SetNotification ==
    /\ pc = "connect"
    /\ \/ registered' = TRUE /\ pc' = "get"
       \/ UNCHANGED <<registered, pc>>
    /\ UNCHANGED <<wan, changes, queue, flags>>

\* sysevent_get: a failure ends the thread, and so does any status but
\* "stopped".
Get ==
    /\ pc = "get"
    /\ \/ wan = "stopped" /\ pc' = "listen" /\ flags' = "relaxed"
       \/ pc' = "done" /\ UNCHANGED flags
    /\ UNCHANGED <<wan, changes, registered, queue>>

\* Mutant: the loop goes on after "started".
MutListen ==
    /\ pc = "listen"
    /\ queue # <<>>
    /\ queue' = Tail(queue)
    /\ flags' = CASE Head(queue) = "started" -> "full"
                 [] Head(queue) = "stopped" -> "relaxed"
                 [] OTHER -> flags
    /\ UNCHANGED <<wan, changes, registered, pc>>

\* EventListen and the loop around it: "started" sets the full checks, renews
\* the certificates and ends the thread.
Listen ==
    /\ pc = "listen"
    /\ queue # <<>>
    /\ queue' = Tail(queue)
    /\ \/ Head(queue) = "started" /\ flags' = "full" /\ pc' = "done"
       \/ Head(queue) = "stopped" /\ flags' = "relaxed" /\ UNCHANGED pc
       \/ Head(queue) = "starting" /\ UNCHANGED <<flags, pc>>
    /\ UNCHANGED <<wan, changes, registered>>

\* Mutant: the status is read before the notification is asked for.
MutHandler ==
    \/ /\ pc = "connect"
       /\ \/ wan = "stopped" /\ pc' = "get" /\ flags' = "relaxed"
          \/ pc' = "done" /\ UNCHANGED flags
       /\ UNCHANGED <<wan, changes, registered, queue>>
    \/ /\ pc = "get"
       /\ registered' = TRUE /\ pc' = "listen"
       /\ UNCHANGED <<wan, changes, queue, flags>>
    \/ Listen

\* One step of the thread.
Handler == SetNotification \/ Get \/ Listen

Next == Handler \/ \E s \in Status : Change(s)

Spec == Init /\ [][Next]_vars

\* The thread is scheduled, and sysevent answers in the end.
FairSpec == Spec /\ WF_vars(Handler)

-----------------------------------------------------------------------------
\* A WAN that comes up and stays up ends the relaxed checks, whenever it does so
\* in the course of the thread's start: no change is lost between reading the
\* status and waiting for notifications.
FullOnceUp == <>[](wan = "started") => <>[](flags # "relaxed")

\* Once chosen, the full checks stay: a later "stopped" reaches nobody.
FullStays == [][ flags = "full" => flags' = "full" ]_flags
=============================================================================
