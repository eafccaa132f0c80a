----------------------------- MODULE IdmDiscovery -----------------------------
(***************************************************************************)
(* The inter-device manager library libupnpidm (src/src/idm_client.c,      *)
(* idm_server.c, idm_library.c): start_discovery announces this device and *)
(* looks for the others, keeps those of the same account in xdevlist and   *)
(* tells the caller of each; stop_discovery ends it, and the caller starts *)
(* it again.                                                               *)
(*                                                                         *)
(* As in Xdiscovery, a UPnP request of a build before GUPnP 1.2 runs a     *)
(* nested main loop, so callbacks are activations on a stack.  Here an     *)
(* activation that waits is always an available callback.  The accountId   *)
(* of the client is the one the server half answers with: both files       *)
(* define the same common symbol.                                          *)
(*                                                                         *)
(* Addresses and MACs are left out: the properties are about which devices *)
(* are listed and reported.                                                *)
(***************************************************************************)
EXTENDS Integers, Sequences

CONSTANTS
    Dev,            \* serial numbers of the devices on the network
    Self,           \* ownSerialNo: the device itself is announced, too
    Account,        \* the account each device belongs to
    Builds,         \* the builds and environments, one of which is run
    MaxDepth,       \* bound: activations
    MaxEvents       \* bound: network events, and calls of stop_discovery

Unknown == "unknown"    \* the account id of a device not yet provisioned
Empty == ""             \* accountId after a failed read

Answers == {Account[d] : d \in Dev} \cup {Unknown, Empty}

ASSUME IdmAssumption ==
    /\ Dev \subseteq Nat /\ Self \in Dev
    /\ DOMAIN Account = Dev
    /\ \A d \in Dev : Account[d] \notin {Unknown, Empty}
    /\ Builds \subseteq [IdmDebug : BOOLEAN, Reentrant : BOOLEAN, ReadsFail : BOOLEAN]
    /\ MaxDepth \in Nat /\ MaxEvents \in Nat

\* IdmDebug: build flag IDM_DEBUG, no account and no TLS.  Reentrant: the build is
\* not GUPNP_1_2.  ReadsFail: reading the account id may fail, here and elsewhere.
VARIABLES
    build,
    up,             \* devices on the network
    provisioned,    \* devices that know their account
    cache,          \* resources that the browser of the control point knows of
    events,         \* network events so far
    phase,          \* where start_discovery is
    active,         \* the control point was created
    accountId,
    stack,          \* the devices whose available callbacks wait, newest last
    deviceAddNo,
    xdevlist,       \* the sorted list: serial numbers
    reported,       \* the devices the caller knows, from the callbacks it got
    idm_upnp_restart_triggered,
    quitting,       \* g_main_loop_quit was called
    vpc             \* verify_devices: "none" before it is started

net    == <<build, up, provisioned, events>>
global == <<phase, active, idm_upnp_restart_triggered, quitting>>
vars   == <<net, cache, global, accountId, stack, deviceAddNo, xdevlist, reported, vpc>>

Listed == {xdevlist[i] : i \in DOMAIN xdevlist}

\* What getAccountId leaves in a zeroed buffer on device d.
Reads(d) ==
    {IF d \in provisioned THEN Account[d] ELSE Unknown} \cup (IF build.ReadsFail THEN {Empty} ELSE {})

Init ==
    /\ build \in Builds
    /\ up = Dev
    /\ provisioned \in {Dev, Dev \ {Self}}
    /\ cache = {}
    /\ events = 0
    /\ phase = "account"
    /\ active = FALSE
    /\ accountId = Empty
    /\ stack = <<>>
    /\ deviceAddNo = 0
    /\ xdevlist = <<>>
    /\ reported = {}
    /\ idm_upnp_restart_triggered = FALSE
    /\ quitting = FALSE
    /\ vpc = "none"

-----------------------------------------------------------------------------
(* The network. *)

PowerToggle(d) ==
    /\ events < MaxEvents
    /\ events' = events + 1
    /\ up' = IF d \in up THEN up \ {d} ELSE up \cup {d}
    /\ UNCHANGED <<build, provisioned, cache, global, accountId, stack, deviceAddNo, xdevlist,
                   reported, vpc>>

Provision(d) ==
    /\ provisioned' = provisioned \cup {d}
    /\ d \notin provisioned
    /\ UNCHANGED <<build, up, events, cache, global, accountId, stack, deviceAddNo, xdevlist,
                   reported, vpc>>

-----------------------------------------------------------------------------
(* start_discovery and stop_discovery. *)

\* The account id is read until it is not "unknown" (memset, getAccountId).
ReadAccount ==
    /\ phase = "account"
    /\ IF build.IdmDebug
         THEN phase' = "server" /\ UNCHANGED accountId
         ELSE /\ accountId' \in Reads(Self)
              /\ phase' = IF accountId' = Unknown THEN "account" ELSE "server"
    /\ UNCHANGED <<net, cache, active, idm_upnp_restart_triggered, quitting, stack,
                   deviceAddNo, xdevlist, reported, vpc>>

\* In the secure build certificates that are missing or a context that is not
\* created leave the server half inactive, and the control point too (a server
\* half that is active alone finds nothing); in the debug build start_discovery
\* returns on such an error, and the caller calls it again.
idm_server_start ==
    \/ active' = TRUE /\ phase' = "run"
    \/ active' = FALSE /\ phase' = IF build.IdmDebug THEN "account" ELSE "run"

\* The server half, then the control point and, the first time, the
\* verify_devices thread.
StartServer ==
    /\ phase = "server"
    /\ idm_server_start
    /\ quitting' = FALSE
    /\ vpc' = IF phase' = "run" /\ ~idm_upnp_restart_triggered THEN "check" ELSE vpc
    /\ UNCHANGED <<net, cache, idm_upnp_restart_triggered, accountId, stack, deviceAddNo,
                   xdevlist, reported>>

\* stop_discovery, on another thread.
StopDiscovery ==
    /\ phase = "run"
    /\ ~quitting
    /\ events < MaxEvents
    /\ events' = events + 1
    /\ idm_upnp_restart_triggered' = TRUE
    /\ quitting' = TRUE
    /\ UNCHANGED <<build, up, provisioned, cache, phase, active, accountId, stack, deviceAddNo,
                   xdevlist, reported, vpc>>

\* g_main_loop_run returns: the nested loops have ended before.
LoopBroken ==
    /\ phase = "run"
    /\ quitting
    /\ stack = <<>>
    /\ phase' = "flush"
    /\ UNCHANGED <<net, cache, active, idm_upnp_restart_triggered, quitting, accountId,
                   stack, deviceAddNo, xdevlist, reported, vpc>>

\* Mutant: the list is left as it is.
MutRemoveEntries == xdevlist

\* remove_entries_in_list: the link of the first entry is taken out of the list
\* before its successor is asked for; it has none, so one entry is removed.
remove_entries_in_list == IF xdevlist = <<>> THEN <<>> ELSE Tail(xdevlist)

\* free_server_memory and remove_entries_in_list; the caller starts discovery
\* again.
Cleanup ==
    /\ phase = "flush"
    /\ cache = {}
    /\ xdevlist' = remove_entries_in_list
    /\ active' = FALSE
    /\ phase' = "account"
    /\ UNCHANGED <<net, cache, idm_upnp_restart_triggered, quitting, accountId, stack,
                   deviceAddNo, reported, vpc>>

-----------------------------------------------------------------------------
(* The callbacks. *)

\* The main loop runs, at the bottom or nested in a request.
CanDispatch ==
    /\ phase = "run" /\ active
    /\ \/ stack = <<>> /\ ~quitting
       \/ build.Reentrant /\ stack # <<>> /\ Len(stack) < MaxDepth

\* Mutant: the return for a listed device does not count down.
MutIgnore == deviceAddNo' = deviceAddNo + 1 /\ UNCHANGED stack

\* A device is ignored: counted up and down again.
Ignore == UNCHANGED <<deviceAddNo, stack>>

\* device_proxy_available_cb_bgw, or device_proxy_available_cb, up to its first
\* request.  It returns for a listed device, and without a serial number, a
\* usable UDN or a service proxy.
Available(d) ==
    /\ CanDispatch
    /\ events < MaxEvents
    /\ d \in up \ cache
    /\ events' = events + 1
    /\ cache' = cache \cup {d}
    /\ \/ Ignore
       \/ /\ d \notin Listed
          /\ stack' = Append(stack, d)
          /\ deviceAddNo' = deviceAddNo + 1
    /\ UNCHANGED <<build, up, provisioned, global, accountId, xdevlist, reported, vpc>>

\* Mutant: the account ids are not compared.
MutAccepted(answer) == build.IdmDebug \/ answer # Unknown

\* An account id has digits only, which an empty one has; and it is the one of
\* this device.
Accepted(answer) == build.IdmDebug \/ (answer # Unknown /\ answer = accountId)

\* g_list_insert_sorted_with_data: before the first entry that is not less.
Insert(d) ==
    \E k \in 1..(Len(xdevlist) + 1) :
      /\ \A i \in 1..(k-1) : xdevlist[i] < d
      /\ \A i \in k..Len(xdevlist) : d <= xdevlist[i]
      /\ xdevlist' = SubSeq(xdevlist, 1, k - 1) \o <<d>> \o SubSeq(xdevlist, k, Len(xdevlist))

\* The requests of the newest activation are answered or have failed; without
\* an answer to GetAccountId nothing is inserted.  The device is inserted and
\* reported without another look at the list.
Replied ==
    /\ stack # <<>>
    /\ LET d == stack[Len(stack)]
       IN \/ \E answer \in Reads(d) :
               IF Accepted(answer)
                 THEN Insert(d) /\ reported' = reported \cup {d}
                 ELSE UNCHANGED <<xdevlist, reported>>
          \/ ~build.IdmDebug /\ UNCHANGED <<xdevlist, reported>>
    /\ stack' = SubSeq(stack, 1, Len(stack) - 1)
    /\ deviceAddNo' = deviceAddNo - 1
    /\ UNCHANGED <<net, cache, global, accountId, vpc>>

\* Mutant: the comparison with the own serial number is inverted.
MutNotRemoved(d) == d # Self

\* "Self Device not removing".
NotRemoved(d) == d = Self

\* device_proxy_unavailable_cb_bgw and delete_gwyitem: the first entry of the
\* device is removed, and the caller told.
Unavailable(d) ==
    /\ d \in cache
    /\ cache' = cache \ {d}
    /\ IF NotRemoved(d) \/ d \notin Listed
         THEN UNCHANGED <<xdevlist, reported>>
         ELSE /\ \E k \in DOMAIN xdevlist :
                   /\ xdevlist[k] = d
                   /\ \A i \in 1..(k-1) : xdevlist[i] # d
                   /\ xdevlist' = SubSeq(xdevlist, 1, k - 1)
                                  \o SubSeq(xdevlist, k + 1, Len(xdevlist))
              /\ reported' = reported \ {d}
    /\ UNCHANGED <<build, up, provisioned, global, accountId, stack, deviceAddNo, vpc>>

\* A byebye message arrives.
ByeBye(d) ==
    /\ CanDispatch
    /\ events < MaxEvents
    /\ events' = events + 1
    /\ Unavailable(d)

\* The announcements of a device that is off the network expire.
Expire(d) ==
    /\ CanDispatch
    /\ d \notin up
    /\ Unavailable(d)
    /\ UNCHANGED events

\* Mutant: nothing is done for the devices known when the browser is stopped.
MutFlush(d) ==
    /\ phase = "flush"
    /\ d \in cache
    /\ cache' = cache \ {d}
    /\ UNCHANGED <<net, global, accountId, stack, deviceAddNo, xdevlist, reported, vpc>>

\* set_active(FALSE): "emit unavailable signal for the resource connected
\* devices", one after the other.
Flush(d) ==
    /\ phase = "flush"
    /\ Unavailable(d)
    /\ UNCHANGED events

\* Another device asks for the account id: get_account_id_cb reads it again.
GetAccountId ==
    /\ CanDispatch
    /\ ~build.IdmDebug
    /\ accountId' \in Reads(Self)
    /\ UNCHANGED <<net, cache, global, stack, deviceAddNo, xdevlist, reported, vpc>>

-----------------------------------------------------------------------------
(* verify_devices: started once, it outlives the restarts. *)

VerifyCheck ==
    /\ vpc = "check"
    /\ deviceAddNo = 0
    /\ vpc' = "rescan"
    /\ UNCHANGED <<net, cache, global, accountId, stack, deviceAddNo, xdevlist, reported>>

VerifyRescan ==
    /\ vpc = "rescan"
    /\ vpc' = "check"
    /\ UNCHANGED <<net, cache, global, accountId, stack, deviceAddNo, xdevlist, reported>>

-----------------------------------------------------------------------------
MainStep ==
    ReadAccount \/ StartServer \/ LoopBroken \/ Cleanup \/ Replied \/ \E d \in Dev : Flush(d)

Expiry == \E d \in Dev : Expire(d)

Verify == VerifyCheck \/ VerifyRescan

Next ==
    \/ \E d \in Dev : PowerToggle(d) \/ Provision(d) \/ Available(d) \/ ByeBye(d)
    \/ StopDiscovery
    \/ GetAccountId
    \/ MainStep
    \/ Expiry
    \/ Verify

Spec == Init /\ [][Next]_vars

\* The threads are scheduled, requests are answered or time out, and the
\* announcements of a device that is gone expire.
FairSpec == Spec /\ WF_vars(MainStep) /\ WF_vars(Expiry) /\ WF_vars(Verify)

-----------------------------------------------------------------------------
(* Properties. *)

\* Every variable has its type.
TypeOK ==
    /\ build \in Builds
    /\ up \subseteq Dev /\ provisioned \subseteq Dev /\ cache \subseteq Dev
    /\ events \in 0..MaxEvents
    /\ phase \in {"account", "server", "run", "flush"}
    /\ active \in BOOLEAN
    /\ accountId \in Answers
    /\ stack \in Seq(Dev)
    /\ deviceAddNo \in Nat
    /\ xdevlist \in Seq(Dev)
    /\ reported \subseteq Dev
    /\ idm_upnp_restart_triggered \in BOOLEAN /\ quitting \in BOOLEAN
    /\ vpc \in {"none", "check", "rescan"}

\* deviceAddNo counts the additions in progress, nested in one another, and
\* returns to 0 with the last: verify_devices rescans when it reads 0.
AddCountExact == deviceAddNo = Len(stack)

\* Only devices of this device's account enter the list, whenever either side
\* learns its account and whoever asks for it meanwhile: but for those whose read
\* failed when this device's had failed, too.
SameAccountOnly ==
    [][ \A d \in Listed' \ Listed :
          build.IdmDebug \/ Account[d] = Account[Self] \/ accountId = Empty ]_vars

\* Where requests block, a session starts with an empty list, although
\* remove_entries_in_list removes one entry only: what the flush leaves is the
\* device itself.
SessionStartsEmpty ==
    ~build.Reentrant /\ phase \in {"account", "server"} => xdevlist = <<>>

\* Where requests block, the caller knows the listed devices and no others: but
\* for this device itself, which leaves with the session without a report.
ReportedListed == ~build.Reentrant => reported \ {Self} = Listed \ {Self}

\* Where requests block, a device that has left for good is reported as gone.
LeftReported ==
    ~build.Reentrant => \A d \in Dev \ {Self} : [](d \notin up => <>(d \in up \/ d \notin reported))
=============================================================================
