------------------------------ MODULE Xdiscovery ------------------------------
(***************************************************************************)
(* The discovery daemon of src/src/xdiscovery.c: the list of discovered    *)
(* devices (xdevlist), the callbacks of its four UPnP control points, the  *)
(* publication of the list as JSON (outputcontents), and the               *)
(* verify_devices thread.                                                  *)
(*                                                                         *)
(* Callbacks run on the GLib main loop.  A callback that sends a UPnP      *)
(* action waits for the answer; before GUPnP 1.2 that wait runs a nested   *)
(* main loop, so other callbacks run to completion inside it.  The main    *)
(* thread is therefore a stack of activations (frames).  verify_devices    *)
(* runs callbacks too: deactivating a resource browser makes gssdp report  *)
(* every cached resource as gone, on the calling thread.                   *)
(*                                                                         *)
(* Devices are identified with their serial numbers, compared as numbers.  *)
(* The attributes of a device (urls, addresses, time zone...) are one      *)
(* value: the properties only tell "the same" from "changed".              *)
(***************************************************************************)
EXTENDS Integers, Sequences, FiniteSets

CONSTANTS
    Dev,              \* serial numbers of the devices on the network
    Self,             \* ownSerialNo
    Gateways,         \* the devices that answer GetIsGateway with true
    RefCp,            \* the refactored control point a device is announced on
    Val,              \* attribute values
    rfc_enabled,      \* device protection is on: the refactored ones exist
    ClientXcalServer, \* build flag CLIENT_XCAL_SERVER
    Broadband,        \* build flag BROADBAND
    Reentrant,        \* the build is not GUPNP_1_2: requests nest the main loop
    MayFail,          \* requests and library calls may fail
    MaxDepth,         \* bound: activations on the main thread
    MaxEvents,        \* bound: network events
    SelfFailLimit     \* 20 in the code

Cp == {"basic", "client", "gw", "bgw"}

ASSUME DevAssumption ==
    /\ Dev \subseteq Nat
    /\ IsFiniteSet(Dev)
    /\ Self \in Dev
    /\ Gateways \subseteq Dev
    /\ RefCp \in [Dev -> Cp]    \* "basic": not refactored
    /\ Val # {}

ASSUME FlagAssumption ==
    /\ rfc_enabled \in BOOLEAN /\ ClientXcalServer \in BOOLEAN
    /\ Broadband \in BOOLEAN /\ Reentrant \in BOOLEAN /\ MayFail \in BOOLEAN
    /\ MaxDepth \in Nat
    /\ MaxEvents \in Nat
    /\ SelfFailLimit \in Nat

VARIABLES
    up,            \* devices on the network
    cache,         \* resources each control point's browser knows of
    subscribed,    \* devices whose change events reach on_last_change
    events,        \* network events so far
    xdevlist,      \* the sorted list of devices
    outputcontents,             \* the last published list
    stack,                      \* activations on each thread, newest last
    deviceAddNo,                \* additions in progress, as the code counts
    partialDiscovery,
    gatewayDetected,
    selfDeviceDiscovered,
    selfDiscoveryFailCount,
    restartFile,                \* RESTART_XDISCOVERY_FILE exists
    browserDisableEnableCounter,
    vpc,                        \* where verify_devices is
    torn                        \* a lookup or a removal has met an unlinked entry

net   == <<up, cache, subscribed, events>>
flags == <<deviceAddNo, partialDiscovery, gatewayDetected, selfDeviceDiscovered>>
watch == <<selfDiscoveryFailCount, restartFile, browserDisableEnableCounter, vpc>>
vvars == <<watch, torn>>
vars  == <<net, xdevlist, outputcontents, stack, flags, vvars>>

-----------------------------------------------------------------------------
(* Entries, activations and the helpers that read the list. *)

Thread == {"main", "verify"}

Entry == [sno : Dev, val : Val]

\* An activation: the callback (an available callback that found its device
\* in the list is a "refresh"), the device, the place it has reached, the
\* value it has read, the entries it holds pointers to and those of them
\* that were freed meanwhile, and the JSON text it is building.
Frame == [cb : {"available", "refresh", "unavailable", "change"}, cp : Cp, dev : Dev,
          pc : {"prefix", "services", "find", "delfind", "remove", "insert",
                "exists", "probe", "assign", "copy", "build", "publish"},
          val : Val, held : SUBSET Dev, freed : SUBSET Dev, local : SUBSET Entry]

NewFrame(cb, cp, d, pc, v, held) ==
    [cb |-> cb, cp |-> cp, dev |-> d, pc |-> pc, val |-> v,
     held |-> held, freed |-> {}, local |-> {}]

AnyVal == CHOOSE v \in Val : TRUE

Listed == {xdevlist[i].sno : i \in DOMAIN xdevlist}

Contents == {xdevlist[i] : i \in DOMAIN xdevlist}

\* g_list_find_custom with g_list_find_sno: the first entry of the device.
IndexOf(d, k) ==
    /\ k \in DOMAIN xdevlist
    /\ xdevlist[k].sno = d
    /\ \A i \in 1..(k-1) : xdevlist[i].sno # d

\* The control points that announce a device.  The BasicDevice description
\* of a refactored device carries the UPC 10000.
CpsOf(d) == IF rfc_enabled THEN {"basic", RefCp[d]} ELSE {"basic"}

UpcMatches(d) == RefCp[d] # "basic"

Busy(t) == stack[t] # <<>>

Top(t) == stack[t][Len(stack[t])]

At(t, pc) == Busy(t) /\ Top(t).pc = pc

\* GLib runs a callback when the main thread is in its main loop: at the
\* bottom, or nested in a request of the newest activation.
CanDispatch ==
    \/ ~Busy("main")
    \/ /\ Reentrant /\ Busy("main")
       /\ Len(stack["main"]) < MaxDepth
       /\ Top("main").pc \in {"prefix", "services"}

Push(t, f) == stack' = [stack EXCEPT ![t] = Append(@, f)]

Pop(t) == stack' = [stack EXCEPT ![t] = SubSeq(@, 1, Len(@) - 1)]

Goto(t, f) == stack' = [stack EXCEPT ![t] = [@ EXCEPT ![Len(stack[t])] = f]]

To(t, pc) == Goto(t, [Top(t) EXCEPT !.pc = pc])

\* Mutant: a changed attribute is stored, but not published.
MutSend(t) == IF Top(t).cb = "change" THEN Pop(t) ELSE To(t, "copy")

\* The call of sendDiscoveryResult after a change of the list.
Send(t) == To(t, "copy")

Adding == {"available", "refresh"}

\* Mutant: the unavailable callbacks count down, too.
MutReturnAll(t) == Pop(t) /\ deviceAddNo' = deviceAddNo - 1

\* Mutant: a callback returns without counting down.
MutReturnNone(t) == Pop(t) /\ UNCHANGED deviceAddNo

\* The end of a callback: an available callback takes itself off the count.
Return(t) ==
    /\ Pop(t)
    /\ deviceAddNo' = IF Top(t).cb \in Adding THEN deviceAddNo - 1 ELSE deviceAddNo

\* Freeing the entry of d leaves dangling every pointer to it that some
\* activation keeps.
MarkFreed(fs, d) ==
    [i \in DOMAIN fs |-> IF d \in fs[i].held
                           THEN [fs[i] EXCEPT !.freed = @ \cup {d}]
                           ELSE fs[i]]

\* The callbacks look entries up without the lock.  A walk that stands on the link
\* that the other thread unlinks ends there, before it has come to d.
CutShort(t, d) ==
    d \in Listed /\ \E u \in Thread \ {t} : At(u, "remove") /\ Top(u).dev < d

\* g_list_find_custom on thread t.  An entry that is unlinked behind the walk is
\* found all the same: the walk came before the unlinking.
Lookup(t, d, found) ==
    \/ found = (d \in Listed) /\ UNCHANGED torn
    \/ CutShort(t, d) /\ ~found /\ torn' = TRUE

\* gatewayDetected is counted up without the lock: of n single updates made
\* while the other thread updates it too, any number may be lost.
Applied(t, n) ==
    IF \E u \in Thread \ {t} : At(u, "build") \/ At(u, "remove") THEN 0..n ELSE {n}

-----------------------------------------------------------------------------
Init ==
    /\ up = Dev
    /\ cache = [c \in Cp |-> {}]
    /\ subscribed = {}
    /\ events = 0
    /\ xdevlist = <<>>
    /\ outputcontents = {}
    /\ stack = [t \in Thread |-> <<>>]
    /\ deviceAddNo = 0
    /\ partialDiscovery = FALSE
    /\ gatewayDetected = 0
    /\ selfDeviceDiscovered = FALSE
    /\ selfDiscoveryFailCount = 0
    /\ restartFile = FALSE
    /\ browserDisableEnableCounter = 0
    /\ vpc = "check"
    /\ torn = FALSE

-----------------------------------------------------------------------------
(* The network. *)

\* A device leaves the network or comes back.
PowerToggle(d) ==
    /\ events < MaxEvents
    /\ events' = events + 1
    /\ up' = IF d \in up THEN up \ {d} ELSE up \cup {d}
    /\ UNCHANGED <<cache, subscribed, xdevlist, outputcontents, stack, flags, vvars>>

\* set_active(cp, FALSE) stops the BasicDevice browser until it is set
\* active again.
BrowserActive(c) == c = "basic" => vpc \notin {"flush", "activate"}

-----------------------------------------------------------------------------
(* device_proxy_available_cb and its _client, _gw and _bgw variants. *)

\* Entry to the callback, up to its first request.  It returns at once for
\* a refactored device on the BasicDevice control point, for a listed device
\* on the control points that do not refresh the prefix, and when gupnp
\* gives it no service proxy or no usable UDN.
Available(c, d) ==
    /\ CanDispatch
    /\ events < MaxEvents
    /\ d \in up
    /\ c \in CpsOf(d)
    /\ BrowserActive(c)
    /\ d \notin cache[c]
    /\ events' = events + 1
    /\ cache' = [cache EXCEPT ![c] = @ \cup {d}]
    /\ IF c = "basic" /\ rfc_enabled /\ UpcMatches(d)
         THEN UNCHANGED <<stack, deviceAddNo, torn>>
         ELSE \E found \in BOOLEAN :
           /\ Lookup("main", d, found)
           /\ IF found
                THEN IF c \in {"basic", "gw"}
                  THEN /\ Push("main", NewFrame("refresh", c, d, "prefix", AnyVal, {d}))
                       /\ deviceAddNo' = deviceAddNo + 1
                  ELSE UNCHANGED <<stack, deviceAddNo>>
                ELSE \/ /\ Push("main", NewFrame("available", c, d, "services", AnyVal, {}))
                        /\ deviceAddNo' = deviceAddNo + 1
                     \/ /\ MayFail
                        /\ UNCHANGED <<stack, deviceAddNo>>
    /\ UNCHANGED <<up, subscribed, xdevlist, outputcontents, partialDiscovery,
                   gatewayDetected, selfDeviceDiscovered, watch>>

\* The answer to GetIpv6Prefix for a device already in the list, compared
\* with and stored through the pointer found before the request.
PrefixReply ==
    /\ At("main", "prefix")
    /\ LET f == Top("main")
           d == f.dev
       IN \/ /\ Return("main")                  \* the request failed
             /\ UNCHANGED xdevlist
          \/ \E v \in Val :
               \/ /\ d \in f.freed              \* reads and writes freed memory
                  /\ \/ Return("main")
                     \/ Send("main") /\ UNCHANGED deviceAddNo
                  /\ UNCHANGED xdevlist
               \/ /\ d \notin f.freed
                  /\ \E k \in DOMAIN xdevlist :
                       /\ IndexOf(d, k)
                       /\ IF xdevlist[k].val = v
                            THEN Return("main") /\ UNCHANGED xdevlist
                            ELSE /\ xdevlist' = [xdevlist EXCEPT ![k].val = v]
                                 /\ Send("main")
                                 /\ UNCHANGED deviceAddNo
    /\ UNCHANGED <<net, outputcontents, partialDiscovery, gatewayDetected,
                   selfDeviceDiscovered, vvars>>

\* The services each callback asks, one after the other.
Asked == [basic  |-> {"friendlies"},
          client |-> {"identity", "media"},
          gw     |-> {"identity", "media", "time", "gateway", "qam"},
          bgw    |-> {"identity", "time", "gateway"}]

\* The services with mandatory attributes (IsGateway, and a BasicDevice's urls);
\* the others return TRUE whatever the answers are.
CanFail == {"friendlies", "gateway"}

Mandatory == {c \in Cp : Asked[c] \cap CanFail # {}}

\* The control points whose callback records a partial discovery.
MarksPartial == {"basic", "gw"}

\* A missing mandatory attribute: process_gw_services (basic) or
\* process_gw_services_gateway_config (gw, bgw) returned FALSE.
ServicesFail ==
    /\ MayFail
    /\ At("main", "services")
    /\ Top("main").cp \in Mandatory
    /\ Return("main")
    /\ partialDiscovery' = (partialDiscovery \/ Top("main").cp \in MarksPartial)
    /\ UNCHANGED <<net, xdevlist, outputcontents, gatewayDetected,
                   selfDeviceDiscovered, vvars>>

\* All requests answered; update_gwylist is called.
ServicesReply ==
    /\ At("main", "services")
    /\ \E v \in Val : Goto("main", [Top("main") EXCEPT !.pc = "find", !.val = v])
    /\ UNCHANGED <<net, xdevlist, outputcontents, flags, vvars>>

-----------------------------------------------------------------------------
(* update_gwylist and delete_gwyitem. *)

\* Mutant: the entry of the device is not looked for.
MutUpdateFind ==
    /\ At("main", "find")
    /\ To("main", "insert")
    /\ UNCHANGED <<net, xdevlist, outputcontents, flags, vvars>>

\* update_gwylist looks for an entry of the device to replace.
UpdateFind ==
    /\ At("main", "find")
    /\ \E found \in BOOLEAN :
         /\ Lookup("main", Top("main").dev, found)
         /\ To("main", IF found THEN "delfind" ELSE "insert")
    /\ UNCHANGED <<net, xdevlist, outputcontents, flags, watch>>

\* delete_gwyitem looks the entry up, without the lock.  Not found, it
\* returns FALSE: the unavailable callbacks return; update_gwylist returns
\* FALSE, on which the BasicDevice callback cleans up and the refactored ones
\* return without taking themselves off deviceAddNo.
DeleteFind(t) ==
    /\ At(t, "delfind")
    /\ \E found \in BOOLEAN :
         /\ Lookup(t, Top(t).dev, found)
         /\ LET f == Top(t)
            IN IF found
                 THEN /\ Goto(t, [f EXCEPT !.pc = "remove", !.held = {f.dev}, !.freed = {}])
                      /\ UNCHANGED <<deviceAddNo, partialDiscovery>>
                 ELSE IF f.cb = "available" /\ f.cp # "basic"
                   THEN Pop(t) /\ UNCHANGED <<deviceAddNo, partialDiscovery>>
                   ELSE /\ Return(t)
                        /\ partialDiscovery' = (partialDiscovery \/ f.cb = "available")
    /\ UNCHANGED <<net, xdevlist, outputcontents, gatewayDetected,
                   selfDeviceDiscovered, watch>>

\* What the activation goes on with once delete_gwyitem has returned TRUE.
Deleted(t) ==
    [Top(t) EXCEPT !.pc = IF Top(t).cb = "available" THEN "insert" ELSE "copy",
                   !.held = {}, !.freed = {}]

\* An entry is taken off the list and freed, under the lock.
Unlink(t, k) ==
    /\ xdevlist' = SubSeq(xdevlist, 1, k - 1) \o SubSeq(xdevlist, k + 1, Len(xdevlist))
    /\ LET d == xdevlist[k].sno
       IN stack' = [u \in Thread |->
            IF u = t
              THEN Append(MarkFreed(SubSeq(stack[t], 1, Len(stack[t]) - 1), d), Deleted(t))
              ELSE MarkFreed(stack[u], d)]

\* delete_gwyitem takes off the entry that it has found.
Remove(t) ==
    /\ At(t, "remove")
    /\ LET d == Top(t).dev
           dec == IF ClientXcalServer /\ d \in Gateways /\ gatewayDetected > 0 THEN 1 ELSE 0
       IN /\ d \notin Top(t).freed
          /\ \E k \in Applied(t, dec) : gatewayDetected' = gatewayDetected - k
          /\ \E k \in DOMAIN xdevlist : IndexOf(d, k) /\ Unlink(t, k)
    /\ UNCHANGED <<net, outputcontents, deviceAddNo, partialDiscovery,
                   selfDeviceDiscovered, vvars>>

\* The other thread has freed the entry since the lookup: it is read, unlinked and
\* freed again.  Its link is on no list, or is another entry's by now.
RemoveFreed(t) ==
    /\ At(t, "remove")
    /\ Top(t).dev \in Top(t).freed
    /\ \/ UNCHANGED gatewayDetected
       \/ ClientXcalServer /\ gatewayDetected > 0 /\ gatewayDetected' = gatewayDetected - 1
    /\ \/ Goto(t, Deleted(t)) /\ UNCHANGED xdevlist
       \/ \E k \in DOMAIN xdevlist : Unlink(t, k)
    /\ torn' = TRUE
    /\ UNCHANGED <<net, outputcontents, deviceAddNo, partialDiscovery,
                   selfDeviceDiscovered, watch>>

\* update_gwylist inserts the new entry in serial number order.
Insert ==
    /\ At("main", "insert")
    /\ LET e == [sno |-> Top("main").dev, val |-> Top("main").val]
       IN \E k \in 1..(Len(xdevlist) + 1) :
            /\ \A i \in 1..(k-1) : xdevlist[i].sno < e.sno
            /\ \A i \in k..Len(xdevlist) : e.sno <= xdevlist[i].sno
            /\ xdevlist' = SubSeq(xdevlist, 1, k - 1) \o <<e>>
                           \o SubSeq(xdevlist, k, Len(xdevlist))
    /\ Send("main")
    /\ UNCHANGED <<net, outputcontents, flags, vvars>>

-----------------------------------------------------------------------------
(* sendDiscoveryResult. *)

\* The list of pointers is copied under the lock.
SendCopy(t) ==
    /\ At(t, "copy")
    /\ Goto(t, [Top(t) EXCEPT !.pc = "build", !.held = Listed, !.freed = {}])
    /\ UNCHANGED <<net, xdevlist, outputcontents, flags, vvars>>

\* The text is built from the entries the copy points to, without the lock;
\* every gateway met is counted, on every call.  An entry that was freed
\* meanwhile is read anyway.
SendBuild(t) ==
    /\ At(t, "build")
    /\ LET f == Top(t)
           n == IF ClientXcalServer THEN Cardinality(f.held \cap Gateways) ELSE 0
           live == {e \in Contents : e.sno \in f.held \ f.freed}
       IN /\ \E garbage \in [f.freed -> Val] :
               Goto(t, [f EXCEPT !.pc = "publish", !.held = {}, !.freed = {},
                                 !.local = live \cup {[sno |-> d, val |-> garbage[d]] : d \in f.freed}])
          /\ \E k \in Applied(t, n) : gatewayDetected' = gatewayDetected + k
          /\ selfDeviceDiscovered' = (selfDeviceDiscovered \/ Self \in f.held)
    /\ UNCHANGED <<net, xdevlist, outputcontents, deviceAddNo, partialDiscovery, vvars>>

\* The text becomes the published one, listeners are notified and the file
\* is written; then the callback that called sendDiscoveryResult finishes: an
\* addition on the BasicDevice or video gateway control point subscribes.
SendPublish(t) ==
    /\ At(t, "publish")
    /\ outputcontents' = Top(t).local
    /\ subscribed' = IF Top(t).cb = "available" /\ Top(t).cp \in {"basic", "gw"}
                       THEN subscribed \cup {Top(t).dev} ELSE subscribed
    /\ Return(t)
    /\ UNCHANGED <<up, cache, events, xdevlist, partialDiscovery, gatewayDetected,
                   selfDeviceDiscovered, vvars>>

-----------------------------------------------------------------------------
(* device_proxy_unavailable_cb and its variants, on either thread. *)

\* Mutant: the comparison with the own serial number is inverted.
MutNotRemoved(d) == d # Self

\* "Self Device not removing".
NotRemoved(d) == d = Self

\* The callback starts on thread t: nothing happens for this device itself;
\* the others lose their subscription if gupnp returns the proxy that holds
\* it, then _client and _bgw delete at once, the others look first.
Unavailable(t, c, d) ==
    /\ d \in cache[c]
    /\ cache' = [cache EXCEPT ![c] = @ \ {d}]
    /\ IF NotRemoved(d)
         THEN UNCHANGED <<subscribed, stack>>
         ELSE /\ \/ UNCHANGED subscribed
                 \/ c \in {"basic", "gw"} /\ subscribed' = subscribed \ {d}
              /\ Push(t, NewFrame("unavailable", c, d,
                                  IF c \in {"basic", "gw"} THEN "exists" ELSE "delfind",
                                  AnyVal, {}))
    /\ UNCHANGED <<up, xdevlist, outputcontents, flags>>

\* A byebye message, or lost multicast, takes the device out of the cache.
ByeBye(c, d) ==
    /\ CanDispatch
    /\ BrowserActive(c)
    /\ events < MaxEvents
    /\ events' = events + 1
    /\ Unavailable("main", c, d)
    /\ UNCHANGED vvars

\* The announcements of a device that is off the network expire.
Expire(c, d) ==
    /\ CanDispatch
    /\ BrowserActive(c)
    /\ d \notin up
    /\ Unavailable("main", c, d)
    /\ UNCHANGED <<events, vvars>>

\* The scan of checkDeviceExists stops at the first larger serial number.
ScanFinds(d) ==
    \E k \in DOMAIN xdevlist :
        xdevlist[k].sno = d /\ \A i \in 1..(k-1) : xdevlist[i].sno < d

\* checkDeviceExists: only a gateway's entry yields a url to probe; one that
\* does not fit the buffer makes the device count as absent.
CheckDeviceExists(t) ==
    /\ At(t, "exists")
    /\ LET d == Top(t).dev
       IN \/ /\ ScanFinds(d) => d \in Gateways /\ MayFail
             /\ Return(t)
             /\ UNCHANGED torn
          \/ /\ CutShort(t, d)
             /\ Return(t)
             /\ torn' = TRUE
          \/ /\ ScanFinds(d)
             /\ To(t, IF d \in Gateways THEN "probe" ELSE "delfind")
             /\ UNCHANGED <<deviceAddNo, torn>>
    /\ UNCHANGED <<net, xdevlist, outputcontents, partialDiscovery, gatewayDetected,
                   selfDeviceDiscovered, watch>>

\* getSoupStatusFromUrl: a gateway that still answers HTTP stays listed.
Probe(t) ==
    /\ At(t, "probe")
    /\ \/ Top(t).dev \in up /\ Return(t)
       \/ To(t, "delfind") /\ UNCHANGED deviceAddNo
    /\ UNCHANGED <<net, xdevlist, outputcontents, partialDiscovery, gatewayDetected,
                   selfDeviceDiscovered, vvars>>

-----------------------------------------------------------------------------
(* on_last_change. *)

\* A change event of a subscribed device arrives; its entry is looked up.
Change(d, v) ==
    /\ CanDispatch
    /\ events < MaxEvents
    /\ d \in up \cap subscribed
    /\ events' = events + 1
    /\ \E found \in BOOLEAN :
         /\ Lookup("main", d, found)
         /\ IF found
              THEN Push("main", NewFrame("change", "basic", d, "assign", v, {d}))
              ELSE UNCHANGED stack
    /\ UNCHANGED <<up, cache, subscribed, xdevlist, outputcontents, flags, watch>>

\* The value is compared and stored; the list is published if it changed.
ChangeAssign ==
    /\ At("main", "assign")
    /\ LET f == Top("main")
       IN \/ /\ f.dev \in f.freed
             /\ Pop("main") \/ Send("main")
             /\ UNCHANGED xdevlist
          \/ /\ f.dev \notin f.freed
             /\ \E k \in DOMAIN xdevlist :
                  /\ IndexOf(f.dev, k)
                  /\ IF xdevlist[k].val = f.val
                       THEN Pop("main") /\ UNCHANGED xdevlist
                       ELSE /\ xdevlist' = [xdevlist EXCEPT ![k].val = f.val]
                            /\ Send("main")
    /\ UNCHANGED <<net, outputcontents, flags, vvars>>

-----------------------------------------------------------------------------
(* verify_devices. *)

\* Mutant: the watchdog waits for the restart it is there to cause.
MutSelfMissing == ~Broadband /\ ~selfDeviceDiscovered /\ restartFile

\* The self-discovery watchdog is armed (only without BROADBAND).
SelfMissing == ~Broadband /\ ~selfDeviceDiscovered /\ ~restartFile

\* The gssdp cache has to be flushed to get a partly discovered device again.
NeedFlush ==
    /\ ClientXcalServer
    /\ partialDiscovery
    /\ gatewayDetected = 0
    /\ browserDisableEnableCounter <= 2

\* One round of the loop, when no addition is in progress.
VerifyCheck ==
    /\ vpc = "check"
    /\ deviceAddNo = 0
    /\ \/ /\ SelfMissing
          /\ selfDiscoveryFailCount < SelfFailLimit
          /\ selfDiscoveryFailCount' = selfDiscoveryFailCount + 1
       \/ /\ SelfMissing => selfDiscoveryFailCount >= SelfFailLimit /\ MayFail
          /\ UNCHANGED selfDiscoveryFailCount      \* fopen failed
    /\ vpc' = IF NeedFlush THEN "flush" ELSE "rescan"
    /\ UNCHANGED <<net, xdevlist, outputcontents, stack, flags, restartFile,
                   browserDisableEnableCounter, torn>>

\* The process ends and is started again: everything in memory is lost.
Fresh ==
    /\ cache' = [c \in Cp |-> {}]
    /\ subscribed' = {}
    /\ xdevlist' = <<>>
    /\ outputcontents' = {}
    /\ stack' = [t \in Thread |-> <<>>]
    /\ deviceAddNo' = 0
    /\ partialDiscovery' = FALSE
    /\ gatewayDetected' = 0
    /\ selfDeviceDiscovered' = FALSE
    /\ selfDiscoveryFailCount' = 0
    /\ browserDisableEnableCounter' = 0
    /\ vpc' = "check"
    /\ torn' = FALSE
    /\ UNCHANGED <<up, events>>

\* This device was not found after SelfFailLimit rounds: the process leaves
\* the restart file and exits.
SelfRestart ==
    /\ vpc = "check"
    /\ deviceAddNo = 0
    /\ SelfMissing
    /\ selfDiscoveryFailCount >= SelfFailLimit
    /\ restartFile' = TRUE
    /\ Fresh

\* Memory that was used after it was freed, or freed twice, ends the process at any
\* time afterwards.
Crash == torn /\ Fresh /\ UNCHANGED restartFile

\* set_active(FALSE) reports the cached devices one after the other, each to
\* the unavailable callback, on this thread.
VerifyFlush ==
    /\ vpc = "flush"
    /\ ~Busy("verify")
    /\ \E d \in cache["basic"] : Unavailable("verify", "basic", d)
    /\ UNCHANGED <<events, vvars>>

VerifyFlushed ==
    /\ vpc = "flush"
    /\ ~Busy("verify")
    /\ cache["basic"] = {}
    /\ partialDiscovery' = FALSE
    /\ vpc' = "activate"
    /\ UNCHANGED <<net, xdevlist, outputcontents, stack, deviceAddNo, gatewayDetected,
                   selfDeviceDiscovered, selfDiscoveryFailCount, restartFile,
                   browserDisableEnableCounter, torn>>

VerifyActivate ==
    /\ vpc = "activate"
    /\ vpc' = "check"
    /\ browserDisableEnableCounter' = browserDisableEnableCounter + 1
    /\ UNCHANGED <<net, xdevlist, outputcontents, stack, flags,
                   selfDiscoveryFailCount, restartFile, torn>>

\* The forced rescan of the control points, and the sleep after it.
VerifyRescan ==
    /\ vpc = "rescan"
    /\ vpc' = "check"
    /\ UNCHANGED <<net, xdevlist, outputcontents, stack, flags,
                   selfDiscoveryFailCount, restartFile, browserDisableEnableCounter, torn>>

-----------------------------------------------------------------------------
Network ==
    \/ \E d \in Dev : PowerToggle(d)
    \/ \E d \in Dev, c \in Cp : Available(c, d) \/ ByeBye(c, d)
    \/ \E d \in Dev, v \in Val : Change(d, v)

Expiry == \E d \in Dev, c \in Cp : Expire(c, d)

MainStep ==
    \/ PrefixReply \/ ServicesFail \/ ServicesReply
    \/ UpdateFind \/ Insert \/ ChangeAssign

ThreadStep(t) ==
    \/ DeleteFind(t) \/ Remove(t) \/ RemoveFreed(t) \/ SendCopy(t) \/ SendBuild(t) \/ SendPublish(t)
    \/ CheckDeviceExists(t) \/ Probe(t)

VerifyStep ==
    \/ VerifyCheck \/ SelfRestart \/ VerifyFlush \/ VerifyFlushed
    \/ VerifyActivate \/ VerifyRescan

Next ==
    \/ Network
    \/ Expiry
    \/ MainStep
    \/ \E t \in Thread : ThreadStep(t)
    \/ VerifyStep
    \/ Crash

\* Threads are scheduled, requests are answered or time out, and the
\* announcements of a device that is gone expire.
Fairness ==
    /\ WF_vars(MainStep)
    /\ \A t \in Thread : WF_vars(ThreadStep(t))
    /\ WF_vars(VerifyStep)
    /\ WF_vars(Expiry)

Spec == Init /\ [][Next]_vars

FairSpec == Spec /\ Fairness

-----------------------------------------------------------------------------
(* Properties. *)

\* Every variable has its type.
TypeOK ==
    /\ up \subseteq Dev
    /\ cache \in [Cp -> SUBSET Dev]
    /\ subscribed \subseteq Dev
    /\ events \in Nat
    /\ xdevlist \in Seq(Entry)
    /\ outputcontents \subseteq Entry
    /\ stack \in [Thread -> Seq(Frame)]
    /\ deviceAddNo \in Nat
    /\ partialDiscovery \in BOOLEAN
    /\ gatewayDetected \in Nat
    /\ selfDeviceDiscovered \in BOOLEAN
    /\ selfDiscoveryFailCount \in Nat
    /\ restartFile \in BOOLEAN
    /\ browserDisableEnableCounter \in Nat
    /\ vpc \in {"check", "flush", "activate", "rescan"}
    /\ torn \in BOOLEAN

Sorted == \A i, j \in DOMAIN xdevlist : i < j => xdevlist[i].sno < xdevlist[j].sno

\* xdevlist is sorted by serial number and has one entry per device, whatever
\* additions of the same device are nested in one another and whichever thread
\* deletes: checkDeviceExists stops at the first larger serial number, and every
\* lookup takes the first match.  Unless a lookup without the lock has been cut
\* short by the other thread's unlinking, or both have removed the same entry.
SortedUnique == ~torn => Sorted

Additions == {i \in DOMAIN stack["main"] : stack["main"][i].cb \in Adding}

\* deviceAddNo counts every addition in progress: when verify_devices reads
\* 0 no available callback is half done.
AddCountCovers == Cardinality(Additions) <= deviceAddNo

\* ... and nothing else: the count returns to 0 when they end.
AddCountExact == deviceAddNo = Cardinality(Additions)

Quiet == vpc # "flush" /\ \A t \in Thread : ~Busy(t)

\* "Whenever there's add/delete of gateway list it will create a json file"
\* (sendDiscoveryResult): with no callback running, what is published is
\* what the list holds.
PublishedWhenQuiet == Quiet => outputcontents = Contents

\* Once published, the device itself is in everything that is published, until
\* the process restarts.
SelfStaysPublished ==
    [][ (\E e \in outputcontents : e.sno = Self)
          => \/ \E e \in outputcontents' : e.sno = Self
             \/ restartFile' # restartFile ]_outputcontents

\* verify_devices keeps rescanning: no addition leaves the count above 0.
RescansForever == []<>(vpc = "rescan")

\* "do an restart of xdiscovery for one time": a device that does not find
\* itself is restarted, unless it finds itself after all.
SelfFoundOrRestarted == <>(selfDeviceDiscovered \/ restartFile)

\* "dead devices will be deleted from the list" (verify_devices): but for a
\* gateway, which may be kept because it answers the probe, and die afterwards.
DeadRemoved ==
    \A d \in Dev \ ({Self} \cup Gateways) : [](d \notin up => <>(d \in up \/ d \notin Listed))
=============================================================================
