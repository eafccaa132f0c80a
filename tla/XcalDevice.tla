------------------------------ MODULE XcalDevice ------------------------------
(***************************************************************************)
(* xcal-device on a video gateway: src/xcal-device-main.c and the library  *)
(* src/video/lib/src/xcal_device_library.c.  The system manager publishes  *)
(* tuner state, ids, time zone and DST offset on the IARM bus, the network *)
(* manager the route; handlers run in a thread of the bus, update the      *)
(* library's variables and notify the subscribers of the UPnP service.     *)
(* The main thread initialises, waits for the tuner and on an IPv6 gateway *)
(* for the prefix, then serves actions and subscriptions.                  *)
(*                                                                         *)
(* A service variable exists three times: in the library, in the copy that *)
(* main.c fills when an action asks for it and hands to queries, and in    *)
(* every client.                                                           *)
(*                                                                         *)
(* Four variables of the service are modelled; the callbacks of the others *)
(* ask the library and answer from the copy as those of the ids do.        *)
(*                                                                         *)
(* The four system ids are handled alike and are one here.  A value of it, *)
(* and a route, is a version number: each change gives a new one, 0 stands *)
(* for none.                                                               *)
(***************************************************************************)
EXTENDS Integers, Sequences, SequencesExt, TLC

CONSTANTS
    Client,
    Service,            \* the service each client uses
    Payload,            \* time zones the system manager may announce
    DevConf,            \* the configurations of the device
    MaxChanges          \* bound: changes of the system manager's values

\* The zones of tzStruct that the instances choose from; a payload that matches
\* none of tzStruct is NoMatch.
ASSUME PayloadAssumption == Payload \subseteq {"MST", "CST", "EST"}

ASSUME ServiceAssumption == Service \in [Client -> {"DiscoverFriendlies", "X1"}]

Field == {"tune", "id", "diag", "tz", "dst", "route", "prefix"}

\* ipv6: an IPv6 gateway with a prefix file.  useGliDiag: the ids come from the bus, not from the diag file.  rfc_enabled:
\* the device is refactored.  varying: bound, the managers' values that change.
\* users: the clients there are.
ASSUME DevConfAssumption ==
    DevConf \subseteq [ipv6 : BOOLEAN, useGliDiag : BOOLEAN, rmfCrshSupp : BOOLEAN, disableTuneReady : BOOLEAN,
                       rfc_enabled : BOOLEAN, varying : SUBSET Field, users : SUBSET Client]

NoTz == "none"
NoMatch == "unknown"    \* a payload that tzStruct does not have
Unprinted == -1         \* the empty string, where ids are expected
NoDst == 2              \* the system manager has no DST offset
DstUnset == 1           \* "dstoffset can be only 0 or 60 so intializing with 1"

\* tzStruct: the names reported for the payloads.
javaTZ(p) == CASE p = "MST" -> "US/Mountain" [] p = "CST" -> "US/Central" [] p = "EST" -> "US/Eastern"

\* What a client asks for before it subscribes, in this order.
Order == <<"PlaybackUrl", "SystemIds", "TimeZone", "DataGatewayIPaddress">>
Var == Range(Order)

gwystbip == -2          \* the device's own address, where a route is expected

Blank == [x \in Var |-> CASE x = "SystemIds" -> Unprinted
                         [] x = "DataGatewayIPaddress" -> 0
                         [] OTHER -> ""]

VARIABLES
    devConf,        \* the configuration file, read once
    sys,            \* the managers' values, the diag file and the prefix file
    changes,        \* how often they changed
    late,           \* history: a value changed while getSystemValues ran
    was0,           \* history: the offset was 0 at some time since the zone is known
    overtaken,      \* history: an action had a route before its event was handled
    bus,            \* IARM events not yet handled
    main,           \* where the main thread is
    param,          \* the answer of GetSystemStates
    lib,            \* the library's variables
    copy,           \* main.c: playBackUrl, systemIds, dsgtimeZone, dataGatewayIPAddress
    service_ready,
    client,         \* per client: answers received, subscribed, values
    wire            \* per client: events on their way to it

history == <<late, was0, overtaken>>

vars == <<devConf, sys, changes, history, bus, main, param, lib, copy, service_ready, client, wire>>

\* The values that do not vary.
Given == [tune |-> TRUE, id |-> 1, diag |-> 1, tz |-> NoTz, dst |-> NoDst, route |-> 1,
          prefix |-> "prefix"]

\* playbackurl: printed once the receiver id is known.
playbackurl == IF main \in {"wait", "prefix_file", "prefix", "serve", "cvp", "up"} THEN "url" ELSE ""

Init ==
    /\ devConf \in DevConf
    /\ sys \in [tune : BOOLEAN, id : {0, 1}, diag : {0, 1},
                tz : Payload \cup {NoTz, NoMatch}, dst : {0, 60, NoDst}, route : {0, 1},
                prefix : {"absent", "empty", "prefix"}]
    /\ \A f \in Field \ devConf.varying : sys[f] = Given[f]
    /\ changes = 0
    /\ late = FALSE
    /\ was0 = (sys.dst = 0)
    /\ overtaken = FALSE
    /\ bus = <<>>
    /\ main = "register"
    /\ param = sys
    /\ lib = [tune_ready |-> FALSE, id |-> 0, systemids |-> Unprinted,
              dsgtimezone |-> "", dstOffset |-> DstUnset, dataGatewayIPaddress |-> 0]
    /\ copy = Blank
    /\ service_ready = FALSE
    /\ client = [c \in Client |->
                   [reads |-> 0, subscribed |-> FALSE, value |-> Blank]]
    /\ wire = [c \in Client |-> <<>>]

-----------------------------------------------------------------------------
(* The library's updates.  Each yields the new variables and the events for  *)
(* notify_value_change.                                                      *)

Effect(l, notes) == [lib |-> l, notes |-> notes]

\* One variable's new value.
Change(x, v) == [y \in {x} |-> v]

\* The ids that updatesystemids prints.
SystemIds(l) == IF devConf.useGliDiag THEN l.id ELSE sys.diag

updatesystemids(l) == [l EXCEPT !.systemids = SystemIds(l)]

\* Without DST, Mountain and Central are the zones that never have it.
WithoutDst(z) ==
    CASE z = "US/Mountain" -> "US/Arizona" [] z = "US/Central" -> "Canada/Saskatchewan" [] OTHER -> z

notify_timezone(l) ==
    LET m == IF l.dstOffset = 0 THEN [l EXCEPT !.dsgtimezone = WithoutDst(@)] ELSE l
    IN  Effect(m, << Change("TimeZone", m.dsgtimezone) >>)

\* Mutant: the zone is only reported, not adjusted for a known DST offset.
MutMapTimeZone(l, p) ==
    IF p = NoMatch THEN Effect(l, <<>>) ELSE Effect([l EXCEPT !.dsgtimezone = javaTZ(p)], <<>>)

\* A payload without a match leaves the zone as it is.
mapTimeZoneToJavaFormat(l, p) ==
    LET m == [l EXCEPT !.dsgtimezone = javaTZ(p)]
    IN  CASE p = NoMatch -> Effect(l, <<>>)
          [] p # NoMatch /\ m.dstOffset # DstUnset -> notify_timezone(m)
          [] OTHER -> Effect(m, <<>>)

\* dstOffset and dstSavings; the zone is reported even when it is empty.
DstChanged(l, o) == notify_timezone([l EXCEPT !.dstOffset = o])

\* Mutant: the tuner's state is only kept where a crash of the streamer is
\* supported.
MutTuneChanged(l, t) ==
    Effect(IF devConf.rmfCrshSupp THEN [l EXCEPT !.tune_ready = t] ELSE l,
           << Change("PlaybackUrl", playbackurl) >>)

\* With crash support, clients hear only of the tuner becoming ready.
TuneChanged(l, t) ==
    LET m == [l EXCEPT !.tune_ready = t]
        n == IF devConf.useGliDiag THEN m ELSE updatesystemids(m)
        ids == IF devConf.useGliDiag THEN <<>> ELSE << Change("SystemIds", n.systemids) >>
    IN  CASE l.tune_ready = t -> Effect(l, <<>>)
          [] l.tune_ready # t /\ devConf.rmfCrshSupp /\ ~t -> Effect(m, <<>>)
          [] OTHER -> Effect(n, Append(ids, Change("PlaybackUrl", playbackurl)))

\* Channel map, DAC, plant and VOD id: an error clears the id, no more.
IdChanged(l, v) ==
    LET m == [l EXCEPT !.id = v]
        n == updatesystemids(m)
    IN  IF v = 0 THEN Effect(m, <<>>) ELSE Effect(n, << Change("SystemIds", n.systemids) >>)

\* Mutant: the route is only kept, for those who ask.
MutRouteChanged(l, v) == Effect([l EXCEPT !.dataGatewayIPaddress = v], <<>>)

\* _routesysEventHandler: a route that is known already is not reported.
RouteChanged(l, v) ==
    IF v = l.dataGatewayIPaddress THEN Effect(l, <<>>)
    ELSE Effect([l EXCEPT !.dataGatewayIPaddress = v], << Change("DataGatewayIPaddress", v) >>)

\* notify_value_change: only once the service is ready, and only the
\* subscribers of DiscoverFriendlies.
Notified(notes) ==
    [c \in Client |->
        IF service_ready /\ client[c].subscribed /\ Service[c] = "DiscoverFriendlies"
        THEN wire[c] \o notes ELSE wire[c]]

-----------------------------------------------------------------------------
(* The managers (external) and the bus thread.                               *)

MayChange(field, v) ==
    /\ field \in devConf.varying
    /\ changes < MaxChanges
    /\ changes' = changes + 1
    /\ sys' = [sys EXCEPT ![field] = v]
    /\ UNCHANGED <<devConf, overtaken, main, param, lib, copy, service_ready, client, wire>>

\* The steps that hold an answer of which something is not yet assigned.
Answering == {"call", "assign_id", "assign_tz", "assign_dst", "assign_tune"}

\* Once handlers are registered, a change is an event.
Publish(field, v) ==
    /\ MayChange(field, v)
    /\ late' = (late \/ (main \in Answering /\ field # "route"))
    /\ was0' = CASE main = "register" -> sys'.dst = 0
                 [] main # "register" /\ field = "tz" -> sys.dst = 0
                 [] main # "register" /\ field = "dst" -> was0 \/ v = 0
                 [] OTHER -> was0
    /\ bus' = IF main = "register" THEN bus ELSE Append(bus, <<field, v>>)

TuneReady == Publish("tune", ~sys.tune)
NewId == Publish("id", changes + 2)
IdError == sys.id # 0 /\ Publish("id", 0)
TimeZone(p) == p # sys.tz /\ Publish("tz", p)
DstOffset(o) == o # sys.dst /\ Publish("dst", o)
NewRoute == Publish("route", changes + 2)

\* The diag file or the prefix file is written; nobody is told.
DiagFile ==
    /\ MayChange("diag", changes + 2)
    /\ UNCHANGED <<late, was0, bus>>

PrefixFile(v) ==
    /\ v # sys.prefix
    /\ MayChange("prefix", v)
    /\ UNCHANGED <<late, was0, bus>>

\* _sysEventHandler and _routesysEventHandler: one event.
SysEventHandler ==
    /\ bus # <<>>
    /\ main # "ended"
    /\ LET field == Head(bus)[1]
           v == Head(bus)[2]
           e == CASE field = "tune" -> TuneChanged(lib, v)
                  [] field = "id" -> IdChanged(lib, v)
                  [] field = "tz" -> mapTimeZoneToJavaFormat(lib, v)
                  [] field = "dst" -> DstChanged(lib, v)
                  [] field = "route" -> RouteChanged(lib, v)
       IN  lib' = e.lib /\ wire' = Notified(e.notes)
    /\ bus' = Tail(bus)
    /\ UNCHANGED <<devConf, sys, changes, history, main, param, copy, service_ready, client>>

-----------------------------------------------------------------------------
(* The main thread: xdeviceInit, then main.                                  *)

At(from, to) ==
    /\ main = from
    /\ main' = to
    /\ UNCHANGED <<devConf, sys, changes, history, bus, copy, client, wire>>

\* XUPnP_IARM_Init: the handlers are registered first.
Register == At("register", "call") /\ UNCHANGED <<param, lib, service_ready>>

\* getSystemValues: the answer, then each value of it that is available.
Call == At("call", "assign_id") /\ param' = sys /\ UNCHANGED <<lib, service_ready>>

AssignId ==
    /\ At("assign_id", "assign_tz")
    /\ lib' = IF param.id # 0 THEN [lib EXCEPT !.id = param.id] ELSE lib
    /\ UNCHANGED <<param, service_ready>>

AssignTz ==
    /\ At("assign_tz", "assign_dst")
    /\ lib' = IF param.tz # NoTz THEN mapTimeZoneToJavaFormat(lib, param.tz).lib ELSE lib
    /\ UNCHANGED <<param, service_ready>>

AssignDst ==
    /\ At("assign_dst", "assign_tune")
    /\ lib' = IF param.dst # NoDst THEN DstChanged(lib, param.dst).lib ELSE lib
    /\ UNCHANGED <<param, service_ready>>

AssignTune ==
    /\ At("assign_tune", "urls")
    /\ lib' = [lib EXCEPT !.tune_ready = param.tune]
    /\ UNCHANGED <<param, service_ready>>

\* The receiver id is known: the urls and the ids are printed.
Urls == At("urls", "wait") /\ lib' = updatesystemids(lib) /\ UNCHANGED <<param, service_ready>>

\* Polled every 5 seconds, unless the check is disabled.
WaitTuneReady ==
    /\ lib.tune_ready \/ devConf.disableTuneReady
    /\ At("wait", IF devConf.ipv6 THEN "prefix_file" ELSE "serve")
    /\ lib' = [lib EXCEPT !.tune_ready = TRUE]
    /\ UNCHANGED <<param, service_ready>>

\* An IPv6 gateway polls for the prefix file, then for a prefix in it.
WaitPrefixFile ==
    /\ sys.prefix # "absent"
    /\ At("prefix_file", "prefix")
    /\ UNCHANGED <<param, lib, service_ready>>

WaitPrefix ==
    /\ sys.prefix = "prefix"
    /\ At("prefix", "serve")
    /\ UNCHANGED <<param, lib, service_ready>>

\* main: the root device is announced, the callbacks are connected.
Serve == At("serve", "cvp") /\ service_ready' = TRUE /\ UNCHANGED <<param, lib>>

\* The CVP2 device is announced, if it is enabled, and the main loop runs.
Cvp == At("cvp", "up") /\ UNCHANGED <<param, lib, service_ready>>

\* A description that cannot be written, a context that cannot be created or a
\* service that the root device lacks ends the process.
Fail ==
    /\ \E place \in {"serve", "cvp"} : At(place, "ended")
    /\ UNCHANGED <<param, lib, service_ready>>

MainThread ==
    \/ Register \/ Call
    \/ AssignId \/ AssignTz \/ AssignDst \/ AssignTune
    \/ Urls \/ WaitTuneReady \/ WaitPrefixFile \/ WaitPrefix
    \/ Serve \/ Cvp \/ Fail

-----------------------------------------------------------------------------
(* Requests, in the main loop.                                               *)

\* The copy after an action has asked the library: an empty string, a diag file
\* that cannot be read and, for the time zone, the diag file leave it alone.
Refreshed(x) ==
    CASE x = "PlaybackUrl" /\ lib.tune_ready -> playbackurl
      [] x = "SystemIds" /\ lib.systemids # Unprinted /\ (devConf.useGliDiag \/ sys.diag # 0) -> SystemIds(lib)
      [] x = "TimeZone" /\ devConf.useGliDiag /\ lib.dsgtimezone # "" -> lib.dsgtimezone
      [] x = "DataGatewayIPaddress" /\ devConf.rfc_enabled -> gwystbip
      [] OTHER -> copy[x]

\* get_dataGatewayIPaddress_cb: where the device is not refactored the network
\* manager is asked, which may fail or have no route (getRouteData).
Asked(x) == x = "DataGatewayIPaddress" /\ ~devConf.rfc_enabled /\ sys.route # 0

\* What main.c hands out for a variable, given its copy: no url without a tuner.
Shown(x, v) == IF x = "PlaybackUrl" /\ ~lib.tune_ready THEN "NULL" ELSE v

\* Mutant: the action answers from the library and leaves the copy alone.
MutRead(c) ==
    /\ main = "up"
    /\ c \in devConf.users
    /\ client[c].reads < Len(Order)
    /\ LET x == Order[client[c].reads + 1]
       IN  client' = [client EXCEPT ![c].reads = @ + 1,
                                   ![c].value[x] = Shown(x, Refreshed(x))]
    /\ UNCHANGED <<devConf, sys, changes, history, bus, main, param, lib, copy, service_ready, wire>>

\* get_playback_url_cb, get_systemids_cb, get_timezone_cb and
\* get_dataGatewayIPaddress_cb for the next variable.  A client of either service
\* is answered.
Read(c) ==
    /\ main = "up"
    /\ c \in devConf.users
    /\ client[c].reads < Len(Order)
    /\ LET x == Order[client[c].reads + 1]
       IN  /\ \/ /\ Asked(x)
                 /\ copy' = [copy EXCEPT ![x] = sys.route]
                 /\ lib' = [lib EXCEPT !.dataGatewayIPaddress = sys.route]
                 /\ overtaken' = (overtaken \/ Contains(bus, <<"route", sys.route>>))
              \/ /\ copy' = [copy EXCEPT ![x] = Refreshed(x)]
                 /\ lib' = IF x = "SystemIds" /\ lib.systemids # Unprinted
                             THEN updatesystemids(lib) ELSE lib
                 /\ UNCHANGED overtaken
           /\ client' = [client EXCEPT ![c].reads = @ + 1,
                                       ![c].value[x] = Shown(x, copy'[x])]
    /\ UNCHANGED <<devConf, sys, changes, late, was0, bus, main, param, service_ready, wire>>

\* query_timezone_cb asks the library itself when the ids come from the file.
Queried(x) ==
    IF x = "TimeZone" /\ ~devConf.useGliDiag /\ lib.dsgtimezone # "" THEN lib.dsgtimezone ELSE copy[x]

\* The first event of a subscription carries the answers of the queries.
Subscribe(c) ==
    /\ main = "up"
    /\ client[c].reads = Len(Order)
    /\ ~client[c].subscribed
    /\ copy' = [x \in Var |-> Queried(x)]
    /\ wire' = [wire EXCEPT ![c] = Append(@, [x \in Var |-> Shown(x, copy'[x])])]
    /\ client' = [client EXCEPT ![c].subscribed = TRUE]
    /\ UNCHANGED <<devConf, sys, changes, history, bus, main, param, lib, service_ready>>

\* on_last_change of the client: the variables that the event carries.
Updated(value, event) == [x \in Var |-> IF x \in DOMAIN event THEN event[x] ELSE value[x]]

Deliver(c) ==
    /\ wire[c] # <<>>
    /\ client' = [client EXCEPT ![c].value = Updated(@, Head(wire[c]))]
    /\ wire' = [wire EXCEPT ![c] = Tail(@)]
    /\ UNCHANGED <<devConf, sys, changes, history, bus, main, param, lib, copy, service_ready>>

SystemManager ==
    \/ TuneReady \/ NewId \/ IdError \/ NewRoute \/ DiagFile
    \/ \E p \in Payload \cup {NoMatch} : TimeZone(p)
    \/ \E o \in {0, 60} : DstOffset(o)
    \/ \E v \in {"empty", "prefix"} : PrefixFile(v)

Next ==
    \/ SystemManager
    \/ SysEventHandler
    \/ MainThread
    \/ \E c \in Client : Read(c) \/ Subscribe(c) \/ Deliver(c)

Spec == Init /\ [][Next]_vars

\* Both threads are scheduled, the wait polls, and events reach the clients.
FairSpec ==
    /\ Spec
    /\ WF_vars(SysEventHandler)
    /\ WF_vars(MainThread)
    /\ \A c \in Client : WF_vars(Deliver(c))

-----------------------------------------------------------------------------

Initialised == main \in {"urls", "wait", "prefix_file", "prefix", "serve", "cvp", "up"}

\* Zone and DST offset arrive in either order, before or after the start.  A zone
\* that met an offset of 0 since it was announced is reported by the name of the
\* one without DST, until it is announced again; any other by its own: unless a
\* value changed while getSystemValues assigned the older answer.
ZoneNamed ==
    Initialised /\ ~late /\ bus = <<>> /\ sys.tz \in Payload =>
        lib.dsgtimezone = IF was0 THEN WithoutDst(javaTZ(sys.tz)) ELSE javaTZ(sys.tz)

\* A client never goes back to older ids: not by the first event of its
\* subscription, though main.c answers that from its copy, nor by an event that
\* was on its way, nor by an action of another client that refreshed the copy;
\* unless getSystemValues had an answer that was newer than an event not yet
\* handled.  Ids in error are empty (0), not older.
NeverOlder ==
    [][ late \/ \A c \in Client :
          \/ client'[c].value["SystemIds"] = 0
          \/ client'[c].value["SystemIds"] >= client[c].value["SystemIds"] ]_client

\* "A generic function to notify all the clients whenever there is a change":
\* a client that is subscribed when new ids or a new route come up ends with those
\* the managers have, unless an error took them back: where the ids come from the
\* bus, and through the DiscoverFriendlies service.  A route that an action of
\* another client had before its event is never reported (overtaken).
AllNotified ==
    \A c \in Client, x \in {"SystemIds", "DataGatewayIPaddress"} :
        LET field == IF x = "SystemIds" THEN "id" ELSE "route"
        IN  (/\ devConf.useGliDiag
             /\ Service[c] = "DiscoverFriendlies"
             /\ client[c].subscribed
             /\ Contains(bus, <<field, sys[field]>>))
                ~> (\/ client[c].value[x] = sys[field]
                    \/ sys[field] = 0
                    \/ x = "DataGatewayIPaddress" /\ overtaken)

\* A tuner that is ready for good, whenever it became so before or during the
\* wait, and on an IPv6 gateway a prefix that is there for good start the service,
\* or the process ends on the way (exit, EXIT_FAILURE).
StartsWhenReady ==
    (<>[](sys.tune /\ (devConf.ipv6 => sys.prefix = "prefix")) /\ []~late)
        => <>(main \in {"up", "ended"})
=============================================================================
