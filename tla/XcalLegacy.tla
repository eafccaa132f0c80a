------------------------------ MODULE XcalLegacy ------------------------------
(***************************************************************************)
(* The single-file xcal-device, src/src/xcal-device.c.  Its service        *)
(* variables are strings that two threads share without a lock: a thread   *)
(* of the IARM bus handles the events of the system manager and of the     *)
(* network manager, and the main thread initialises, waits for the serial  *)
(* number, the tuner and the IPv6 prefix, announces the device and then    *)
(* answers clients from the same strings.  XcalDevice models its successor.*)
(*                                                                         *)
(* A handler is a sequence of steps, as main sees them: it assigns a value *)
(* and then tests tune_ready, announces or withdraws the device, prints    *)
(* the ids, renames the zone and notifies (busy).  g_string_printf empties *)
(* a string and then fills it; two threads that do so at once may leave    *)
(* any text in it.                                                         *)
(*                                                                         *)
(* The four system ids are one; its value is a version number, 0 for none. *)
(* Left out: rawOffset, usesDaylightTime, the system mode, which no step   *)
(* reads, and the variables that are assigned once before the service      *)
(* starts, which are handed out like the others.  A start that fails ends  *)
(* the process; no restart is modelled.                                    *)
(***************************************************************************)
EXTENDS Integers, Sequences

CONSTANTS
    Conf,               \* builds and configurations, one of which is run
    Sys,                \* the managers' values at the start
    Zone,               \* time zones the system manager may announce
    Garbage             \* answers of GetSystemStates when the call fails

Field == {"tune", "id", "tz", "dst", "serial", "route"}
Var == {"PlaybackUrl", "SystemIds", "TimeZone", "DataGatewayIPaddress"}

\* client: CLIENT_XCAL_SERVER.  ipv6: a gateway with IPv6 and a prefix file.
\* varying, limit: bounds, which values change, and how often in all.
ASSUME ConfAssumption ==
    /\ Conf \subseteq [client : BOOLEAN, useGliDiag : BOOLEAN, rmfCrshSupp : BOOLEAN,
                       disableTuneReady : BOOLEAN, ipv6 : BOOLEAN,
                       varying : SUBSET (Field \cup {"diag", "prefix"}), limit : Nat]
    /\ \A c \in Conf : c.client => c.useGliDiag
    /\ Zone \subseteq {"MST", "CST", "EST"}

Thread == {"bus", "main"}
Idle == [on |-> FALSE, raced |-> FALSE, text |-> 0]

NoAnswer == <<>>
None == "null"          \* what the strings hold at first, and an absent value
Fill == -1              \* a string emptied by g_string_printf and not yet filled
Junk == -2              \* a string that two threads printed into at once
NoDst == 2              \* the system manager has no DST offset
DstUnset == 1           \* "dstoffset can be only 0 or 60 so intializing with 1"

\* What the managers may have, and what an answer may hold.
ASSUME ValuesAssumption ==
    Sys \cup Garbage \subseteq
        [tune : BOOLEAN, id : Nat, tz : Zone \cup {None}, dst : {0, 60, NoDst},
         serial : {"short", "serial"}, route : {None, "r1", "r2"}]

VARIABLES
    conf,
    sys,            \* the managers' values
    diag,           \* the ids in the diag file; 0: it cannot be read
    prefixFile,     \* the dibbler file: "absent", "empty" or "prefix"
    changes,
    stale,          \* history: values that the start may have taken too old
    was0,           \* history: no DST since the zone was last announced
    bus,            \* IARM events not yet handled
    busy,           \* the steps left of the event being handled
    main,           \* where the main thread is; "ended": the process is gone
    param,          \* the answer of GetSystemStates or getCurrentRouteData, in use
    lib,            \* the variables of the file
    printing,       \* per thread: the ids it is printing
    spoilt,         \* history: the ids were printed by two threads at once
    xml,            \* the serial number in the description
    dev,            \* the root device: "none", "hidden" or "announced"
    client          \* subscribed, its values, events on their way to it

env   == <<conf, sys, diag, prefixFile, changes, was0>>
ids   == <<printing, spoilt>>
vars  == <<env, stale, bus, busy, main, param, lib, ids, xml, dev, client>>

Init ==
    /\ conf \in Conf
    /\ sys \in Sys
    /\ diag \in IF conf.useGliDiag THEN {0} ELSE {0, 1}
    /\ prefixFile \in IF conf.ipv6 THEN {"absent", "empty", "prefix"} ELSE {"absent"}
    /\ changes = 0
    /\ stale = {}
    /\ was0 = (sys.dst = 0)
    /\ bus = <<>>
    /\ busy = <<>>
    /\ main = "register"
    /\ param = NoAnswer
    /\ lib = [tune_ready |-> FALSE, id |-> 0, systemids |-> 0, dsgtimezone |-> None,
              dstOffset |-> DstUnset, serial_num |-> None, dataGatewayIPaddress |-> None,
              ipv6prefix |-> FALSE]
    /\ printing = [t \in Thread |-> Idle]
    /\ spoilt = FALSE
    /\ xml = None
    /\ dev = "none"
    /\ client = [subscribed |-> FALSE, value |-> [x \in Var |-> None], wire |-> <<>>]

-----------------------------------------------------------------------------
(* The strings. *)

javaTZ(p) ==
    CASE p = "MST" -> "US/Mountain" [] p = "CST" -> "US/Central" [] p = "EST" -> "US/Eastern"

\* notify_timezone, without the notification.
Renamed(z, offset) ==
    CASE z = "US/Mountain" /\ offset = 0 -> "US/Arizona"
      [] z = "US/Central" /\ offset = 0 -> "Canada/Saskatchewan"
      [] OTHER -> z

\* updatesystemids: what is printed.
Printed == IF conf.useGliDiag THEN lib.id ELSE diag

Other(t) == IF t = "bus" THEN "main" ELSE "bus"

\* The ids are read, and the string is emptied.
BeginPrint(t) ==
    LET race == printing[Other(t)].on
    IN  /\ lib' = [lib EXCEPT !.systemids = Fill]
        /\ printing' = [printing EXCEPT ![t] = [on |-> TRUE, raced |-> race, text |-> Printed],
                                        ![Other(t)].raced = race]
        /\ UNCHANGED spoilt

\* The string is filled.
EndPrint(t) ==
    /\ \E text \in {printing[t].text} \cup (IF printing[t].raced THEN {Junk} ELSE {}) :
         lib' = [lib EXCEPT !.systemids = text]
    /\ spoilt' = IF printing[t].raced THEN TRUE ELSE spoilt /\ t = "main"
    /\ printing' = [printing EXCEPT ![t] = Idle]

\* What a query answers: query_playback_url_cb and the others.  "url" is what
\* playbackurl holds.
Shown(x) ==
    CASE x = "PlaybackUrl" -> IF lib.tune_ready THEN "url" ELSE "NULL"
      [] x = "SystemIds" -> lib.systemids
      [] x = "TimeZone" -> lib.dsgtimezone
      [] x = "DataGatewayIPaddress" -> lib.dataGatewayIPaddress

\* notify_value_change: before the service is ready nobody is told.
Notified(x) ==
    LET v == IF x = "PlaybackUrl" THEN "url" ELSE Shown(x)
    IN  IF main \in {"up", "answer"} /\ client.subscribed
        THEN [client EXCEPT !.wire = Append(@, <<x, v>>)] ELSE client

-----------------------------------------------------------------------------
(* The managers and the files (external). *)

\* The steps of the main thread that hold an answer with a value not yet assigned.
Window(f) ==
    CASE f = "id" -> {"assign_id"}
      [] f = "tz" -> {"assign_id", "assign_tz"}
      [] f = "dst" -> {"assign_id", "assign_tz", "assign_dst"}
      [] f = "tune" -> {"assign_id", "assign_tz", "assign_dst", "assign_tune"}
      [] f = "serial" -> {"assign_id", "assign_tz", "assign_dst", "assign_tune", "assign_serial"}
      [] f = "route" -> {"assign_route"}

Publish(f, v) ==
    /\ changes < conf.limit
    /\ f \in conf.varying /\ v # sys[f]
    /\ changes' = changes + 1
    /\ sys' = [sys EXCEPT ![f] = v]
    /\ bus' = IF main = "register" THEN bus ELSE Append(bus, <<f, v>>)
    /\ was0' = CASE f = "tz" -> sys.dst = 0
                 [] f = "dst" -> was0 \/ v = 0
                 [] OTHER -> was0
    /\ stale' = IF main \in Window(f) THEN stale \cup {f} ELSE stale
    /\ UNCHANGED <<conf, diag, prefixFile, busy, main, param, lib, ids, xml, dev, client>>

NewTune == Publish("tune", ~sys.tune)
NewId == \E v \in {changes + 2, 0} : Publish("id", v)
NewZone == \E p \in Zone : Publish("tz", p)
NewDst == \E o \in {0, 60} : Publish("dst", o)
NewSerial == \E s \in {"short", "serial"} : Publish("serial", s)
NewRoute == \E r \in {"r1", "r2"} : Publish("route", r)

\* The diag file and the file with the IPv6 prefix are written.
NewFile ==
    /\ changes < conf.limit
    /\ changes' = changes + 1
    /\ \/ diag' = changes + 2 /\ "diag" \in conf.varying /\ UNCHANGED prefixFile
       \/ prefixFile' \in {"empty", "prefix"} \ {prefixFile} /\ "prefix" \in conf.varying /\ UNCHANGED diag
    /\ UNCHANGED <<conf, sys, was0, stale, bus, busy, main, param, lib, ids, xml, dev, client>>

-----------------------------------------------------------------------------
(* The bus thread. *)

\* The ids are printed again where they come from the diag file, and the client is told.
Reprint ==
    IF conf.useGliDiag THEN <<"PlaybackUrl">>
                       ELSE <<"begin", "end", "SystemIds", "PlaybackUrl">>

\* Mutant: the device is not withdrawn when the tuner is lost.
MutNotWithdrawn ==
    CASE Head(busy) = "test" -> IF lib.tune_ready THEN <<"announce">> ELSE <<>>
      [] Head(busy) = "announce" -> Reprint
      [] OTHER -> Tail(busy)

\* What follows a step of the handler: tune_ready is tested again after it was
\* assigned, and the main thread may assign it between the test and what follows.
Following ==
    CASE Head(busy) = "test" -> <<IF lib.tune_ready THEN "announce" ELSE "hide">>
      [] Head(busy) = "announce" -> Reprint
      [] OTHER -> Tail(busy)

\* Mutant: the clients are told before the ids are printed again.
MutNotifyFirst(f, v) ==
    CASE f = "id" /\ v # 0 -> <<"SystemIds", "begin", "end">>
      [] f = "route" /\ lib.dataGatewayIPaddress # v -> <<"DataGatewayIPaddress">>
      [] OTHER -> <<>>

\* Mutant: a zone announced after the offset keeps its own name.
MutNotRenamed(f, v) ==
    CASE f = "dst" /\ lib.dsgtimezone # None -> <<"rename", "TimeZone">>
      [] OTHER -> <<>>

\* What follows the assignment in _sysEventHandler and _routesysEventHandler.
Rest(f, v) ==
    CASE f = "tune" /\ lib.tune_ready # v /\ conf.rmfCrshSupp -> <<"test">>
      [] f = "tune" /\ lib.tune_ready # v /\ ~conf.rmfCrshSupp -> Reprint
      [] f = "id" /\ v # 0 -> <<"begin", "end", "SystemIds">>
      [] f = "tz" /\ lib.dstOffset # DstUnset -> <<"rename", "TimeZone">>
      [] f = "dst" /\ lib.dsgtimezone # None -> <<"rename", "TimeZone">>
      [] f = "route" /\ lib.dataGatewayIPaddress # v -> <<"DataGatewayIPaddress">>
      [] OTHER -> <<>>

Assigned(l, f, v) ==
    CASE f = "tune" -> [l EXCEPT !.tune_ready = v]
      [] f = "id" -> [l EXCEPT !.id = v]
      [] f = "tz" -> [l EXCEPT !.dsgtimezone = javaTZ(v)]
      [] f = "dst" -> [l EXCEPT !.dstOffset = v]
      [] f = "serial" -> [l EXCEPT !.serial_num = v]
      [] f = "route" -> [l EXCEPT !.dataGatewayIPaddress = v]

\* An event ends what was stale, unless the start still overwrites it; a serial
\* number that comes between the wait for it and its use is used unchecked.
StaleAfter(f, v) ==
    (stale \ (IF main \in Window(f) THEN {}
              ELSE CASE f = "tz" /\ "dst" \notin stale -> {"tz", "zone"}
                     [] f = "tune" /\ Rest(f, v) # <<>> -> {"tune", "dev"}
                     [] OTHER -> {f}))
    \cup (IF f = "serial" /\ main = "xml" THEN {"xml"} ELSE {})

\* The next event: its value is assigned.
Handle ==
    /\ busy = <<>>
    /\ bus # <<>>
    /\ LET f == Head(bus)[1]
           v == Head(bus)[2]
       IN  /\ busy' = Rest(f, v)
           /\ lib' = Assigned(lib, f, v)
           /\ stale' = StaleAfter(f, v)
    /\ bus' = Tail(bus)
    /\ UNCHANGED <<env, main, param, ids, xml, dev, client>>

\* gupnp_root_device_set_available: without a device it does nothing.
SetAvailable(b) == dev' = IF dev = "none" THEN dev ELSE IF b THEN "announced" ELSE "hidden"

\* The next step of the event being handled.
HandleStep ==
    /\ busy # <<>>
    /\ busy' = Following
    /\ \/ Head(busy) = "test" /\ UNCHANGED <<lib, ids, client, dev>>
       \/ Head(busy) = "announce" /\ SetAvailable(TRUE) /\ UNCHANGED <<lib, ids, client>>
       \/ Head(busy) = "hide" /\ SetAvailable(FALSE) /\ UNCHANGED <<lib, ids, client>>
       \/ Head(busy) = "begin" /\ BeginPrint("bus") /\ UNCHANGED <<dev, client>>
       \/ Head(busy) = "end" /\ EndPrint("bus") /\ UNCHANGED <<dev, client>>
       \/ /\ Head(busy) = "rename"
          /\ lib' = [lib EXCEPT !.dsgtimezone = Renamed(@, lib.dstOffset)]
          /\ UNCHANGED <<ids, dev, client>>
       \/ /\ Head(busy) \in Var
          /\ client' = Notified(Head(busy))
          /\ spoilt' = (spoilt \/ (Head(busy) = "SystemIds" /\ printing["main"].on))
          /\ UNCHANGED <<lib, printing, dev>>
    /\ UNCHANGED <<env, stale, bus, main, param, xml>>

BusThread == main # "ended" /\ (Handle \/ HandleStep)

-----------------------------------------------------------------------------
(* The main thread. *)

At(from, to) == main = from /\ main' = to /\ UNCHANGED <<env, bus, busy>>

Same == UNCHANGED <<stale, param, lib, ids, xml, dev, client>>

\* XUPnP_IARM_Init: the handlers are registered first.
Register == At("register", IF conf.client THEN "serial" ELSE "call") /\ Same

\* getSystemValues: the answer; when the call fails, what the stack held.
Call ==
    /\ At("call", "assign_id")
    /\ \/ param' = sys /\ UNCHANGED stale
       \/ param' \in Garbage /\ stale' = stale \cup (Field \ {"route"}) \cup {"zone"}
    /\ UNCHANGED <<lib, ids, xml, dev, client>>

\* The values of the answer, one after the other.
AssignedAs(from, to, f, absent, l) ==
    /\ At(from, to)
    /\ lib' = IF param[f] = absent THEN lib ELSE l
    /\ UNCHANGED <<stale, ids, xml, dev, client>>

AssignId ==
    /\ AssignedAs("assign_id", "assign_tz", "id", 0, Assigned(lib, "id", param.id))
    /\ UNCHANGED param

\* mapTimeZoneToJavaFormat
AssignTz ==
    /\ AssignedAs("assign_tz", "assign_dst", "tz", None,
                  [lib EXCEPT !.dsgtimezone = Renamed(javaTZ(param.tz), lib.dstOffset)])
    /\ UNCHANGED param

AssignDst ==
    /\ AssignedAs("assign_dst", "assign_tune", "dst", NoDst,
                  [lib EXCEPT !.dstOffset = param.dst,
                              !.dsgtimezone = Renamed(lib.dsgtimezone, param.dst)])
    /\ UNCHANGED param

AssignTune ==
    /\ At("assign_tune", "assign_serial")
    /\ lib' = Assigned(lib, "tune", param.tune)
    /\ UNCHANGED <<stale, param, ids, xml, dev, client>>

AssignSerial ==
    /\ At("assign_serial", "print")
    /\ lib' = Assigned(lib, "serial", param.serial)
    /\ param' = NoAnswer
    /\ UNCHANGED <<stale, ids, xml, dev, client>>

\* The receiver id is known: the urls and the ids are printed.
PrintUrls == At("print", "printed") /\ BeginPrint("main") /\ UNCHANGED <<stale, param, xml, dev, client>>
EndUrls == At("printed", "serial") /\ EndPrint("main") /\ UNCHANGED <<stale, param, xml, dev, client>>

\* Mutant: a serial number of any form ends the wait.
MutSerialNumber ==
    /\ At("serial", IF conf.client THEN "route" ELSE "xml")
    /\ lib.serial_num # None /\ UNCHANGED lib
    /\ UNCHANGED <<stale, param, ids, xml, dev, client>>

\* 6 characters or more, all alphanumeric.
is_alphanum(s) == s = "serial"

\* A client reads the serial number from a file or a script, which may fail.
getserialnum == {lib, [lib EXCEPT !.serial_num = "serial"]}

\* Polled until it has its form.
SerialNumber ==
    /\ At("serial", IF conf.client THEN "route" ELSE "xml")
    /\ IF conf.client THEN lib' \in getserialnum
                      ELSE is_alphanum(lib.serial_num) /\ UNCHANGED lib
    /\ UNCHANGED <<stale, param, ids, xml, dev, client>>

\* getRouteData: a call that fails leaves the status and the address undefined.
CallRoute ==
    /\ At("route", "assign_route")
    /\ \/ param' = sys /\ UNCHANGED stale
       \/ param' \in {[sys EXCEPT !.route = r] : r \in {None, "junk"}}
          /\ stale' = stale \cup {"route"}
    /\ UNCHANGED <<lib, ids, xml, dev, client>>

AssignRoute ==
    /\ AssignedAs("assign_route", "xml", "route", None, Assigned(lib, "route", param.route))
    /\ param' = NoAnswer

\* updatexmldata reads the serial number again.
UpdateXml == At("xml", "device") /\ xml' = lib.serial_num /\ UNCHANGED <<stale, param, lib, ids, dev, client>>

\* The context and the root device.
RootDevice ==
    /\ At("device", IF conf.client THEN "publish" ELSE "tune")
    /\ dev' = "hidden"
    /\ UNCHANGED <<stale, param, lib, ids, xml, client>>

\* Mutant: the wait cannot be disabled.
MutTuneReady ==
    /\ At("tune", IF conf.ipv6 THEN "prefix_file" ELSE "publish")
    /\ lib.tune_ready
    /\ Same

\* Polled, or disabled.
TuneReady ==
    /\ At("tune", IF conf.ipv6 THEN "prefix_file" ELSE "publish")
    /\ IF conf.disableTuneReady
         THEN lib' = [lib EXCEPT !.tune_ready = TRUE] /\ stale' = stale \cup {"tune"}
         ELSE lib.tune_ready /\ UNCHANGED <<lib, stale>>
    /\ UNCHANGED <<param, ids, xml, dev, client>>

PrefixFile == At("prefix_file", "prefix") /\ prefixFile # "absent" /\ Same

\* getipv6prefix
Prefix ==
    /\ At("prefix", "publish")
    /\ prefixFile = "prefix"
    /\ lib' = [lib EXCEPT !.ipv6prefix = TRUE]
    /\ UNCHANGED <<stale, param, ids, xml, dev, client>>

Undecided == busy # <<>> /\ Head(busy) = "test"
Hiding == busy # <<>> /\ Head(busy) = "hide"

\* The device is announced, whatever became of the tuner during the waits, and
\* whatever the handler has decided and not yet done.
Announce ==
    /\ At("publish", "connect")
    /\ SetAvailable(TRUE)
    /\ stale' = IF Undecided \/ lib.tune_ready # Hiding THEN stale ELSE stale \cup {"dev"}
    /\ UNCHANGED <<param, lib, ids, xml, client>>

\* The callbacks are connected, service_ready; the remote UI device, if any.
Connect == At("connect", "up") /\ Same

\* The process ends: the description is not written, there is no context, no
\* DiscoverFriendlies service, or the remote UI device has none of them.
Fail == (At("xml", "ended") \/ At("device", "ended") \/ At("connect", "ended")) /\ Same

Start ==
    \/ Register \/ Call \/ AssignId \/ AssignTz \/ AssignDst \/ AssignTune \/ AssignSerial
    \/ PrintUrls \/ EndUrls \/ SerialNumber \/ CallRoute \/ AssignRoute \/ UpdateXml
    \/ RootDevice \/ TuneReady \/ PrefixFile \/ Prefix \/ Announce \/ Connect \/ Fail

-----------------------------------------------------------------------------
(* The main loop. *)

\* get_systemids_cb prints the ids again, for any client.
GetSystemIds == At("up", "answer") /\ BeginPrint("main") /\ UNCHANGED <<stale, param, xml, dev, client>>
Answer == At("answer", "up") /\ EndPrint("main") /\ UNCHANGED <<stale, param, xml, dev, client>>

\* gettimezone: the zone in the DSG file, if it can be read.
DsgZone == {lib} \cup (IF conf.useGliDiag THEN {} ELSE {[lib EXCEPT !.dsgtimezone = "DSG"]})

GetTimeZone ==
    /\ At("up", "up")
    /\ lib' \in DsgZone \ {lib}
    /\ UNCHANGED <<stale, param, ids, xml, dev, client>>

\* The first event of a subscription carries the answers of the query callbacks.
\* query_timezone_cb reads the file first, as get_timezone_cb does.
Subscribe ==
    /\ At("up", "up")
    /\ ~client.subscribed
    /\ lib' \in DsgZone
    /\ client' = [client EXCEPT !.subscribed = TRUE,
                                !.wire = Append(@, <<"all", [x \in Var |-> Shown(x)']>>)]
    /\ UNCHANGED <<stale, param, ids, xml, dev>>

\* on_last_change of the client.
Deliver ==
    /\ client.wire # <<>>
    /\ LET x == Head(client.wire)[1]
           v == Head(client.wire)[2]
       IN  client' = [client EXCEPT !.wire = Tail(@),
                        !.value = IF x = "all" THEN v ELSE [@ EXCEPT ![x] = v]]
    /\ UNCHANGED <<env, stale, bus, busy, main, param, lib, ids, xml, dev>>

Managers == NewTune \/ NewId \/ NewZone \/ NewDst \/ NewSerial \/ NewRoute \/ NewFile

Next == Managers \/ BusThread \/ Start \/ GetSystemIds \/ Answer \/ GetTimeZone \/ Subscribe \/ Deliver

Spec == Init /\ [][Next]_vars

\* Both threads are scheduled and the waits poll.
FairSpec == Spec /\ WF_vars(BusThread) /\ WF_vars(Start)

-----------------------------------------------------------------------------
(* Properties. *)

Started == main \in {"up", "answer"}
Settled == bus = <<>> /\ busy = <<>>
Quiet == Settled /\ main = "up" /\ client.subscribed /\ client.wire = <<>>

\* Where the device is withdrawn while there is no tuner, it is announced exactly
\* while there is one.  The exception is a start whose announcement crossed the
\* handler: the tuner was lost between the wait and the announcement, or the
\* handler had decided to withdraw the device when the main thread set tune_ready
\* and announced it, and did so afterwards; the next change of the tuner ends that.
AvailableFollowsTuner ==
    conf.rmfCrshSupp /\ Started /\ Settled /\ "dev" \notin stale =>
        (dev = "announced") = lib.tune_ready

\* The description carries a serial number of the required form, unless one of
\* another form came between the wait and updatexmldata.
SerialDescribed ==
    ~conf.client /\ xml # None /\ "xml" \notin stale => xml = "serial"

\* Once everything is handled and delivered, a subscribed client has the values
\* the managers have: whether they changed before the start, during it, between
\* two steps of a handler or while an action read the strings.  But nobody is
\* told of a new zone while there is no DST offset (mapTimeZoneToJavaFormat).
CurrentWhenQuiet ==
    Quiet =>
      /\ (/\ conf.useGliDiag /\ sys.id # 0 /\ (conf.client => lib.id # 0)
          /\ "id" \notin stale /\ ~spoilt) => client.value["SystemIds"] = sys.id
      /\ conf.useGliDiag /\ lib.dstOffset # DstUnset =>
           client.value["TimeZone"] = lib.dsgtimezone
      /\ (/\ conf.client \/ lib.dataGatewayIPaddress # None
          /\ sys.route # None /\ "route" \notin stale)
             => client.value["DataGatewayIPaddress"] = sys.route
      /\ lib.tune_ready => client.value["PlaybackUrl"] = "url"

\* The zone and the DST offset arrive in any order, as events or in the answer:
\* without DST the zone has the name of the one that never has it, and with DST
\* its own; but where DST began after the zone was announced, the name without
\* DST may stay until the zone is announced again.
ZoneNamed ==
    (/\ Settled /\ ~conf.client /\ conf.useGliDiag
     /\ main \notin {"register", "call"} \cup Window("dst")
     /\ sys.tz # None /\ stale \cap {"tz", "dst", "zone"} = {}) =>
        /\ sys.dst = 0 => lib.dsgtimezone = CASE sys.tz = "MST" -> "US/Arizona"
                                              [] sys.tz = "CST" -> "Canada/Saskatchewan"
                                              [] sys.tz = "EST" -> "US/Eastern"
        /\ sys.dst # 0 /\ ~was0 => lib.dsgtimezone = javaTZ(sys.tz)

\* Once there are a serial number, a tuner and a prefix for good, the device
\* starts, or ends because its description, a context or a service failed: unless
\* the start took an older answer for the newer event.
StartsWhenReady ==
    ( /\ <>[](/\ sys.serial = "serial"
              /\ sys.tune \/ conf.disableTuneReady
              /\ prefixFile = "prefix" \/ ~conf.ipv6)
      /\ []("serial" \notin stale /\ ("tune" \notin stale \/ conf.disableTuneReady)) )
        => <>(main \in {"up", "ended"})
=============================================================================
