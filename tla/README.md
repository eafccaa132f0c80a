# A TLA+ model of rdk-xupnp

rdk-xupnp lets the set-top boxes and gateways of a home find one another over
UPnP.  Every device runs `xcal-device`, which announces it and serves its
attributes; gateways and clients run `xdiscovery`, which collects the devices
of the network and publishes the list as JSON; `libupnpidm` does the same for
the inter-device manager.  This directory models the parts that change state
concurrently, checks them with TLC on small instances, and proves the central
invariants with TLAPS for every instance.

Paths below are relative to the repository root (`src/xdiscovery.c` is
`src/src/xdiscovery.c` in PROJECT.json).

## Inventory

| Component | State | Operations | Talks to | What is hard |
|---|---|---|---|---|
| xdiscovery: device list (`src/xdiscovery.c`) | `xdevlist`, `outputcontents`, `deviceAddNo`, `partialDiscovery`, `gatewayDetected`, `selfDeviceDiscovered` | available, unavailable and change callbacks of four control points; `update_gwylist`, `delete_gwyitem`, `sendDiscoveryResult`; `verify_devices` | gupnp/gssdp callbacks, HTTP probe, IARM listeners, the JSON file | main loops nested in requests; a second thread that deletes and publishes; pointers kept across requests; counters that must return to 0 |
| xdiscovery: IARM interface (`src/xdiscovery.c`) | none of its own | `GetXUPNPDeviceInfo`, `notifyXUPnPDataUpdateEvent`, `_evtHandler` | IARM bus | a buffer of the length the text had some time ago |
| xdiscovery: white list (`src/xdiscovery.c`, BROADBAND) | hash table in shared memory, overflow FIFO | `dp_wlistInit`, `dpnode_lookup`, `dpnode_insert`, `dpnode_delete` | the device list, the firewall that reads the segment | collisions, table boundaries, restarts, an uninitialised status |
| media browser (`src/mediabrowser.c`, `src/dlna-rpc/`) | `msList`, `locker` | two UPnP callbacks, three rbus methods, the client library | main loop and rbus thread | a lock shared by two threads, indexes across calls, time limits |
| libupnpidm (`src/idm_client.c`, `src/idm_server.c`, `src/idm_library.c`) | `xdevlist`, `accountId`, `deviceAddNo`, restart flag | `start_discovery`, `stop_discovery`, callbacks, `verify_devices` | its caller's callback, the server half | restarts during discovery, nested loops, account ids that become known late |
| libupnpidm: WAN thread (`src/idm_client.c`) | certificate flags of gupnp | `EventHandler`, `EventListen` | sysevent | a change between registration and first read |
| xcal-device: variables (`xcal-device-main.c`, `video/lib/src/xcal_device_library.c`) | library variables, main.c's copies, `tune_ready`, `service_ready` | IARM handlers, actions, queries, notifications | system and network manager, UPnP clients | three copies of every value on two threads and in clients |
| xcal-device: start-up (`xcal-device-main.c`) | description files, refactoring switch, root devices | `main`, `updatexmldata` | systemd, file system, xdiscovery on other devices | crashes between steps, state that outlives the process |
| broadband library (`broadband/lib/src/`) | `gwyip`, `gwyipv6`, `accountId` | `xdeviceInit`, `getipaddress`, `getAccountId` | network interfaces, system configuration | addresses that come and go between the rounds of a bounded search |
| account exchange and MoCA white list (`xcal-device-main.c`) | the list, external | `get_account_id_cb` | `moca_whitelist_ctl.sh`, clients | a list that outlives the process, account ids that change |
| legacy `src/xcal-device.c` | its service strings, the description, `tune_ready` | the same handlers in one file, waits for serial number, tuner and prefix, announcement and withdrawal | managers, UPnP clients | two threads that print into the same strings without a lock |
| configuration, addresses, serial numbers, CVP-2 urls, TLS interaction, breakpad, scripts | none | parsing, string assembly, system calls | | not modelled: no state that other parts depend on |

PROJECT.json lists the same components with their status, and under "hazards"
the places in the code that a test would hardly reach.

## Modules and how they correspond to the code

`MCX.tla` instantiates a module for TLC; proofs are in `XProofs.tla`.  "map" in
PROJECT.json gives the source lines of every definition.

**Xdiscovery.**  The main thread is a stack of activations (`stack["main"]`): a
callback that sends a UPnP request before GUPnP 1.2 runs a nested main loop,
and other callbacks run to completion inside it.  With GUPnP 1.2 requests block
(`Reentrant = FALSE`), and the stack has at most one activation.
`verify_devices` has a stack of its own, since deactivating a resource browser
makes gssdp report every cached resource on the calling thread.  An activation
moves through the places where another thread or a nested callback can
interfere: `prefix` and `services` (requests), `find`, `delfind`, `remove`,
`insert` (update_gwylist, delete_gwyitem), `copy`, `build`, `publish`
(sendDiscoveryResult), `exists`, `probe` (unavailable callback), `assign`
(on_last_change).  It records the entries it points to (`held`) and which of
them have been freed (`freed`); a use of a freed entry yields any value.  No
callback holds the lock while it looks an entry up: a walk that stands on the
link the other thread unlinks ends there (`CutShort`), and an entry that the
other thread has freed since the lookup is unlinked and freed again
(`RemoveFreed`).  `torn` records either, and from then on the process may end at
any time (`Crash`).
A device is its serial number; its attributes are one value.

**Directory, XdiscoveryDirectory.**  Directory is what the daemon promises a
reader, without callbacks, threads or pointers: a directory that changes one
device at a time, publishes each change whole before it makes the next, and
never drops the device itself.  XdiscoveryDirectory gives the refinement
mapping: the directory is the list, the published one is `outputcontents`, and
the device being replaced is the one of an activation at `insert`.  It holds in
builds where only the main thread runs callbacks (not CLIENT_XCAL_SERVER).

**XdiscoveryIarm** composes Xdiscovery with the bus and a reader: every
publication posts an event with the length of the text, the reader allocates a
buffer of that length, and `GetXUPNPDeviceInfo` copies whatever the text is by
then, if it fits.  The reader, the bus and the length of a text are external.

**DpWhitelist.**  The table, with the folded hash of `dp_hashindex` in base
MAX_ENTRIES, and the calls from `update_gwylist` and `delete_gwyitem`.  A device
has two attributes that they ask for: its type (`XG`), which decides the
insertion, and what it answers to IsGateway (`Gateways`), which decides first
whether `delete_gwyitem` looks at the type at all.  `update_gwylist` inserts into
the list, then looks the address up and then stores it (`Update`,
`InsertLookup`, `InsertStore`), without the lock; the flush may delete in
between, and `InsertFault` is what follows when it frees the device itself.  The
status that `dpnode_lookup` leaves unset on some paths is any value of
`StackStat`.  The overflow FIFO is always empty, as `INIT_FIFO` is never
called.  The segment survives a restart; the device list does not.

**MediaBrowser.**  The list, the lock, the callback on the main loop, the
method on the rbus thread (`rpc`), and a client that calls and waits.  After the
time limit of rbus the call has failed (`GiveUp`) and is still served; the
library does not repeat it, but the application may call again.  An entry is
never removed, as the unavailable callback drops what it looked up.

**IdmDiscovery.**  `start_discovery` as a sequence of phases, the callbacks as
in Xdiscovery, the account id that both halves share, and the caller's
knowledge (`reported`) from the callbacks it got.  The three builds (nested
main loops, blocking requests, IDM_DEBUG) and whether account reads fail are
one variable, `build`.

**IdmWan.**  The thread that follows `wan-status`; notifications are queued by
sysevent after the registration.

**XcalDevice.**  The managers' values, the IARM queue, the library's variables,
main.c's copies, and what each client holds or has in flight.  The main thread
waits for the tuner and, on an IPv6 gateway, for the prefix file and the prefix
in it (`WaitTuneReady`, `WaitPrefixFile`, `WaitPrefix`), then creates its devices
(`Serve`, and `Cvp` for the RemoteUI server), each of which may end the process
(`Fail`).  A zone that `tzStruct` does not have is `NoMatch`.  Four variables
(playback url, system ids, time zone, route) stand for all service variables.
`devConf` is the configuration; `varying` and `users` in it bound which values
change and which clients there are.  Three history variables are read by no
action: `late` (a value changed while `getSystemValues` ran), `was0` (the zone
has met a DST offset of 0), `overtaken` (an action had a route before its event
was handled).  The receiver id that initialisation waits for is assumed to be
known in the end.

**XcalStartup.**  `main` from `check_rfc` to the main loop, with the description
files that outlive it, of the basic device, the protected one and the RemoteUI
server (CVP2): `updatexmldata` empties a file, then writes it.  `Crash` is a
process that is killed and one that exits on an error.  Every
start finds the switch, the certificates and the network (`context`) as they
may be.

**XcalBroadband** extends XcalStartup, on a broadband gateway: `xdeviceInit`
looks for an address of the broadcast interface before `main` goes on, round by
round, and ends the process when it finds none.  Each address, the IPv6 file
and the account id may come and go between two steps.  `result`, which the C
code does not initialise, starts with any value.  After the start clients
exchange account ids, and the MoCA list outlives the process.

**XcalLegacy.**  The single-file device.  A handler is a list of steps (`busy`)
that the main thread may interrupt; the test of `tune_ready` and the
announcement or withdrawal that it decides are two of them.  A start that fails
ends the process for good (`ended`): a restart is not modelled.  Printing a string is two steps, and two
threads that print at once leave any text (`Junk`).  `stale` records the values
that the start may have taken from an older answer, or from a failed call whose
answer is whatever the stack held (`Garbage`).  Where the ids come from the diag
file, that file is assumed to be configured; it may be unreadable.

### Composition

XdiscoveryIarm composes the daemon with its readers, XcalBroadband the start-up
with the library under it.  xdiscovery and xcal-device meet in two interfaces
that both sides model the same way: the UPC mark 10000 (`XcalStartup!UPC`,
`Reachable`; `Xdiscovery!UpcMatches`), and change events (`XcalDevice!Deliver`
is `on_last_change`, whose handling is `Xdiscovery!Change`).  DpWhitelist models
the part of `update_gwylist` and `delete_gwyitem` that Xdiscovery leaves out.

## Runs

Passing runs:

| Run | Checks | Shows |
|---|---|---|
| xdiscovery_nested | AddCountExact, PublishedWhenQuiet, ReaderCurrent, OnlyZeroPast, SelfStaysPublished, ImplementsDirectory | legacy devices, three nested callbacks, one thread, an IARM reader: the daemon implements the directory, and a reader that has handled every event has the published text |
| xdiscovery_blocking | TypeOK, RescansForever, DeadRemoved, SelfFoundOrRestarted | requests block, a refactored gateway and a renderer: a renderer that leaves for good is removed, rescans never stop, and the self-discovery watchdog works |
| xdiscovery_flush | SortedUnique, AddCountCovers | two threads that look up without a lock, and nested callbacks: the list is sorted unless a lookup was cut short or an entry removed twice (both happen), and every addition is counted |
| dp_whitelist | TypeOK, OneSlotPerAddress, ListedAllowed, OnlyListedAllowed | collisions, shared addresses, slot 3, restarts, a device that is never taken off and a flush between the steps of an insertion do not disturb the addresses that have a slot of their own |
| media_browser | Enumerable | a client's enumeration is consistent while servers are added between its calls |
| idm_discovery | AddCountExact, SessionStartsEmpty, ReportedListed, SameAccountOnly, LeftReported | sessions stopped and started, nested additions, account ids that become known or cannot be read |
| idm_wan | FullOnceUp, FullStays | no lost change of wan-status |
| xcal_device | ZoneNamed, NeverOlder, AllNotified, StartsWhenReady | the managers' values in every order, in five configurations, with events, actions and subscriptions of two clients |
| xcal_startup | ProtectedIsMarked, Reachable, OwnAddress, MocaFollowsAccount, ComesUpLinked | a broadband gateway with a crash anywhere, also inside a write, and changes of the network and the account |
| xcal_legacy | AvailableFollowsTuner, SerialDescribed, CurrentWhenQuiet, ZoneNamed, StartsWhenReady | two threads that share strings without a lock, in six builds and configurations |

Runs that show a disagreement between the code and what a comment in it says
(the quotes are under "findings"):

| Run | Property | What the code does |
|---|---|---|
| dp_colliding | SuccessIsStored | a colliding insert reports success and stores nothing |
| media_browser_lock | MethodReturns | the lock is not released when a server leaves |

### Conditions in the properties

Several properties hold only under a condition, because the code behaves
otherwise without it.  The condition is part of the property or of the
instance, and the behaviour outside it is under "hazards":

* `DeadRemoved` leaves out gateways.  One that answers the HTTP probe is kept,
  and gssdp, which has dropped it, never reports it again.  Where main loops
  nest, a device may also leave during its own addition, and is then inserted
  after its unavailable callback has run: the run is one where requests block.
* `SortedUnique` speaks of a list that no lookup without the lock has met while
  the other thread unlinked, and from which no entry was removed by both threads
  (`torn`).  Afterwards the list may have an entry twice, and the process may
  end.  The use of an entry that a nested callback freed during `GetIpv6Prefix`
  (`src/xdiscovery.c:1154`) is in the nested run; no property excludes it.
* `PublishedWhenQuiet` and `ImplementsDirectory` are checked with one publishing
  thread.  With two, the older text may be published last.
* `ReaderCurrent` leaves out a failed allocation, and a text that was published
  before a restart.  Between a text that grew and its event the reader holds a
  buffer that nothing was written to, though the call returned success.
* `OnlyZeroPast` allows the terminating zero of a text of exactly the buffer's
  length, which is written past it.
* `SessionStartsEmpty` and `ReportedListed` speak of builds where requests
  block.  Where they nest, a device announced again during its addition is
  inserted twice and deleted once.  `SameAccountOnly` allows for an account id
  of this device that could not be read: it is empty, and equals another empty
  one.
* `ListedAllowed` speaks of addresses with a slot of their own, and of garbage
  in the status other than DP_COLLISION; `OnlyListedAllowed` leaves out slot 3,
  whose index is taken for an error code, and the addresses of devices that
  `delete_gwyitem` never takes off (`~Removable`): an XG that is no gateway, an
  XI3 or XID that is one, and every XG where CLIENT_XCAL_SERVER is off.
  Both leave out what follows when the flush frees the very device that is being
  inserted (`overtaken`).  A delete of a missing entry indexes
  the table with 65535: the model stops there (`fault`).
* In XcalDevice, `ZoneNamed`, `NeverOlder` and `StartsWhenReady` exclude changes
  while `getSystemValues` runs (`late`): the handlers are registered before the
  question is asked, and an older answer then overwrites a newer event.
  `NeverOlder` lets ids be emptied by an error.  `ZoneNamed` says that a zone
  once renamed for want of DST keeps that name until it is announced again
  (`was0`): there is no mapping back.
* `AllNotified` speaks of DiscoverFriendlies, as the X1 services are not
  notified, and leaves out a route that an action fetched before its event
  (`overtaken`): the event then finds it known and is not passed on.
* `StartsWhenReady`, of both devices, allows the process to end on the way: a
  description that cannot be written, a context that cannot be created, a service
  that is missing.
* `AvailableFollowsTuner` names the one way in which the device may differ from
  the tuner: the announcement at the start crossed the handler.  Either the tuner
  was lost between the wait and the announcement (`src/xcal-device.c:2016`), or,
  with `disableTuneReady`, the handler had tested `tune_ready` (259) before main
  set it (1980) and withdrew the device (272) after main announced it.  The next
  change of the tuner ends both.
* `SerialDescribed` leaves out a number that was assigned between the wait and
  `updatexmldata`, which reads it again.
* XcalLegacy's properties leave out the values in `stale`, and for the ids a
  string that two threads printed at once (`spoilt`).  `CurrentWhenQuiet` speaks
  of the zone only once there has been a DST offset: without one,
  `mapTimeZoneToJavaFormat` assigns a new zone and notifies nobody
  (`src/xcal-device.c:135`), and a client that subscribed earlier keeps the old
  one until an offset comes, although `notify_value_change` is described as
  notifying all clients of every change.
* `OwnAddress` holds unless the uninitialised `result` stood for an address.
  With an IPv6 address alone, `gwyip` may be that of another interface.
* `MocaFollowsAccount` speaks of clients that have asked the running process,
  and whose last call of the script did not fail.
* `Reachable` speaks of starts whose protected context is created;
  `ComesUpLinked` of behaviours in which no process ends between the two halves
  of a write.

Three behaviours were seen and are no property's subject: `gatewayDetected` is
counted up at every publication that lists a gateway and down once when it is
deleted (`src/xdiscovery.c:3182`), so it need not return to 0;
`verify_devices` of libupnpidm outlives a restart of discovery
(`src/idm_client.c:813`); and `main` of `xcal-device-main.c` chains its getters
with `&&` (1556), so that after a failed one the others are not called, which is
only logged.

### Bounds

Two devices are enough for everything xdiscovery's list can get wrong between
two entries: the device itself, never removed, and another one; the blocking
run has three, to have a gateway and a renderer.  `MaxDepth` 3 lets an addition
be interrupted by an addition that is interrupted itself.  `MaxEvents` bounds
announcements, byebyes, changes and power toggles, 5 to 7 according to the run:
a device joins, leaves, joins again and changes.  The flush run has a gateway
before the device itself in the list, and 7 events, which reach a partial
discovery, a flush that deletes, a lookup cut short by it, and an entry that both
threads remove.  Two threads are the code's
number.  `SelfFailLimit` is 2 for the code's 20.  `MaxBus` 1 keeps one update
event on its way while the text changes again; texts have lengths that grow
with the list and differ by one byte in a value.  The white list has 8 slots
for 1024, three devices, of which one is an XG that answers IsGateway with false, and leases chosen so that of two devices' addresses some have slots
of their own, some collide, one is shared, and one hashes to slot 3.
`MaxCalls` is 2 calls waiting for the rbus thread; a client that has given up
leaves one behind.  The IDM run uses three devices, one of another account, and
7 events to allow a restart with devices on the list.

`MaxChanges` bounds the managers (2: a value and the one it depends on, or a
value that is replaced), the network and the account (2), and the WAN (6).  In
XcalDevice and XcalLegacy every configuration also names the values that vary;
together they cover every value, and the pairs that interact (zone and offset,
ids and tuner, tuner and prefix, route and a second client).  The legacy
configurations allow 2 to 4 changes, 4 where the tuner varies and is not waited
for; the one for zone and offset does not wait for a tuner.  `Rounds` is 2 for the code's 10: a first lookup, which sees the
uninitialised result, and a later one.  `MaxCrashes` is 1, at any step of the start, also between the two halves of a
write (the theorems are about any number).  Two clients exchange accounts, one
of which cannot read its own.

The deadlock check is off where the system rests: an xcal-device that waits for
events or has ended, the WAN thread at the end of its events, the media browser,
which really stops once the lock is lost, and the flush run of xdiscovery, where
an addition that failed without counting down stops `verify_devices` for ever.

### Fairness

Weak fairness of threads that run: the steps of an activation (requests are
answered or time out inside libsoup), the loop of `verify_devices`, the
handlers of the bus, the WAN thread, the start and the polling waits of
xcal-device, and the process that systemd starts again (`Process`,
`BProcess`).  In Xdiscovery and IdmDiscovery also of `Expire`: gssdp drops a
resource whose max-age has passed.  In XcalDevice events that were sent reach
their clients.  Nothing is assumed of devices, byebye messages, requests of
clients or the managers.

## Proofs

Proved with TLAPS, for every set of devices, values, build flag and bound that
satisfies the named assumptions (`DevAssumption`, `FlagAssumption`,
`IarmAssumption`, `DpAssumption`, `UdnAssumption`, `IdmAssumption`,
`CrashAssumption`, `BroadbandAssumption`, `PayloadAssumption`,
`ServiceAssumption`, `DevConfAssumption`, and of XcalLegacy `ConfAssumption` and
`ValuesAssumption`).  ListTheorems holds facts about sorted lists that two
modules share.  Every invariant and action property of the passing runs is stated
by a theorem.

* **XdiscoveryDirectoryProofs, the daemon in every build.**  `TypeCorrect`, `AdditionsCounted` (AddCountCovers) and
  `ListSortedUnique` (SortedUnique).  None of the three is inductive.  That
  `deviceAddNo` stays a natural number needs `CountInv`: the activations that
  will count down are at most as many as were counted.  That in turn needs
  `StackInv`: only an activation that waits for a request has others above it,
  one that waits is an addition, and `verify_devices` only runs unavailable
  callbacks; so a step on top of the stack leaves those below as they were.
  Sortedness needs `FreshInv`: unless the list is torn, at `insert` the device is
  not listed, and an entry that was freed before its removal is not listed
  either.  `FreshInv` is preserved because only the main thread inserts, and
  between the lookup and the insertion of an update nothing else runs on it; the
  lookups that the other thread cuts short, and the second removal of an entry,
  are the steps that break it, and they are the ones that set `torn`.
* **XdiscoveryDirectoryProofs, the directory.**  For builds where only the main
  thread runs callbacks: `DirectoryImplemented` (every step is a step of Directory or a
  stutter), `PublishedList`, `SelfPublished` and `AdditionsExact`.  The invariant behind them says that the
  verifying thread has no activation, that only the top activation of the main
  thread is between a change of the list and its publication, and that then, and
  only then, list and text differ; the other thread unlinks nothing, so no lookup
  is cut short.  For the IARM reader, in the same builds, `ReaderHasText` and
  `OneByteAtMost`: the last event on the bus, or the reader's buffer, carries the
  length of the published text, so a copy of that last call fits.
* **DpWhitelistProofs.**  `DpTypeCorrect` and `SlotsPlaced` (OneSlotPerAddress),
  by the invariant that while the segment is attached every used slot holds an
  address that hashes to it; garbage in the status only decides whether a slot
  is filled, never which one.  `OnlyListed` and `EveryListed` relate the table
  to the device list: a used slot outside slot 3 belongs to a listed device, to one
  that is never taken off, or to the insertion in progress, and a listed device
  whose address collides with none holds its slot once it is inserted.
* **MediaBrowserProofs.**  `EnumerationConsistent` (Enumerable).  The list has no server twice, since a server
  is added only after a lookup in the same callback, and what a client was told
  stays true because entries are only appended.
* **IdmDiscoveryProofs.**  `IdmTypeCorrect`, `IdmAdditionsExact`, `AccountsKept`,
  `SessionsFresh` and `CallerKnows`: the stack holds exactly the additions
  counted; a waiting addition has compared accounts already; and where requests
  block, the flush leaves at most the one entry that `remove_entries_in_list`
  removes.  `FullChecksStay` (FullStays of IdmWan): the step that sets the full
  checks ends the thread, the only one that could relax them.
* **XcalBroadbandProofs.**  For main alone, `ProtectedMarked` and
  `AlwaysReachable`: the invariant follows the mark through the program; from
  the announcement of the basic device on, its description holds what
  `rfc_enabled` says, except while it is written again without certificates.
  For the broadband gateway, `BroadbandMarked` (its steps are steps of main or
  leave it alone), `BroadbandTyped`, `AnnouncedAddress` and `MocaListed`.
* **XcalDeviceProofs.**  `ZoneNamedAlways` (ZoneNamed), for any number of
  events on their way.  The invariant `Pending` relates the zone and the offset
  now, and the events not yet handled, to the managers' values: the offset that
  the events will leave is 0 exactly if the manager's is, and the last zone
  announced, whether handled or on its way, will have met an offset of 0
  exactly if the history says so.  `Handled` and `Published` say that handling
  the first event and adding one at the end both keep it.  `NeverOlderAlways`
  (NeverOlder) orders every place where ids are: what a client has, the events
  on its wire, main.c's copy and the library's variable, the events on the bus,
  and the ids that come next (`Ordered`).  No place holds newer ids than one
  further along this line, so whatever reaches a client is at least what it had.
  The copy needs to be in the line because the first event of a subscription is
  built from it.  `Ordered` is what a change during `getSystemValues` breaks, and
  the theorem is about behaviours without one (`late`), as the property is.
* **XcalLegacyProofs.**  The invariants of the single-file device, with two
  threads, any number of changes and of events on their way.
  `AvailableAlways` (AvailableFollowsTuner): `DeviceInv` says that once announced
  the device is as the tuner says, or a step of the handler (`busy`) is still to
  see to it, or the announcement crossed the handler (`stale`).  `SerialAlways` (SerialDescribed): between the wait and
  `updatexmldata` the string is of the form the wait asked for, or `stale`.
  `ZoneAlways` (ZoneNamed) rests on three: `FlowInv`, that the last event of a
  field, if there is one, carries the manager's value, and otherwise the library
  or the pending answer has it (`Reached`, `AnswerInv`); `ZoneInv`, that the zone
  has the name the offset asks for, or a rename is the handler's next step; and
  `PlainInv`, that a zone which has met no offset of 0 keeps its own name, for
  which it follows the zone and the offset through the queue.
  `CurrentAlways` (CurrentWhenQuiet) needs `PrintInv` besides: two threads that
  print the ids at once both know of it (`raced`), and a thread that prints alone
  leaves the current id, or a handler is about to print again.  `ClientInv` then
  says of every variable that the handler has yet to notify it, or that the last
  event about it, on the wire or delivered, carries the library's value.

Only model-checked: the liveness properties (RescansForever, DeadRemoved,
SelfFoundOrRestarted, LeftReported, FullOnceUp, AllNotified, StartsWhenReady of
both devices, ComesUpLinked), since fairness and ENABLED are out of the prover's
reach, and the two properties of the runs that show a disagreement.

## Not modelled

* Attribute contents: urls, addresses, the JSON layout, the rewriting of host
  names and local addresses, the CVP-2 url.
* The broadcasts of time zone and IP mode after a publication, raw offsets, the
  variant USE_XUPNP_IARM of the IARM call.
* In XcalDevice, the serial-number event (XcalLegacy has it), and the attributes
  that are assigned once before the service starts.
* A restart of the single-file device, and its RemoteUI server but for the exits.
* Of the broadband library, the search for an address in CLIENT_XCAL_SERVER
  builds and the getters over syscfg, the CCSP data model and files: they read
  once and have no events afterwards.
* TLS handshakes and configuration files.
* `delOldItemsFromList`, which nothing calls, and the commented-out part of
  `verify_devices`.

## What is left

* XcalDevice composed with the change callback of Xdiscovery, to follow a value
  from one device's manager to another device's text.
* `replace_string` as a function checked against a reference definition.
* A safety part for the liveness properties that have one, to be proved as an
  invariant: that an announced event is never lost (AllNotified), or that a
  watchdog is always armed (SelfFoundOrRestarted).
