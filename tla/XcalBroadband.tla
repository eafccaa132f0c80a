---------------------------- MODULE XcalBroadband -----------------------------
(***************************************************************************)
(* xcal-device on a broadband gateway: xdeviceInit of                      *)
(* src/broadband/lib/src/xcal-device-library.c before main (XcalStartup),  *)
(* and the exchange of account ids afterwards.                             *)
(*                                                                         *)
(* xdeviceInit looks for an IPv6 and an IPv4 address of the broadcast      *)
(* interface, once a second, and gives up after Rounds seconds; systemd    *)
(* then starts the process again.  main reads the account id of the        *)
(* gateway once.  A client that asks for it sends its own; the gateway     *)
(* admits the client's address to the MoCA white list, or removes it.  The *)
(* list outlives the process.                                              *)
(***************************************************************************)
EXTENDS Integers, XcalStartup

CONSTANTS
    Rounds,             \* attempts to find an address: 10 in the code
    Client,             \* the addresses of the clients
    AccountOf,          \* the account id each client sends
    Account,            \* account ids the gateway may be given
    MaxChanges          \* bound: changes of the network and of the account id

Empty == ""             \* an account id that could not be read

ASSUME BroadbandAssumption ==
    /\ Rounds \in Nat \ {0}
    /\ MaxChanges \in Nat
    /\ Empty \notin Account
    /\ AccountOf \in [Client -> Account \cup {Empty}]

VARIABLES
    net,            \* "v4", "v6": addresses of the broadcast interface; "file": the IPv6 file
    account,        \* the account id in the system's configuration
    changes,
    init,           \* where xdeviceInit is
    round,
    result,         \* 1: the last lookup found an address
    assigned,       \* 1: some lookup did
    ipAddressBuffer,
    gwyip,
    gwyipv6,
    junk,           \* history: what result held before the first lookup
    seen,           \* history: the addresses found in this start
    accountId,
    moca,           \* the MoCA white list (external)
    asked           \* history: clients the running process has listed or removed

world == <<net, account, changes>>
addr  == <<round, result, assigned, ipAddressBuffer, gwyip, gwyipv6, junk, seen>>
bvars == <<vars, world, init, addr, accountId, moca, asked>>

BInit ==
    /\ Init
    /\ net \in SUBSET {"v4", "v6", "file"}
    /\ account \in Account \cup {Empty}
    /\ changes = 0
    /\ init = "off"
    /\ round = 0
    /\ result = 0
    /\ assigned = 0
    /\ ipAddressBuffer = "" /\ gwyip = "" /\ gwyipv6 = ""
    /\ junk = 0
    /\ seen = {}
    /\ accountId = Empty
    /\ moca = {}
    /\ asked = {}

-----------------------------------------------------------------------------
(* The network and the configuration (external). *)

NetChange ==
    /\ changes < MaxChanges
    /\ changes' = changes + 1
    /\ \E a \in {"v4", "v6", "file"} :
         net' = IF a \in net THEN net \ {a} ELSE net \cup {a}
    /\ UNCHANGED <<vars, account, init, addr, accountId, moca, asked>>

Provision ==
    /\ changes < MaxChanges
    /\ changes' = changes + 1
    /\ account' \in Account \ {account}
    /\ UNCHANGED <<vars, net, init, addr, accountId, moca, asked>>

-----------------------------------------------------------------------------
(* xdeviceInit.  "other" is an address of another interface, or one that is *)
(* not link local.                                                          *)

\* result is not initialised.
Begin ==
    /\ pc = "down" /\ init = "off"
    /\ init' = "v6"
    /\ round' = 0
    /\ result' \in {0, 1}
    /\ junk' = result'
    /\ assigned' = 0
    /\ ipAddressBuffer' = "" /\ gwyip' = "" /\ gwyipv6' = ""
    /\ seen' = {}
    /\ accountId' = Empty
    /\ asked' = {}
    /\ UNCHANGED <<vars, world, moca>>

\* getipaddress copies the addresses that it passes over, too.
getipaddress(a, buffer) ==
    IF a \in net THEN {[found |-> 1, text |-> a]}
    ELSE {[found |-> 0, text |-> t] : t \in {buffer, "other"}}

\* Without the IPv6 file there is no lookup, and result is the previous one's.
LookupV6 ==
    /\ init = "v6"
    /\ init' = "v4"
    /\ \E r \in IF "file" \in net THEN getipaddress("v6", ipAddressBuffer)
                                  ELSE {[found |-> result, text |-> ipAddressBuffer]} :
         /\ assigned' = IF r.found = 1 THEN 1 ELSE assigned
         /\ gwyipv6' = r.text
    /\ seen' = IF {"file", "v6"} \subseteq net THEN seen \cup {"v6"} ELSE seen
    /\ ipAddressBuffer' = ""
    /\ UNCHANGED <<vars, world, round, result, gwyip, junk, accountId, moca, asked>>

LastRound == round + 1 >= Rounds

\* Mutant: with no address at all the start goes on.
MutGiveUp(found) == "ready"

\* What follows the last lookup.
GiveUp(found) == IF found = 1 THEN "ready" ELSE "off"

LookupV4 ==
    /\ init = "v4"
    /\ \E r \in getipaddress("v4", ipAddressBuffer) :
         /\ result' = r.found
         /\ ipAddressBuffer' = r.text
         /\ assigned' = IF r.found = 1 THEN 1 ELSE assigned
         /\ seen' = IF r.found = 1 THEN seen \cup {"v4"} ELSE seen
         /\ IF r.found = 1 \/ LastRound
            THEN init' = GiveUp(assigned') /\ gwyip' = r.text /\ UNCHANGED round
            ELSE init' = "v6" /\ round' = round + 1 /\ UNCHANGED gwyip
    /\ UNCHANGED <<vars, world, gwyipv6, junk, accountId, moca, asked>>

\* The process is killed meanwhile.
CrashInit ==
    /\ pc = "down" /\ init # "off"
    /\ crashes < MaxCrashes
    /\ crashes' = crashes + 1
    /\ init' = "off"
    /\ UNCHANGED <<pc, rfc_enabled, certs, context, doc, file, announced,
                   world, addr, accountId, moca, asked>>

-----------------------------------------------------------------------------
(* main. *)

\* A step of main.  The process that ends starts again with xdeviceInit.
Main(A) ==
    /\ A
    /\ init' = IF pc' = "down" THEN "off" ELSE init
    /\ UNCHANGED <<world, addr, moca, asked>>

StartMain == init = "ready" /\ Main(Start) /\ UNCHANGED accountId

MainStep ==
    /\ Main(Open \/ Dump \/ Announce \/ Secure \/ Serve \/ Cvp)
    /\ UNCHANGED accountId

\* getAccountId, just before the certificates are looked for.
ReadAccount ==
    /\ Main(Certificates)
    /\ accountId' \in {account, Empty}

CrashMain == Main(Crash) /\ UNCHANGED accountId

\* Mutant: an address is never removed.
MutListed(c) == IF AccountOf[c] = accountId THEN moca \cup {c} ELSE moca

\* moca_whitelist_ctl.sh add, del.
Listed(c) == IF AccountOf[c] = accountId THEN moca \cup {c} ELSE moca \ {c}

\* get_account_id_cb: the script may fail, which is only logged.
GetAccountId(c) ==
    /\ pc = "up" /\ "protected" \in announced
    /\ \/ moca' = Listed(c) /\ asked' = asked \cup {c}
       \/ UNCHANGED moca /\ asked' = asked \ {c}
    /\ UNCHANGED <<vars, world, init, addr, accountId>>

BProcess == Begin \/ LookupV6 \/ LookupV4 \/ StartMain \/ MainStep \/ ReadAccount

BNext ==
    \/ BProcess
    \/ NetChange \/ Provision
    \/ CrashInit \/ CrashMain
    \/ \E c \in Client : GetAccountId(c)

BSpec == BInit /\ [][BNext]_bvars

\* systemd restarts the process, and the process runs.
BFairSpec == BSpec /\ WF_bvars(BProcess)

-----------------------------------------------------------------------------
AccountTyped ==
    /\ account \in Account \cup {Empty} /\ accountId \in Account \cup {Empty}
    /\ moca \in SUBSET Client /\ asked \in SUBSET Client

AddrTyped ==
    /\ init \in {"off", "v6", "v4", "ready"}
    /\ round \in Nat /\ round < Rounds
    /\ result \in {0, 1} /\ assigned \in {0, 1} /\ junk \in {0, 1}
    /\ ipAddressBuffer \in {"", "v4", "v6", "other"}
    /\ gwyip \in {"", "v4", "v6", "other"} /\ gwyipv6 \in {"", "v4", "v6", "other"}
    /\ seen \in SUBSET {"v4", "v6"}

\* Type invariant of what this module adds.
BTypeOK == AddrTyped /\ AccountTyped /\ net \in SUBSET {"v4", "v6", "file"}

\* Whatever comes and goes during the lookups, a gateway that is announced gives
\* out the IPv4 address of the broadcast interface, or has found an IPv6 one in
\* this start: unless the uninitialised result stood for an address.
OwnAddress == announced # {} => gwyip = "v4" \/ "v6" \in seen \/ junk = 1

\* Whatever earlier processes left in the white list, and however often the
\* account ids changed: the clients that have asked the running process are
\* listed exactly if their account id is the one it has read.
MocaFollowsAccount ==
    \A c \in asked : pc = "up" => (c \in moca <=> AccountOf[c] = accountId)

\* Once the broadcast interface has an IPv4 address for good, or an IPv6 one and
\* the file that says so, the device comes up for good: unless a process ended
\* between the two halves of updatexmldata's write.
ComesUpLinked ==
    <>[]("v4" \in net \/ {"v6", "file"} \subseteq net) => ComesUp
=============================================================================
