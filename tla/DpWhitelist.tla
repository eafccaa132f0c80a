----------------------------- MODULE DpWhitelist -----------------------------
(***************************************************************************)
(* The device-protection white list of src/src/xdiscovery.c (BROADBAND): a *)
(* hash table in shared memory, with an overflow table behind it, and the  *)
(* parts of update_gwylist and delete_gwyitem that keep it in step with    *)
(* the list of devices.                                                    *)
(*                                                                         *)
(* The overflow slots come from dp_wlist_fifo, whose tail and size are 0   *)
(* as INIT_FIFO is never called: ENQUEUE_FIFO answers FIFO_FULL and        *)
(* DEQUEUE_FIFO FIFO_EMPTY for ever.  No slot is ever linked to another    *)
(* one, so ofb_index is -1 (unused) or 0 (used, no collision), and the     *)
(* model has the MAX_ENTRIES main slots only.                              *)
(*                                                                         *)
(* The main loop runs update_gwylist, which holds the lock for the list    *)
(* only: the insertion into the white list follows without it.  In a       *)
(* CLIENT_XCAL_SERVER build the flush of verify_devices deletes at the     *)
(* same time, on its own thread.                                           *)
(*                                                                         *)
(* Only refactored XG, XI3 and XID devices are modelled: the others never  *)
(* reach the white list.  The folded hash works in base MAX_ENTRIES, 1024  *)
(* in the code.                                                            *)
(***************************************************************************)
EXTENDS Integers

CONSTANTS
    MAX_ENTRIES,        \* main slots
    Dev,                \* devices
    NoDev,              \* no device
    XG,                 \* devices whose type is XG; the others' is XI3 or XID
    Gateways,           \* devices that answer TRUE to IsGateway
    Leases,             \* the addresses each device may have
    Macs,               \* the MAC addresses each device may have
    ClientXcalServer,   \* build flag CLIENT_XCAL_SERVER
    StackStat           \* what an uninitialised dp_wlist_ss_t may hold

DP_SUCCESS     == 0
DP_INVALID_MAC == 1
DP_COLLISION   == 2
DP_WLIST_ERROR == 3

NoIp == 0       \* no address, or one that inet_aton does not take
NoMac == 0      \* what a slot never used holds

Ip == UNION {Leases[d] : d \in Dev}

Mac == UNION {Macs[d] : d \in Dev}

ASSUME DpAssumption ==
    /\ MAX_ENTRIES \in Nat /\ MAX_ENTRIES > 1
    /\ NoDev \notin Dev
    /\ XG \subseteq Dev /\ Gateways \subseteq Dev
    /\ Leases \in [Dev -> SUBSET Nat]
    /\ NoMac \notin Mac
    /\ ClientXcalServer \in BOOLEAN
    /\ StackStat # {} /\ StackStat \subseteq 0..3

VARIABLES
    dp_wlist,   \* the main slots
    xdevlist,   \* the listed devices: address and MAC of each, or Absent
    last,       \* the address of the latest dpnode_insert and its result
    pending,    \* the insertion that update_gwylist has still to do
    attached,   \* dp_wlist is a segment, not (void *) -1
    fault,      \* an access outside the array, or to freed memory, has stopped the process
    overtaken   \* history: a device was flushed while its insertion was pending

vars == <<dp_wlist, xdevlist, last, pending, attached, fault, overtaken>>

Index == 0..(MAX_ENTRIES - 1)

Absent == [ip |-> NoIp, mac |-> NoMac]

Slot == [ipaddr : Ip \cup {NoIp}, macaddr : Mac \cup {NoMac}, ofb_index : {-1, 0}]

-----------------------------------------------------------------------------
(* The white list: every operator takes the table w it works on. *)

\* The folded address.  The carry is added with &&, so it counts 0 or 1.
dp_hashindex(ip) ==
    LET M == MAX_ENTRIES
        sum == (ip % M) + ((ip \div M) % M) + ((ip \div (M * M)) % M)
               + ((ip \div (M * M * M)) % M)
        ret == ((sum % M) + (IF sum \div M > 0 THEN 1 ELSE 0)) % M
    IN IF ret > 0 THEN ret - 1 ELSE ret

\* The slot that holds the address, or -1.
dpnode_lookup(w, ip) ==
    LET h == dp_hashindex(ip)
    IN IF w[h].ofb_index = -1 \/ w[h].ipaddr # ip THEN -1 ELSE h

\* What dpnode_lookup leaves in *stat: nothing when the slot is unused, so the
\* caller reads a variable it has not initialised.
LookupStat(w, ip, mac) ==
    LET h == dp_hashindex(ip)
    IN IF w[h].ofb_index = -1 THEN StackStat
       ELSE IF w[h].ipaddr # ip THEN {DP_COLLISION}
       ELSE {IF w[h].macaddr = mac THEN DP_SUCCESS ELSE DP_INVALID_MAC}

\* Mutant: the address is stored one slot further.
MutInsert(w, i, ip, mac, stat) ==
    IF i = -1
      THEN [w EXCEPT ![(dp_hashindex(ip) + 1) % MAX_ENTRIES] =
              [ipaddr |-> ip, macaddr |-> mac, ofb_index |-> 0]]
      ELSE w

\* The table after dpnode_insert, whose lookup found i and left stat.  A
\* collision needs an overflow slot, of which there is none.
dpnode_insert(w, i, ip, mac, stat) ==
    IF i = -1 /\ stat # DP_COLLISION
      THEN [w EXCEPT ![dp_hashindex(ip)] = [ipaddr |-> ip, macaddr |-> mac, ofb_index |-> 0]]
    ELSE IF i # -1 /\ stat = DP_INVALID_MAC THEN [w EXCEPT ![i].macaddr = mac]
    ELSE w

\* Mutant: the status of the lookup is handed on.
MutInsertResult(i, stat) == stat

\* Its result: only an entry that is there already is an error.
InsertResult(i, stat) ==
    IF i # -1 /\ stat # DP_INVALID_MAC THEN DP_WLIST_ERROR ELSE DP_SUCCESS

\* dpnode_delete keeps the index in an unsigned short: -1 is 65535, which passes
\* the test for a found entry and is taken for an overflow slot.
DeleteFaults(w, ip) == dpnode_lookup(w, ip) = -1

\* Mutant: the slot is freed, but not its address.
MutDelete(w, ip) ==
    LET i == dpnode_lookup(w, ip)
    IN IF i = -1 THEN w ELSE [w EXCEPT ![i].ipaddr = NoIp]

\* The table after dpnode_delete.  Slot 3 is mistaken for DP_WLIST_ERROR.
dpnode_delete(w, ip) ==
    LET i == dpnode_lookup(w, ip)
    IN IF i \in {-1, DP_WLIST_ERROR} THEN w
       ELSE [w EXCEPT ![i].ofb_index = -1, ![i].ipaddr = NoIp]

-----------------------------------------------------------------------------
(* The list of devices and its callers. *)

\* dp_wlistInit on the segment w: a new one is zero, and one that was left
\* behind is attached as it is.
dp_wlistInit(w) == [i \in Index |-> [w[i] EXCEPT !.ofb_index = -1]]

NewSegment == [i \in Index |-> [ipaddr |-> NoIp, macaddr |-> NoMac, ofb_index |-> 0]]

Nothing == [step |-> "none", dev |-> NoDev, ip |-> NoIp, mac |-> NoMac, index |-> -1,
            stat |-> DP_SUCCESS]

\* The start of the process: ftok, shmget or shmat may fail, which leaves the
\* segment alone and dp_wlist unusable.
Init ==
    /\ attached \in BOOLEAN
    /\ dp_wlist = IF attached THEN dp_wlistInit(NewSegment) ELSE NewSegment
    /\ xdevlist = [d \in Dev |-> Absent]
    /\ last = [ip |-> NoIp, ret |-> DP_WLIST_ERROR]
    /\ pending = Nothing
    /\ fault = FALSE
    /\ overtaken = FALSE

Listed == {d \in Dev : xdevlist[d] # Absent}

\* delete_gwyitem asks isgateway first, where the insertion asks the type only:
\* an XG is taken off if it is a gateway, in a CLIENT_XCAL_SERVER build, an XI3
\* or XID if it is none, and the others never.
Removable(d) == (d \in XG <=> d \in Gateways) /\ (d \in XG => ClientXcalServer)

\* Without a segment the lookup returns DP_WLIST_ERROR, on which nothing is done.
TakesOff(d) == attached /\ xdevlist[d].ip # NoIp /\ Removable(d)

\* delete_gwyitem: the device leaves, on the main loop or in the flush.
Delete(d) ==
    /\ ~fault
    /\ d \in Listed
    /\ pending = Nothing \/ ClientXcalServer
    /\ IF TakesOff(d)
         THEN /\ fault' = DeleteFaults(dp_wlist, xdevlist[d].ip)
              /\ dp_wlist' = dpnode_delete(dp_wlist, xdevlist[d].ip)
         ELSE UNCHANGED <<fault, dp_wlist>>
    /\ xdevlist' = [xdevlist EXCEPT ![d] = Absent]
    /\ overtaken' = (overtaken \/ d = pending.dev)
    /\ UNCHANGED <<last, pending, attached>>

\* update_gwylist: the device is discovered with this address and MAC.  An
\* entry it has already is deleted first, and the list gets the new one.
Update(d, ip, mac) ==
    /\ ~fault
    /\ pending = Nothing
    /\ IF d \in Listed /\ TakesOff(d)
         THEN /\ fault' = DeleteFaults(dp_wlist, xdevlist[d].ip)
              /\ dp_wlist' = dpnode_delete(dp_wlist, xdevlist[d].ip)
         ELSE UNCHANGED <<fault, dp_wlist>>
    /\ xdevlist' = [xdevlist EXCEPT ![d] = [ip |-> ip, mac |-> mac]]
    /\ pending' = [Nothing EXCEPT !.step = "lookup", !.dev = d, !.ip = ip, !.mac = mac]
    /\ UNCHANGED <<last, attached, overtaken>>

\* What the insertion reads of gwydata: anything once the flush has freed it.
Freed == pending.dev \notin Listed

Read(field, all) == IF Freed THEN all ELSE {field}

\* update_gwylist goes on without the lock: the lookup of dpnode_insert.
InsertLookup ==
    /\ ~fault
    /\ pending.step = "lookup"
    /\ \E ip \in Read(pending.ip, Ip \cup {NoIp}), mac \in Read(pending.mac, Mac) :
         IF ip = NoIp
           THEN pending' = Nothing /\ UNCHANGED last
         ELSE IF ~attached
           THEN pending' = Nothing /\ last' = [ip |-> ip, ret |-> DP_WLIST_ERROR]
         ELSE \E stat \in LookupStat(dp_wlist, ip, mac) :
                /\ pending' = [step |-> "store", dev |-> pending.dev, ip |-> ip, mac |-> mac,
                                index |-> dpnode_lookup(dp_wlist, ip), stat |-> stat]
                /\ UNCHANGED last
    /\ UNCHANGED <<dp_wlist, xdevlist, attached, fault, overtaken>>

\* ... and what it does about the result.
InsertStore ==
    /\ ~fault
    /\ pending.step = "store"
    /\ \E mac \in Read(pending.mac, Mac) :
         dp_wlist' = dpnode_insert(dp_wlist, pending.index, pending.ip, mac, pending.stat)
    /\ last' = [ip |-> pending.ip, ret |-> InsertResult(pending.index, pending.stat)]
    /\ pending' = Nothing
    /\ UNCHANGED <<xdevlist, attached, fault, overtaken>>

\* ... or it stops at memory that is not there any more.
InsertFault ==
    /\ ~fault
    /\ pending # Nothing
    /\ Freed
    /\ fault' = TRUE
    /\ pending' = Nothing
    /\ UNCHANGED <<dp_wlist, xdevlist, last, attached, overtaken>>

\* The process ends and starts again with an empty list: dp_signal_handlr
\* removes the segment on the signals it handles; a fault or another signal
\* (SIGTERM) leaves it.
Restart ==
    /\ attached' \in BOOLEAN
    /\ \E segment \in {dp_wlist} \cup (IF fault THEN {} ELSE {NewSegment}) :
         dp_wlist' = IF attached' THEN dp_wlistInit(segment) ELSE segment
    /\ xdevlist' = [d \in Dev |-> Absent]
    /\ last' = [ip |-> NoIp, ret |-> DP_WLIST_ERROR]
    /\ pending' = Nothing
    /\ fault' = FALSE
    /\ overtaken' = FALSE

Next ==
    \/ \E d \in Dev : Delete(d)
    \/ \E d \in Dev : \E ip \in Leases[d] \cup {NoIp}, mac \in Macs[d] : Update(d, ip, mac)
    \/ InsertLookup
    \/ InsertStore
    \/ InsertFault
    \/ Restart

Spec == Init /\ [][Next]_vars

-----------------------------------------------------------------------------
(* Properties. *)

\* Every variable has its type.
TypeOK ==
    /\ dp_wlist \in [Index -> Slot]
    /\ xdevlist \in [Dev -> [ip : Ip \cup {NoIp}, mac : Mac \cup {NoMac}]]
    /\ last \in [ip : Ip \cup {NoIp}, ret : {DP_SUCCESS, DP_WLIST_ERROR}]
    /\ pending \in [step : {"none", "lookup", "store"}, dev : Dev \cup {NoDev},
                    ip : Ip \cup {NoIp}, mac : Mac \cup {NoMac}, index : Index \cup {-1},
                    stat : 0..3]
    /\ attached \in BOOLEAN
    /\ fault \in BOOLEAN
    /\ overtaken \in BOOLEAN

Used == {i \in Index : attached /\ dp_wlist[i].ofb_index = 0}

\* An address is in at most one slot, the one it hashes to: dpnode_lookup looks
\* nowhere else, so another copy could never be deleted.
OneSlotPerAddress ==
    \A i \in Used : dp_hashindex(dp_wlist[i].ipaddr) = i

\* No other device may have the address, and no other address its slot.
Alone(ip) ==
    /\ \A a \in Ip \ {ip} : dp_hashindex(a) # dp_hashindex(ip)
    /\ \A d, e \in Dev : ip \in Leases[d] \cap Leases[e] => d = e

\* The white list holds the address and the MAC of every listed device (what
\* "mrd" reads from the shared segment) once its insertion is over, whatever
\* happens to other devices meanwhile, provided that the address collides with
\* none and that no insertion was overtaken by a flush ...
ListedAllowed ==
    \A d \in Listed \ {pending.dev} :
        LET ip == xdevlist[d].ip
            i == dpnode_lookup(dp_wlist, ip)
        IN  attached /\ ~fault /\ ~overtaken /\ ip # NoIp /\ Alone(ip)
              => i # -1 /\ dp_wlist[i].macaddr = xdevlist[d].mac

\* "Delete the entry from white list since the device is not in the network"
\* (delete_gwyitem): ... and, but in slot 3, no address other than those of
\* listed devices and those left behind by the devices that delete_gwyitem
\* never takes off.
OnlyListedAllowed ==
    ~overtaken =>
        \A i \in Used \ {DP_WLIST_ERROR} :
            \/ \E d \in Listed : xdevlist[d].ip = dp_wlist[i].ipaddr
            \/ \E d \in Dev : ~Removable(d) /\ dp_wlist[i].ipaddr \in Leases[d]

\* "DP_SUCCESS - successfully added entry" (dpnode_insert): after such a result
\* a lookup finds the address.
SuccessIsStored ==
    [][ last' # last /\ last'.ret = DP_SUCCESS /\ ~fault'
          => dpnode_lookup(dp_wlist', last'.ip) # -1 ]_vars
=============================================================================
