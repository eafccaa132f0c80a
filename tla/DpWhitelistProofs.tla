--------------------------- MODULE DpWhitelistProofs ---------------------------
(***************************************************************************)
(* Proofs about DpWhitelist for any table size, any devices and leases,    *)
(* and whatever an uninitialised status holds: the types, and that the     *)
(* table never holds an address outside the slot it hashes to.  From this: *)
(* that it holds the address of every listed device that collides with     *)
(* none, and no address of a device that is not listed.                    *)
(***************************************************************************)
EXTENDS DpWhitelist, TLAPS

Table == [Index -> Slot]

\* Every used slot of the table w holds an address, and one that hashes to it.
Placed(w) ==
    \A i \in Index : w[i].ofb_index = 0 => w[i].ipaddr \in Ip /\ dp_hashindex(w[i].ipaddr) = i

\* dp_wlistInit leaves every slot unused.
LEMMA InitTable ==
    ASSUME NEW w, w \in [Index -> [ipaddr : Ip \cup {NoIp}, macaddr : Mac \cup {NoMac},
                                   ofb_index : {-1, 0}]]
    PROVE  dp_wlistInit(w) \in Table /\ Placed(dp_wlistInit(w))
  <1>1. \A i \in Index : /\ [w[i] EXCEPT !.ofb_index = -1] \in Slot
                         /\ [w[i] EXCEPT !.ofb_index = -1].ofb_index = -1
    BY DEF Slot
  <1> QED BY <1>1 DEF dp_wlistInit, Table, Placed

\* dpnode_insert stores an address only in the slot it hashes to.
LEMMA InsertTable ==
    ASSUME NEW w \in Table, Placed(w), NEW ip \in Ip, NEW mac \in Mac, NEW i, NEW stat
    PROVE  dpnode_insert(w, i, ip, mac, stat) \in Table /\ Placed(dpnode_insert(w, i, ip, mac, stat))
  <1> DEFINE h == dp_hashindex(ip)
             e == [ipaddr |-> ip, macaddr |-> mac, ofb_index |-> 0]
             stored == [w EXCEPT ![h] = e]
             remac == [w EXCEPT ![i].macaddr = mac]
  <1>1. e \in Slot /\ e.ipaddr = ip /\ e.ofb_index = 0
    BY DEF Slot
  <1>2. stored \in Table /\ Placed(stored)
    <2> HIDE DEF e
    <2>1. \A j \in Index : stored[j] = IF j = h THEN e ELSE w[j]
      BY DEF Table
    <2>2. stored \in Table
      BY <1>1 DEF Table
    <2> HIDE DEF stored
    <2>3. Placed(stored)
      BY <1>1, <2>1 DEF Placed
    <2> QED BY <2>2, <2>3
  <1>3. remac \in Table /\ Placed(remac)
    <2>1. \A j \in Index : [w[j] EXCEPT !.macaddr = mac] \in Slot
                           /\ [w[j] EXCEPT !.macaddr = mac].ipaddr = w[j].ipaddr
                           /\ [w[j] EXCEPT !.macaddr = mac].ofb_index = w[j].ofb_index
      BY DEF Table, Slot
    <2>2. \A j \in Index : remac[j] = IF j = i THEN [w[j] EXCEPT !.macaddr = mac] ELSE w[j]
      BY DEF Table
    <2>3. \A j \in Index : /\ remac[j] \in Slot
                           /\ remac[j].ipaddr = w[j].ipaddr
                           /\ remac[j].ofb_index = w[j].ofb_index
      BY <2>1, <2>2 DEF Table
    <2>4. remac \in Table
      BY <2>1 DEF Table
    <2> QED BY <2>3, <2>4 DEF Placed
  <1>4. dpnode_insert(w, i, ip, mac, stat) \in {stored, remac, w}
    BY DEF dpnode_insert
  <1> QED BY <1>2, <1>3, <1>4

\* dpnode_delete frees at most one slot.
LEMMA DeleteTable ==
    ASSUME NEW w \in Table, Placed(w), NEW ip
    PROVE  dpnode_delete(w, ip) \in Table /\ Placed(dpnode_delete(w, ip))
  <1> DEFINE i == dpnode_lookup(w, ip)
             free(s) == [s EXCEPT !.ofb_index = -1, !.ipaddr = NoIp]
             freed == [w EXCEPT ![i] = free(@)]
  <1>1. \A j \in Index : free(w[j]) \in Slot /\ free(w[j]).ofb_index = -1
    BY DEF Table, Slot
  <1>2. [w EXCEPT ![i].ofb_index = -1, ![i].ipaddr = NoIp] = freed
    BY DEF Table
  <1> HIDE DEF free, i
  <1>3. \A j \in Index : freed[j] = IF j = i THEN free(w[j]) ELSE w[j]
    BY DEF Table
  <1>4. freed \in Table
    BY <1>1 DEF Table
  <1> HIDE DEF freed
  <1>5. Placed(freed)
    BY <1>1, <1>3 DEF Placed
  <1>6. dpnode_delete(w, ip) \in {freed, w}
    BY <1>2 DEF dpnode_delete, i
  <1> QED BY <1>4, <1>5, <1>6

-----------------------------------------------------------------------------
(* The slots an address may have. *)

\* Addresses are natural numbers.
LEMMA IpNat == Ip \subseteq Nat
  BY DpAssumption DEF Ip

\* A remainder is less than the divisor.
LEMMA ModFact ==
    ASSUME NEW x \in Int, NEW m \in Nat, m > 0
    PROVE  x % m \in 0..(m - 1)
  OBVIOUS

\* dp_hashindex stays inside the table.
LEMMA HashIndex ==
    ASSUME NEW ip \in Nat
    PROVE  dp_hashindex(ip) \in Index
  <1> DEFINE M == MAX_ENTRIES
             M2 == M * M
             M3 == M * M * M
  <1>0. M \in Nat /\ M > 1 /\ M2 \in Nat /\ M3 \in Nat /\ M2 > 0 /\ M3 > 0
    <2>1. M \in Nat /\ M > 1
      BY DpAssumption
    <2>2. \A x, y \in Nat : x > 0 /\ y > 0 => x * y \in Nat /\ x * y > 0
      OBVIOUS
    <2> HIDE DEF M
    <2>3. M2 \in Nat /\ M2 > 0
      BY <2>1, <2>2
    <2>4. M2 * M \in Nat /\ M2 * M > 0
      <3> HIDE DEF M2
      <3> QED BY <2>1, <2>2, <2>3
    <2> QED BY <2>1, <2>3, <2>4
  <1> DEFINE q1 == ip \div M
             q2 == ip \div (M * M)
             q3 == ip \div (M * M * M)
             sum == (ip % M) + (q1 % M) + (q2 % M) + (q3 % M)
             carry == IF sum \div M > 0 THEN 1 ELSE 0
             ret == ((sum % M) + carry) % M
  <1>1. q1 \in Int /\ q2 \in Int /\ q3 \in Int
    <2>1. \A x \in Nat, y \in Nat : y > 0 => x \div y \in Int
      OBVIOUS
    <2>2. ip \div M2 \in Int /\ ip \div M3 \in Int /\ ip \div M \in Int
      <3> HIDE DEF M, M2, M3
      <3> QED BY <1>0, <2>1
    <2> QED BY <2>2
  <1> HIDE DEF M, q1, q2, q3
  <1>2. sum \in Int
    <2>1. ip % M \in Int /\ q1 % M \in Int /\ q2 % M \in Int /\ q3 % M \in Int
      BY <1>0, <1>1, ModFact
    <2> QED BY <2>1
  <1> HIDE DEF sum
  <1>3. (sum % M) + carry \in Int
    BY <1>0, <1>2, ModFact
  <1> HIDE DEF carry
  <1>4. ret \in 0..(M - 1)
    BY <1>0, <1>3, ModFact
  <1>5. dp_hashindex(ip) = IF ret > 0 THEN ret - 1 ELSE ret
    BY DEF dp_hashindex, M, q1, q2, q3, sum, carry
  <1> HIDE DEF ret
  <1>6. (IF ret > 0 THEN ret - 1 ELSE ret) \in 0..(M - 1)
    BY <1>0, <1>4
  <1> QED BY <1>5, <1>6 DEF Index, M

-----------------------------------------------------------------------------
\* The insertion that is pending: what its lookup found is the slot of the
\* address, or nothing.
PendingOK ==
    /\ pending.step = "none" <=> pending = Nothing
    /\ pending.step # "none" => pending.dev \in Dev /\ pending.mac \in Mac
    /\ pending.step = "store" =>
         /\ attached /\ pending.ip \in Ip /\ pending.ip # NoIp
         /\ pending.index \in {-1, dp_hashindex(pending.ip)}

\* What a step preserves: the types, and an attached table that is placed.
\* (A segment that could not be attached is left as it was created.)
Inv == TypeOK /\ PendingOK /\ (attached => Placed(dp_wlist))

\* An empty segment is a table.
LEMMA NewSegmentTable == NewSegment \in Table
  BY DEF NewSegment, Table, Slot

\* The results of dpnode_insert are DP_SUCCESS and DP_WLIST_ERROR.
LEMMA InsertResultType ==
    ASSUME NEW i, NEW stat
    PROVE  InsertResult(i, stat) \in {DP_SUCCESS, DP_WLIST_ERROR}
  BY DEF InsertResult

\* A device that is not listed has neither address nor MAC.
LEMMA AbsentType == Absent \in [ip : Ip \cup {NoIp}, mac : Mac \cup {NoMac}]
  BY DEF Absent

Pending == [step : {"none", "lookup", "store"}, dev : Dev \cup {NoDev},
            ip : Ip \cup {NoIp}, mac : Mac \cup {NoMac}, index : Index \cup {-1}, stat : 0..3]

\* No insertion is one that can be pending.
LEMMA NothingFact == /\ Nothing \in Pending
                     /\ Nothing.step = "none" /\ Nothing.dev = NoDev
  BY DEF Nothing, Pending, DP_SUCCESS

\* The lookup of an address ends at its slot, or nowhere, with a status.
LEMMA LookupFact ==
    ASSUME NEW w, NEW ip, NEW mac, NEW stat \in LookupStat(w, ip, mac)
    PROVE  dpnode_lookup(w, ip) \in {-1, dp_hashindex(ip)} /\ stat \in 0..3
  <1>1. StackStat \subseteq 0..3
    BY DpAssumption
  <1>2. stat \in StackStat \/ stat \in {DP_COLLISION, DP_SUCCESS, DP_INVALID_MAC}
    BY DEF LookupStat
  <1>3. stat \in 0..3
    <2>1. CASE stat \in StackStat
      BY <1>1, <2>1
    <2>2. CASE stat \in {DP_COLLISION, DP_SUCCESS, DP_INVALID_MAC}
      BY <2>2 DEF DP_COLLISION, DP_SUCCESS, DP_INVALID_MAC
    <2> QED BY <1>2, <2>1, <2>2
  <1> QED BY <1>3 DEF dpnode_lookup

\* The initial states satisfy the inductive invariant.
LEMMA InitInv == Init => Inv
  <1> SUFFICES ASSUME Init PROVE Inv
    OBVIOUS
  <1>1. dp_wlist \in Table /\ (attached => Placed(dp_wlist))
    BY NewSegmentTable, InitTable DEF Init, Table, Slot
  <1>2. xdevlist \in [Dev -> [ip : Ip \cup {NoIp}, mac : Mac \cup {NoMac}]]
    BY AbsentType DEF Init
  <1>3. pending \in Pending /\ PendingOK
    BY NothingFact DEF Init, PendingOK
  <1> QED BY <1>1, <1>2, <1>3 DEF Inv, TypeOK, Init, Table, Pending

\* Taking a device off keeps the inductive invariant: a delete only empties slots.
LEMMA DeleteInv == ASSUME Inv, NEW d \in Dev, Delete(d) PROVE Inv'
  <1>1. dp_wlist' \in Table /\ (attached' => Placed(dp_wlist'))
    <2>1. dp_wlist \in Table /\ attached' = attached
      BY DEF Inv, TypeOK, Table, Delete
    <2>2. CASE TakesOff(d)
      BY <2>1, <2>2, DeleteTable DEF Inv, TakesOff, Delete
    <2>3. CASE ~TakesOff(d)
      BY <2>1, <2>3 DEF Inv, Delete
    <2> QED BY <2>2, <2>3
  <1>2. xdevlist' \in [Dev -> [ip : Ip \cup {NoIp}, mac : Mac \cup {NoMac}]]
    BY AbsentType DEF Inv, TypeOK, Delete
  <1>3. fault' \in BOOLEAN /\ overtaken' \in BOOLEAN
    BY DEF Inv, TypeOK, Delete, DeleteFaults
  <1>4. UNCHANGED <<pending, attached, last>> /\ PendingOK'
    BY DEF Inv, Delete, PendingOK
  <1> QED BY <1>1, <1>2, <1>3, <1>4 DEF Inv, TypeOK, Table

\* The list gets a device: the table loses its old address at most.
LEMMA UpdateInv ==
    ASSUME Inv, NEW d \in Dev, NEW ip \in Leases[d] \cup {NoIp}, NEW mac \in Macs[d], Update(d, ip, mac)
    PROVE  Inv'
  <1>0. attached' = attached /\ last' = last /\ overtaken' = overtaken
        /\ ip \in Ip \cup {NoIp} /\ mac \in Mac
    BY DEF Update, Ip, Mac
  <1>1. dp_wlist' \in Table /\ (attached' => Placed(dp_wlist'))
    <2>1. dp_wlist \in Table
      BY DEF Inv, TypeOK, Table
    <2>2. CASE d \in Listed /\ TakesOff(d)
      BY <1>0, <2>1, <2>2, DeleteTable DEF Inv, TakesOff, Update
    <2>3. CASE ~(d \in Listed /\ TakesOff(d))
      BY <1>0, <2>1, <2>3 DEF Inv, Update
    <2> QED BY <2>2, <2>3
  <1>2. fault' \in BOOLEAN
    BY DEF Inv, TypeOK, Update, DeleteFaults
  <1>3. xdevlist' \in [Dev -> [ip : Ip \cup {NoIp}, mac : Mac \cup {NoMac}]]
    BY <1>0 DEF Inv, TypeOK, Update
  <1>4. /\ pending' \in Pending
        /\ pending'.step = "lookup" /\ pending'.dev = d /\ pending'.mac = mac
    <2>1. pending' = [step |-> "lookup", dev |-> d, ip |-> ip, mac |-> mac, index |-> -1, stat |-> 0]
      BY DEF Update, Nothing, DP_SUCCESS
    <2> QED BY <1>0, <2>1 DEF Pending
  <1>5. PendingOK'
    BY <1>0, <1>4, NothingFact DEF PendingOK
  <1> QED BY <1>0, <1>1, <1>2, <1>3, <1>4, <1>5 DEF Inv, TypeOK, Table, Pending

\* What a field reads as has its type, freed or not.
LEMMA ReadFact ==
    ASSUME NEW field, NEW all, field \in all, NEW v \in Read(field, all)
    PROVE  v \in all /\ (~Freed => v = field)
  BY DEF Read

\* The lookup of the insertion.
LEMMA InsertLookupInv == ASSUME Inv, InsertLookup PROVE Inv'
  <1>1. pending.step = "lookup" /\ pending \in Pending /\ pending.dev \in Dev /\ pending.mac \in Mac
        /\ pending.ip \in Ip \cup {NoIp}
    BY DEF Inv, TypeOK, InsertLookup, PendingOK, Pending
  <1>2. PICK ip \in Read(pending.ip, Ip \cup {NoIp}), mac \in Read(pending.mac, Mac) :
             \/ pending' = Nothing /\ last' = last
             \/ ip # NoIp /\ pending' = Nothing /\ last' = [ip |-> ip, ret |-> DP_WLIST_ERROR]
             \/ /\ ip # NoIp /\ attached /\ last' = last
                /\ \E stat \in LookupStat(dp_wlist, ip, mac) :
                     pending' = [step |-> "store", dev |-> pending.dev, ip |-> ip, mac |-> mac,
                                 index |-> dpnode_lookup(dp_wlist, ip), stat |-> stat]
    BY DEF InsertLookup
  <1>3. ip \in Ip \cup {NoIp} /\ mac \in Mac
    BY <1>1, <1>2, ReadFact
  <1>4. /\ pending' \in Pending /\ PendingOK'
        /\ last' \in [ip : Ip \cup {NoIp}, ret : {DP_SUCCESS, DP_WLIST_ERROR}]
    <2>1. CASE pending' = Nothing /\ (last' = last \/ last' = [ip |-> ip, ret |-> DP_WLIST_ERROR])
      BY <1>3, <2>1, NothingFact DEF PendingOK, Inv, TypeOK
    <2>2. ASSUME ip # NoIp, attached, last' = last,
                 NEW stat \in LookupStat(dp_wlist, ip, mac),
                 pending' = [step |-> "store", dev |-> pending.dev, ip |-> ip, mac |-> mac,
                             index |-> dpnode_lookup(dp_wlist, ip), stat |-> stat]
          PROVE  /\ pending' \in Pending /\ PendingOK'
                 /\ last' \in [ip : Ip \cup {NoIp}, ret : {DP_SUCCESS, DP_WLIST_ERROR}]
      <3>1. ip \in Ip
        BY <1>3, <2>2
      <3>2. dpnode_lookup(dp_wlist, ip) \in {-1, dp_hashindex(ip)} /\ stat \in 0..3
        BY <2>2, LookupFact
      <3>3. dp_hashindex(ip) \in Index
        BY <3>1, IpNat, HashIndex
      <3> HIDE DEF Index
      <3>4. pending' \in Pending
        BY <1>1, <1>3, <2>2, <3>1, <3>2, <3>3 DEF Pending
      <3>5. /\ pending'.step = "store" /\ pending'.dev = pending.dev /\ pending'.ip = ip
            /\ pending'.mac = mac /\ pending'.index = dpnode_lookup(dp_wlist, ip)
            /\ pending' # Nothing /\ attached' = attached
        BY <2>2, NothingFact DEF InsertLookup
      <3>6. PendingOK'
        BY <1>1, <1>3, <2>2, <3>1, <3>2, <3>5 DEF PendingOK
      <3> QED BY <2>2, <3>4, <3>6 DEF Inv, TypeOK
    <2> QED BY <1>2, <2>1, <2>2
  <1> QED BY <1>4 DEF Inv, TypeOK, InsertLookup, Pending, Placed

\* The store of the insertion fills the slot its address hashes to.
LEMMA InsertStoreInv == ASSUME Inv, InsertStore PROVE Inv'
  <1>1. /\ pending.ip \in Ip /\ pending.mac \in Mac /\ attached
        /\ dp_wlist \in Table /\ Placed(dp_wlist)
    BY DEF Inv, TypeOK, InsertStore, PendingOK, Table
  <1>2. PICK mac \in Read(pending.mac, Mac) :
             dp_wlist' = dpnode_insert(dp_wlist, pending.index, pending.ip, mac, pending.stat)
    BY DEF InsertStore
  <1>3. mac \in Mac
    BY <1>1, <1>2, ReadFact
  <1>4. dp_wlist' \in Table /\ Placed(dp_wlist')
    BY <1>1, <1>2, <1>3, InsertTable
  <1>5. last' \in [ip : Ip \cup {NoIp}, ret : {DP_SUCCESS, DP_WLIST_ERROR}]
    BY <1>1, InsertResultType DEF InsertStore
  <1>6. pending' \in Pending /\ PendingOK'
    BY NothingFact DEF InsertStore, PendingOK
  <1> QED BY <1>4, <1>5, <1>6 DEF Inv, TypeOK, InsertStore, Table, Pending

\* An insertion that stops at freed memory leaves the table as it is.
LEMMA InsertFaultInv == ASSUME Inv, InsertFault PROVE Inv'
  <1>1. pending' \in Pending /\ PendingOK'
    BY NothingFact DEF InsertFault, PendingOK
  <1> QED BY <1>1 DEF Inv, TypeOK, InsertFault, Pending, Placed

\* A restart keeps the inductive invariant: the segment survives it as it is.
LEMMA RestartInv == ASSUME Inv, Restart PROVE Inv'
  <1>1. PICK segment \in {dp_wlist, NewSegment} :
             dp_wlist' = IF attached' THEN dp_wlistInit(segment) ELSE segment
    BY DEF Restart
  <1>2. segment \in Table
    BY NewSegmentTable DEF Inv, TypeOK, Table
  <1>3. dp_wlist' \in Table /\ (attached' => Placed(dp_wlist'))
    BY <1>1, <1>2, InitTable DEF Table, Slot
  <1>4. xdevlist' \in [Dev -> [ip : Ip \cup {NoIp}, mac : Mac \cup {NoMac}]]
    BY AbsentType DEF Restart
  <1>5. pending' \in Pending /\ PendingOK'
    BY NothingFact DEF Restart, PendingOK
  <1> QED BY <1>3, <1>4, <1>5 DEF Inv, TypeOK, Restart, Table, Pending

\* Every step keeps the inductive invariant.
LEMMA StepInv == Inv /\ [Next]_vars => Inv'
  <1> SUFFICES ASSUME Inv, [Next]_vars PROVE Inv'
    OBVIOUS
  <1>1. CASE \E d \in Dev : Delete(d)
    BY <1>1, DeleteInv
  <1>2. CASE \E d \in Dev : \E ip \in Leases[d] \cup {NoIp}, mac \in Macs[d] : Update(d, ip, mac)
    BY <1>2, UpdateInv
  <1>3. CASE InsertLookup
    BY <1>3, InsertLookupInv
  <1>4. CASE InsertStore
    BY <1>4, InsertStoreInv
  <1>5. CASE InsertFault
    BY <1>5, InsertFaultInv
  <1>6. CASE Restart
    BY <1>6, RestartInv
  <1>7. CASE UNCHANGED vars
    BY <1>7 DEF Inv, TypeOK, Placed, PendingOK, vars
  <1> QED BY <1>1, <1>2, <1>3, <1>4, <1>5, <1>6, <1>7 DEF Next

\* The white list keeps its types: no slot is ever linked to another one, so
\* that the overflow half of the segment stays empty.
THEOREM DpTypeCorrect == Spec => []TypeOK
  <1>1. Inv => TypeOK
    BY DEF Inv
  <1> QED BY InitInv, StepInv, <1>1, PTL DEF Spec

\* Whatever dpnode_lookup leaves in *stat, dpnode_insert never stores an
\* address outside the slot that dpnode_lookup and dpnode_delete look at.
THEOREM SlotsPlaced == Spec => []OneSlotPerAddress
  <1>1. Inv => OneSlotPerAddress
    BY DEF Inv, Placed, OneSlotPerAddress, Used
  <1> QED BY InitInv, StepInv, <1>1, PTL DEF Spec

-----------------------------------------------------------------------------
(* The slots, one by one. *)

\* dpnode_delete frees the slot the address hashes to, if it is there, but never
\* slot 3.
LEMMA DeleteSlots ==
    ASSUME NEW w \in Table, NEW ip \in Ip
    PROVE  LET r == dpnode_delete(w, ip)
               h == dp_hashindex(ip)
           IN /\ \A j \in Index \ {h} : r[j] = w[j]
              /\ r[h].ofb_index = 0 => r[h] = w[h]
              /\ r[h].ofb_index = 0 /\ h # DP_WLIST_ERROR => r[h].ipaddr # ip
  <1> DEFINE r == dpnode_delete(w, ip)
             h == dp_hashindex(ip)
             free(s) == [s EXCEPT !.ofb_index = -1, !.ipaddr = NoIp]
             freed == [w EXCEPT ![h] = free(@)]
  <1>1. h \in Index
    BY IpNat, HashIndex
  <1>2. w[h] \in Slot /\ h \in Nat
    BY <1>1 DEF Table, Index
  <1>3. free(w[h]).ofb_index = -1 /\ w[h].ofb_index \in {-1, 0}
    BY <1>2 DEF Slot
  <1>4. [w EXCEPT ![h].ofb_index = -1, ![h].ipaddr = NoIp] = freed
    BY <1>1 DEF Table
  <1>5. freed[h] = free(w[h]) /\ \A j \in Index \ {h} : freed[j] = w[j]
    BY <1>1 DEF Table
  <1>6. r = IF w[h].ofb_index = -1 \/ w[h].ipaddr # ip \/ h = DP_WLIST_ERROR THEN w ELSE freed
    <2>1. CASE w[h].ofb_index = -1 \/ w[h].ipaddr # ip
      BY <2>1 DEF dpnode_delete, dpnode_lookup
    <2>2. CASE ~(w[h].ofb_index = -1 \/ w[h].ipaddr # ip)
      <3>1. dpnode_lookup(w, ip) = h /\ h # -1
        BY <1>2, <2>2 DEF dpnode_lookup
      <3> HIDE DEF h
      <3>2. r = IF h = DP_WLIST_ERROR THEN w ELSE [w EXCEPT ![h].ofb_index = -1, ![h].ipaddr = NoIp]
        BY <3>1 DEF dpnode_delete
      <3> QED BY <1>4, <2>2, <3>2
    <2> QED BY <2>1, <2>2
  <1> HIDE DEF r, h, free, freed
  <1>7. /\ \A j \in Index \ {h} : r[j] = w[j]
        /\ r[h].ofb_index = 0 => r[h] = w[h]
    BY <1>3, <1>5, <1>6
  <1>8. r[h].ofb_index = 0 /\ h # DP_WLIST_ERROR => r[h].ipaddr # ip
    BY <1>3, <1>5, <1>6
  <1> QED BY <1>7, <1>8 DEF r, h

\* dpnode_insert changes the slot the address hashes to only, and puts no other
\* address there.
LEMMA InsertSlots ==
    ASSUME NEW w \in Table, NEW ip \in Ip, NEW mac \in Mac, NEW stat,
           NEW i \in {-1, dp_hashindex(ip)}
    PROVE  LET r == dpnode_insert(w, i, ip, mac, stat)
               h == dp_hashindex(ip)
           IN /\ \A j \in Index \ {h} : r[j] = w[j]
              /\ \/ r[h].ipaddr = ip
                 \/ r[h].ipaddr = w[h].ipaddr /\ r[h].ofb_index = w[h].ofb_index
              /\ i = -1 /\ stat # DP_COLLISION =>
                   r[h].ofb_index = 0 /\ r[h].ipaddr = ip /\ r[h].macaddr = mac
              /\ i = h /\ stat = DP_INVALID_MAC =>
                   r[h].ofb_index = w[h].ofb_index /\ r[h].ipaddr = w[h].ipaddr /\ r[h].macaddr = mac
              /\ i = h /\ stat # DP_INVALID_MAC => r[h] = w[h]
  <1> DEFINE r == dpnode_insert(w, i, ip, mac, stat)
             h == dp_hashindex(ip)
             e == [ipaddr |-> ip, macaddr |-> mac, ofb_index |-> 0]
             stored == [w EXCEPT ![h] = e]
             m == [w[h] EXCEPT !.macaddr = mac]
             remac == [w EXCEPT ![h].macaddr = mac]
  <1>1. h \in Index
    BY IpNat, HashIndex
  <1>2. w[h] \in Slot /\ h # -1
    BY <1>1, DpAssumption DEF Table, Index
  <1>3. /\ e.ipaddr = ip /\ e.macaddr = mac /\ e.ofb_index = 0
        /\ m.ipaddr = w[h].ipaddr /\ m.macaddr = mac /\ m.ofb_index = w[h].ofb_index
    BY <1>2 DEF Slot
  <1>4. /\ stored[h] = e /\ remac[h] = m
        /\ \A j \in Index \ {h} : stored[j] = w[j] /\ remac[j] = w[j]
    BY <1>1 DEF Table
  <1>5. i = -1 \/ i = h
    OBVIOUS
  <1>6. r = IF i = -1 /\ stat # DP_COLLISION THEN stored
            ELSE IF i = h /\ stat = DP_INVALID_MAC THEN remac ELSE w
    <2> HIDE DEF h
    <2> QED BY <1>2, <1>5 DEF dpnode_insert, h
  <1> HIDE DEF r, h, e, m, stored, remac
  <1>7. /\ \A j \in Index \ {h} : r[j] = w[j]
        /\ \/ r[h].ipaddr = ip
           \/ r[h].ipaddr = w[h].ipaddr /\ r[h].ofb_index = w[h].ofb_index
        /\ i = -1 /\ stat # DP_COLLISION =>
             r[h].ofb_index = 0 /\ r[h].ipaddr = ip /\ r[h].macaddr = mac
        /\ i = h /\ stat = DP_INVALID_MAC =>
             r[h].ofb_index = w[h].ofb_index /\ r[h].ipaddr = w[h].ipaddr /\ r[h].macaddr = mac
        /\ i = h /\ stat # DP_INVALID_MAC => r[h] = w[h]
    BY <1>2, <1>3, <1>4, <1>6
  <1> QED BY <1>7 DEF r, h

-----------------------------------------------------------------------------
(* What the white list allows. *)

\* The address a device has is one of its leases.
Leased == \A d \in Dev : xdevlist[d].ip \in Leases[d] \cup {NoIp}

\* The pending insertion is that of the device as it is listed.
PendingListed ==
    ~overtaken /\ pending.step # "none" =>
        /\ xdevlist[pending.dev].ip = pending.ip
        /\ xdevlist[pending.dev].mac = pending.mac

\* A device has the address of the slot, or had it and is never taken off.
Holder(a) ==
    \/ \E d \in Dev : xdevlist[d].ip = a
    \/ \E d \in Dev : ~Removable(d) /\ a \in Leases[d]

\* Every used slot but slot 3 holds an address of a device.
Held ==
    attached /\ ~overtaken => \A i \in Index \ {DP_WLIST_ERROR} :
        dp_wlist[i].ofb_index = 0 => dp_wlist[i].ipaddr # NoIp /\ Holder(dp_wlist[i].ipaddr)

\* The slot of device d's address in the table w is its own.
Own(w, d) ==
    LET s == w[dp_hashindex(xdevlist[d].ip)]
    IN  s.ofb_index = 0 /\ s.ipaddr = xdevlist[d].ip /\ s.macaddr = xdevlist[d].mac

Calm == attached /\ ~fault /\ ~overtaken

\* Every device whose address collides with none has a slot, once it is inserted.
Allowed ==
    Calm => \A d \in Dev \ {pending.dev} :
               xdevlist[d].ip # NoIp /\ Alone(xdevlist[d].ip) => Own(dp_wlist, d)

\* The lookup of such an address is still right when its result is used.
Fresh(w) ==
    Calm /\ pending.step = "store" /\ Alone(pending.ip) =>
        LET s == w[dp_hashindex(pending.ip)]
        IN  \/ pending.index = -1 /\ pending.stat # DP_COLLISION
            \/ /\ pending.index = dp_hashindex(pending.ip)
               /\ s.ofb_index = 0 /\ s.ipaddr = pending.ip
               /\ pending.stat = DP_INVALID_MAC \/ s.macaddr = pending.mac

\* A restart leaves an attached table without used slots, and no device.
LEMMA RestartEmpty ==
    ASSUME Inv, Restart \/ Init', attached' \in BOOLEAN
    PROVE  /\ attached' => \A i \in Index : dp_wlist'[i].ofb_index = -1
           /\ \A d \in Dev : xdevlist'[d].ip = NoIp
  <1>1. PICK segment \in {dp_wlist, NewSegment} :
             dp_wlist' = IF attached' THEN dp_wlistInit(segment) ELSE segment
    BY DEF Restart, Init
  <1>2. segment \in Table
    BY NewSegmentTable DEF Inv, TypeOK, Table
  <1>3. \A i \in Index : [segment[i] EXCEPT !.ofb_index = -1].ofb_index = -1
    BY <1>2 DEF Table, Slot
  <1>4. xdevlist' = [d \in Dev |-> Absent]
    BY DEF Restart, Init
  <1> QED BY <1>1, <1>3, <1>4 DEF dp_wlistInit, Absent

\* The same of the first start.
LEMMA InitEmpty ==
    ASSUME Init
    PROVE  /\ attached => \A i \in Index : dp_wlist[i].ofb_index = -1
           /\ \A d \in Dev : xdevlist[d].ip = NoIp
  <1>1. \A i \in Index : [NewSegment[i] EXCEPT !.ofb_index = -1].ofb_index = -1
    BY NewSegmentTable DEF Table, Slot
  <1> QED BY <1>1 DEF Init, dp_wlistInit, Absent

\* The table without device d's address: what delete_gwyitem leaves of it.
Off(d) == IF TakesOff(d) THEN dpnode_delete(dp_wlist, xdevlist[d].ip) ELSE dp_wlist

\* A device that is not listed has no address.
LEMMA AbsentFact ==
    ASSUME TypeOK, NEW d \in Dev, d \notin Listed
    PROVE  xdevlist[d].ip = NoIp /\ ~TakesOff(d)
  BY DEF Listed, Absent, TakesOff

\* Without it every used slot but slot 3 holds the address of another device, or
\* of one that is never taken off.
LEMMA OffHeld ==
    ASSUME Inv, Leased, Held, attached, ~overtaken, NEW d \in Dev,
           NEW i \in Index \ {DP_WLIST_ERROR}, Off(d)[i].ofb_index = 0
    PROVE  LET a == Off(d)[i].ipaddr
           IN  /\ a # NoIp
               /\ \/ \E e \in Dev \ {d} : xdevlist[e].ip = a
                  \/ \E e \in Dev : ~Removable(e) /\ a \in Leases[e]
  <1> DEFINE a == xdevlist[d].ip
             w == dp_wlist
  <1>1. w \in Table /\ Placed(w) /\ a \in Ip \cup {NoIp} /\ a \in Leases[d] \cup {NoIp}
    BY DEF Inv, TypeOK, Table, Leased
  <1>2. CASE TakesOff(d)
    <2>1. a \in Ip /\ Off(d) = dpnode_delete(w, a)
      BY <1>1, <1>2 DEF TakesOff, Off
    <2>2. Off(d)[i] = w[i] /\ (i = dp_hashindex(a) => w[i].ipaddr # a)
      <3> HIDE DEF a, w
      <3>1. CASE i = dp_hashindex(a)
        BY <1>1, <2>1, <3>1, DeleteSlots
      <3>2. CASE i # dp_hashindex(a)
        BY <1>1, <2>1, <3>2, DeleteSlots
      <3> QED BY <3>1, <3>2
    <2>3. w[i].ipaddr # NoIp /\ Holder(w[i].ipaddr) /\ dp_hashindex(w[i].ipaddr) = i
      BY <1>1, <2>2 DEF Held, Placed
    <2>4. w[i].ipaddr # a
      BY <2>2, <2>3
    <2> QED BY <2>2, <2>3, <2>4 DEF Holder
  <1>3. CASE ~TakesOff(d)
    <2>1. Off(d) = w /\ (a = NoIp \/ ~Removable(d))
      BY <1>3 DEF Off, TakesOff
    <2>2. w[i].ipaddr # NoIp /\ Holder(w[i].ipaddr)
      BY <2>1 DEF Held
    <2>3. CASE w[i].ipaddr = a
      BY <1>1, <2>1, <2>2, <2>3
    <2>4. CASE w[i].ipaddr # a
      BY <2>1, <2>2, <2>4 DEF Holder
    <2> QED BY <2>3, <2>4
  <1> QED BY <1>2, <1>3

\* Without it the slots of the other devices' addresses are as they were.
LEMMA OffSlot ==
    ASSUME Inv, Leased, NEW d \in Dev, NEW e \in Dev \ {d}, NEW b \in Leases[e], Alone(b)
    PROVE  Off(d)[dp_hashindex(b)] = dp_wlist[dp_hashindex(b)]
  <1> DEFINE a == xdevlist[d].ip
             h == dp_hashindex(b)
  <1>1. dp_wlist \in Table /\ a \in Ip \cup {NoIp} /\ b \in Ip
    BY DEF Inv, TypeOK, Table, Ip
  <1>2. CASE TakesOff(d)
    <2>1. a \in Ip /\ a \in Leases[d] /\ Off(d) = dpnode_delete(dp_wlist, a)
      BY <1>1, <1>2 DEF TakesOff, Off, Leased
    <2>2. a # b
      BY <2>1 DEF Alone
    <2>3. dp_hashindex(a) # h /\ h \in Index
      BY <1>1, <2>1, <2>2, IpNat, HashIndex DEF Alone
    <2> HIDE DEF a, h
    <2>4. Off(d)[h] = dp_wlist[h]
      BY <1>1, <2>1, <2>3, DeleteSlots
    <2> QED BY <2>4 DEF h
  <1>3. CASE ~TakesOff(d)
    BY <1>3 DEF Off
  <1> QED BY <1>2, <1>3

\* What update_gwylist does to the table under the lock.
LEMMA UpdateFact ==
    ASSUME Inv, NEW d \in Dev, NEW ip \in Leases[d] \cup {NoIp}, NEW mac \in Macs[d], Update(d, ip, mac)
    PROVE  /\ dp_wlist' = Off(d)
           /\ attached' = attached /\ overtaken' = overtaken /\ fault = FALSE
           /\ xdevlist'[d].ip = ip /\ xdevlist'[d].mac = mac
           /\ \A e \in Dev \ {d} : xdevlist'[e] = xdevlist[e]
           /\ pending.dev = NoDev
           /\ pending'.step = "lookup" /\ pending'.dev = d /\ pending'.ip = ip /\ pending'.mac = mac
  <1>1. dp_wlist' = Off(d)
    BY AbsentFact DEF Off, Inv, Update
  <1>2. /\ attached' = attached /\ overtaken' = overtaken /\ fault = FALSE
        /\ pending.dev = NoDev
        /\ pending'.step = "lookup" /\ pending'.dev = d /\ pending'.ip = ip /\ pending'.mac = mac
    BY DEF Inv, TypeOK, Update, Nothing
  <1>3. /\ xdevlist'[d] = [ip |-> ip, mac |-> mac]
        /\ \A e \in Dev \ {d} : xdevlist'[e] = xdevlist[e]
    BY DEF Inv, TypeOK, Update
  <1> QED BY <1>1, <1>2, <1>3

\* What delete_gwyitem does to the table.
LEMMA DeleteFact ==
    ASSUME Inv, NEW d \in Dev, Delete(d)
    PROVE  /\ attached' = attached /\ dp_wlist' = Off(d)
           /\ xdevlist'[d].ip = NoIp
           /\ \A e \in Dev \ {d} : xdevlist'[e] = xdevlist[e]
           /\ fault = FALSE /\ pending' = pending
           /\ ~overtaken' => ~overtaken /\ d # pending.dev
  BY DEF Inv, TypeOK, Delete, Off, Absent

\* An insertion that was not overtaken reads what it was given.
LEMMA ReadSame ==
    ASSUME Inv, PendingListed, ~overtaken, pending.step # "none"
    PROVE  ~Freed
  <1>1. pending.dev \in Dev /\ pending.mac \in Mac /\ xdevlist[pending.dev].mac = pending.mac
    BY DEF Inv, PendingOK, PendingListed
  <1>2. pending.mac # NoMac
    BY <1>1, DpAssumption
  <1> QED BY <1>1, <1>2 DEF Freed, Listed, Absent

\* What the lookup of the insertion finds.
LEMMA InsertLookupFact ==
    ASSUME Inv, PendingListed, ~overtaken, InsertLookup
    PROVE  /\ UNCHANGED <<dp_wlist, xdevlist, attached, fault, overtaken>>
           /\ \/ pending' = Nothing /\ (pending.ip = NoIp \/ ~attached)
              \/ /\ pending.ip # NoIp
                 /\ \E stat \in LookupStat(dp_wlist, pending.ip, pending.mac) :
                      pending' = [step |-> "store", dev |-> pending.dev, ip |-> pending.ip,
                                  mac |-> pending.mac, index |-> dpnode_lookup(dp_wlist, pending.ip),
                                  stat |-> stat]
  <1>1. ~Freed
    BY ReadSame DEF InsertLookup
  <1>2. Read(pending.ip, Ip \cup {NoIp}) = {pending.ip} /\ Read(pending.mac, Mac) = {pending.mac}
    BY <1>1 DEF Read
  <1> QED BY <1>2 DEF InsertLookup

\* What the store of the insertion does.
LEMMA InsertStoreFact ==
    ASSUME Inv, PendingListed, ~overtaken, InsertStore
    PROVE  /\ UNCHANGED <<xdevlist, attached, fault, overtaken>>
           /\ pending' = Nothing
           /\ dp_wlist' = dpnode_insert(dp_wlist, pending.index, pending.ip, pending.mac, pending.stat)
           /\ pending.dev \in Dev /\ pending.ip \in Ip /\ pending.ip # NoIp /\ pending.mac \in Mac
           /\ pending.index \in {-1, dp_hashindex(pending.ip)} /\ attached
           /\ xdevlist[pending.dev].ip = pending.ip /\ xdevlist[pending.dev].mac = pending.mac
  <1>1. ~Freed /\ pending.step = "store"
    BY ReadSame DEF InsertStore
  <1>2. Read(pending.mac, Mac) = {pending.mac}
    BY <1>1 DEF Read
  <1> QED BY <1>1, <1>2 DEF InsertStore, Inv, PendingOK, PendingListed

\* An insertion that was not overtaken stops at nothing.
LEMMA NoInsertFault ==
    ASSUME Inv, PendingListed, ~overtaken
    PROVE  ~InsertFault
  <1>1. pending # Nothing => ~Freed
    BY ReadSame DEF Inv, PendingOK
  <1> QED BY <1>1 DEF InsertFault

\* Every step keeps the pending insertion that of the listed device, and the
\* addresses leased.
LEMMA ListedStep ==
    ASSUME Inv, Leased, PendingListed, [Next]_vars
    PROVE  Leased' /\ PendingListed'
  <1>0. Nothing.step = "none"
    BY NothingFact
  <1>1. ASSUME NEW d \in Dev, Delete(d) PROVE Leased' /\ PendingListed'
    <2>1. /\ xdevlist'[d].ip = NoIp
          /\ \A e \in Dev \ {d} : xdevlist'[e] = xdevlist[e]
          /\ pending' = pending
          /\ ~overtaken' => ~overtaken /\ d # pending.dev
      BY <1>1, DeleteFact
    <2>2. pending.step # "none" => pending.dev \in Dev
      BY DEF Inv, PendingOK
    <2> QED BY <2>1, <2>2 DEF Leased, PendingListed
  <1>2. ASSUME NEW d \in Dev, NEW ip \in Leases[d] \cup {NoIp}, NEW mac \in Macs[d], Update(d, ip, mac)
        PROVE  Leased' /\ PendingListed'
    <2>1. /\ xdevlist'[d].ip = ip /\ xdevlist'[d].mac = mac
          /\ \A e \in Dev \ {d} : xdevlist'[e] = xdevlist[e]
          /\ pending'.step = "lookup" /\ pending'.dev = d /\ pending'.ip = ip /\ pending'.mac = mac
      BY <1>2, UpdateFact, ZenonT(60)
    <2>2. Leased'
      BY <2>1 DEF Leased
    <2>3. PendingListed'
      BY <2>1 DEF PendingListed
    <2> QED BY <2>2, <2>3
  <1>3. CASE InsertLookup
    <2>1. xdevlist' = xdevlist /\ overtaken' = overtaken
      BY <1>3 DEF InsertLookup
    <2>2. ~overtaken => \/ pending' = Nothing
                        \/ /\ pending'.dev = pending.dev /\ pending'.ip = pending.ip
                           /\ pending'.mac = pending.mac /\ pending.step # "none"
      BY <1>3, InsertLookupFact DEF InsertLookup
    <2> QED BY <1>0, <2>1, <2>2 DEF Leased, PendingListed
  <1>4. CASE InsertStore \/ InsertFault
    BY <1>0, <1>4 DEF InsertStore, InsertFault, Leased, PendingListed
  <1>5. CASE Restart
    BY <1>0, <1>5, RestartEmpty DEF Leased, PendingListed, Restart
  <1>6. CASE UNCHANGED vars
    BY <1>6 DEF vars, Leased, PendingListed
  <1> QED BY <1>1, <1>2, <1>3, <1>4, <1>5, <1>6 DEF Next

\* Every step keeps Held.
LEMMA HeldStep ==
    ASSUME Inv, Leased, PendingListed, Held, [Next]_vars
    PROVE  Held'
  <1> DEFINE Good(i) ==
               /\ dp_wlist'[i].ipaddr # NoIp
               /\ \/ \E e \in Dev : xdevlist'[e].ip = dp_wlist'[i].ipaddr
                  \/ \E e \in Dev : ~Removable(e) /\ dp_wlist'[i].ipaddr \in Leases[e]
  <1> SUFFICES ASSUME attached', ~overtaken', NEW i \in Index \ {DP_WLIST_ERROR},
                      dp_wlist'[i].ofb_index = 0
               PROVE  Good(i)
    BY DEF Held, Holder, Removable
  <1>0. ASSUME NEW d \in Dev, dp_wlist' = Off(d), attached, ~overtaken,
               \A e \in Dev \ {d} : xdevlist'[e] = xdevlist[e]
        PROVE  Good(i)
    BY <1>0, OffHeld
  <1>1. ASSUME NEW d \in Dev, Delete(d) PROVE Good(i)
    BY <1>0, <1>1, DeleteFact
  <1>2. ASSUME NEW d \in Dev, NEW ip \in Leases[d] \cup {NoIp}, NEW mac \in Macs[d], Update(d, ip, mac)
        PROVE  Good(i)
    <2>1. /\ dp_wlist' = Off(d) /\ attached /\ ~overtaken
          /\ \A e \in Dev \ {d} : xdevlist'[e] = xdevlist[e]
      BY <1>2, UpdateFact
    <2> QED BY <1>0, <2>1
  <1>3. CASE InsertLookup
    BY <1>3 DEF InsertLookup, Held, Holder
  <1>4. CASE InsertStore
    <2>0. ~overtaken
      BY <1>4 DEF InsertStore
    <2>1. /\ UNCHANGED <<xdevlist, attached, fault, overtaken>>
          /\ dp_wlist' = dpnode_insert(dp_wlist, pending.index, pending.ip, pending.mac, pending.stat)
          /\ pending.dev \in Dev /\ pending.ip \in Ip /\ pending.ip # NoIp /\ pending.mac \in Mac
          /\ pending.index \in {-1, dp_hashindex(pending.ip)}
          /\ xdevlist[pending.dev].ip = pending.ip
      BY <1>4, <2>0, InsertStoreFact
    <2>2. dp_wlist \in Table
      BY DEF Inv, TypeOK, Table
    <2>3. \/ dp_wlist'[i].ipaddr = pending.ip
          \/ /\ dp_wlist'[i].ipaddr = dp_wlist[i].ipaddr
             /\ dp_wlist'[i].ofb_index = dp_wlist[i].ofb_index
      BY <2>1, <2>2, InsertSlots
    <2>4. CASE dp_wlist'[i].ipaddr = pending.ip
      BY <2>1, <2>4
    <2>5. CASE /\ dp_wlist'[i].ipaddr = dp_wlist[i].ipaddr
               /\ dp_wlist'[i].ofb_index = dp_wlist[i].ofb_index
      BY <2>0, <2>1, <2>5 DEF Held, Holder
    <2> QED BY <2>3, <2>4, <2>5
  <1>5. CASE InsertFault
    BY <1>5 DEF InsertFault, Held, Holder
  <1>6. ASSUME Restart PROVE FALSE
    <2>1. dp_wlist'[i].ofb_index = -1
      BY <1>6, RestartEmpty DEF Restart
    <2> QED BY <2>1
  <1>7. CASE UNCHANGED vars
    BY <1>7 DEF vars, Held, Holder
  <1> QED BY <1>1, <1>2, <1>3, <1>4, <1>5, <1>6, <1>7 DEF Next

\* The lookup of an address that collides with none finds it or an empty slot.
LEMMA LookupAlone ==
    ASSUME NEW w \in Table, Placed(w), NEW ip \in Ip, NEW mac \in Mac, Alone(ip),
           NEW stat \in LookupStat(w, ip, mac), DP_COLLISION \notin StackStat
    PROVE  LET s == w[dp_hashindex(ip)]
               i == dpnode_lookup(w, ip)
           IN  \/ i = -1 /\ stat # DP_COLLISION
               \/ /\ i = dp_hashindex(ip)
                  /\ s.ofb_index = 0 /\ s.ipaddr = ip
                  /\ stat = DP_INVALID_MAC \/ s.macaddr = mac
  <1> DEFINE h == dp_hashindex(ip)
  <1>1. h \in Index /\ w[h] \in Slot
    BY IpNat, HashIndex DEF Table
  <1>2. ASSUME w[h].ofb_index = 0 PROVE w[h].ipaddr = ip
    <2>1. dp_hashindex(w[h].ipaddr) = h /\ w[h].ipaddr \in Ip
      BY <1>1, <1>2 DEF Placed
    <2> QED BY <2>1 DEF Alone
  <1>3. w[h].ofb_index \in {-1, 0}
    BY <1>1 DEF Slot
  <1>4. CASE w[h].ofb_index = -1
    BY <1>4 DEF LookupStat, dpnode_lookup
  <1>5. CASE w[h].ofb_index = 0
    <2>1. dpnode_lookup(w, ip) = h /\ (w[h].macaddr = mac \/ stat = DP_INVALID_MAC)
      BY <1>2, <1>5 DEF LookupStat, dpnode_lookup
    <2> QED BY <1>2, <1>5, <2>1
  <1> QED BY <1>3, <1>4, <1>5

\* Another device's slot is not touched by the insertion.
LEMMA InsertOwn ==
    ASSUME NEW w \in Table, NEW ip \in Ip, NEW mac \in Mac, NEW stat,
           NEW i \in {-1, dp_hashindex(ip)}, NEW b \in Ip \ {ip}, Alone(b)
    PROVE  dpnode_insert(w, i, ip, mac, stat)[dp_hashindex(b)] = w[dp_hashindex(b)]
  <1> DEFINE h == dp_hashindex(b)
  <1>1. h \in Index /\ h # dp_hashindex(ip)
    BY IpNat, HashIndex DEF Alone
  <1> HIDE DEF h
  <1>2. dpnode_insert(w, i, ip, mac, stat)[h] = w[h]
    BY <1>1, InsertSlots
  <1> QED BY <1>2 DEF h

\* Every step keeps the lookup of a pending insertion right.
LEMMA FreshStep ==
    ASSUME Inv, Leased, PendingListed, Fresh(dp_wlist), DP_COLLISION \notin StackStat, [Next]_vars
    PROVE  Fresh(dp_wlist)'
  <1> SUFFICES ASSUME Calm', pending'.step = "store", Alone(pending'.ip)
               PROVE  LET s == dp_wlist'[dp_hashindex(pending'.ip)]
                      IN  \/ pending'.index = -1 /\ pending'.stat # DP_COLLISION
                          \/ /\ pending'.index = dp_hashindex(pending'.ip)
                             /\ s.ofb_index = 0 /\ s.ipaddr = pending'.ip
                             /\ pending'.stat = DP_INVALID_MAC \/ s.macaddr = pending'.mac
    BY DEF Fresh, Alone
  <1> DEFINE Goal == LET s == dp_wlist'[dp_hashindex(pending'.ip)]
                     IN  \/ pending'.index = -1 /\ pending'.stat # DP_COLLISION
                         \/ /\ pending'.index = dp_hashindex(pending'.ip)
                            /\ s.ofb_index = 0 /\ s.ipaddr = pending'.ip
                            /\ pending'.stat = DP_INVALID_MAC \/ s.macaddr = pending'.mac
  <1>1. ASSUME NEW d \in Dev, Delete(d) PROVE Goal
    <2>1. /\ attached /\ ~fault /\ ~overtaken /\ dp_wlist' = Off(d) /\ pending' = pending
          /\ d # pending.dev
      BY <1>1, DeleteFact DEF Calm
    <2>2. /\ pending.dev \in Dev /\ pending.ip \in Ip /\ pending.ip # NoIp
          /\ xdevlist[pending.dev].ip = pending.ip
      BY <2>1 DEF Inv, PendingOK, PendingListed
    <2>3. pending.ip \in Leases[pending.dev]
      BY <2>2 DEF Leased
    <2>4. Off(d)[dp_hashindex(pending.ip)] = dp_wlist[dp_hashindex(pending.ip)]
      BY <2>1, <2>2, <2>3, OffSlot
    <2> QED BY <2>1, <2>4 DEF Fresh, Calm
  <1>2. ASSUME NEW d \in Dev, NEW ip \in Leases[d] \cup {NoIp}, NEW mac \in Macs[d], Update(d, ip, mac)
        PROVE  FALSE
    BY <1>2, UpdateFact
  <1>3. ASSUME InsertLookup PROVE Goal
    <2>1. ~overtaken /\ attached
      BY <1>3 DEF InsertLookup, Calm
    <2>2. PICK stat \in LookupStat(dp_wlist, pending.ip, pending.mac) :
               /\ pending.ip # NoIp /\ dp_wlist' = dp_wlist
               /\ pending' = [step |-> "store", dev |-> pending.dev, ip |-> pending.ip,
                              mac |-> pending.mac, index |-> dpnode_lookup(dp_wlist, pending.ip),
                              stat |-> stat]
      BY <1>3, <2>1, InsertLookupFact, NothingFact
    <2>3. /\ pending.ip \in Ip /\ pending.mac \in Mac /\ dp_wlist \in Table /\ Placed(dp_wlist)
      BY <1>3, <2>1, <2>2 DEF InsertLookup, Inv, TypeOK, PendingOK, Table
    <2>4. /\ pending'.ip = pending.ip /\ pending'.mac = pending.mac /\ pending'.stat = stat
          /\ pending'.index = dpnode_lookup(dp_wlist, pending.ip)
      BY <2>2
    <2> QED BY <2>2, <2>3, <2>4, LookupAlone
  <1>4. ASSUME InsertStore \/ InsertFault \/ Restart PROVE FALSE
    BY <1>4, NothingFact DEF InsertStore, InsertFault, Restart
  <1>5. ASSUME UNCHANGED vars PROVE Goal
    BY <1>5 DEF vars, Fresh, Calm
  <1> QED BY <1>1, <1>2, <1>3, <1>4, <1>5 DEF Next

\* Every step keeps Allowed, unless the uninitialised status stands for a
\* collision.
LEMMA AllowedStep ==
    ASSUME Inv, Leased, PendingListed, Fresh(dp_wlist), Allowed, DP_COLLISION \notin StackStat,
           [Next]_vars
    PROVE  Allowed'
  <1> SUFFICES ASSUME Calm', NEW e \in Dev \ {pending'.dev}, xdevlist'[e].ip # NoIp,
                      Alone(xdevlist'[e].ip)
               PROVE  LET s == dp_wlist'[dp_hashindex(xdevlist'[e].ip)]
                      IN  s.ofb_index = 0 /\ s.ipaddr = xdevlist'[e].ip /\ s.macaddr = xdevlist'[e].mac
    BY DEF Allowed, Own, Alone
  <1> DEFINE b == xdevlist'[e].ip
             s == dp_wlist'[dp_hashindex(b)]
             Good == s.ofb_index = 0 /\ s.ipaddr = b /\ s.macaddr = xdevlist'[e].mac
  <1>0. ASSUME NEW d \in Dev, e # d, xdevlist'[e] = xdevlist[e], Calm, e # pending.dev,
               dp_wlist' = Off(d)
        PROVE  Good
    <2>1. Own(dp_wlist, e) /\ b \in Leases[e]
      BY <1>0 DEF Allowed, Leased
    <2>2. Off(d)[dp_hashindex(b)] = dp_wlist[dp_hashindex(b)]
      BY <1>0, <2>1, OffSlot
    <2> QED BY <1>0, <2>1, <2>2 DEF Own
  <1>1. ASSUME NEW d \in Dev, Delete(d) PROVE Good
    <2>1. /\ Calm /\ dp_wlist' = Off(d) /\ xdevlist'[d].ip = NoIp /\ pending' = pending
          /\ \A c \in Dev \ {d} : xdevlist'[c] = xdevlist[c]
      BY <1>1, DeleteFact DEF Calm
    <2>2. e # d
      <3>1. xdevlist'[e].ip # NoIp
        OBVIOUS
      <3> QED BY <2>1, <3>1
    <2> QED BY <1>0, <2>1, <2>2
  <1>2. ASSUME NEW d \in Dev, NEW ip \in Leases[d] \cup {NoIp}, NEW mac \in Macs[d], Update(d, ip, mac)
        PROVE  Good
    <2>1. /\ Calm /\ dp_wlist' = Off(d) /\ pending.dev = NoDev /\ pending'.dev = d
          /\ \A c \in Dev \ {d} : xdevlist'[c] = xdevlist[c]
      BY <1>2, UpdateFact DEF Calm
    <2>2. e # pending.dev /\ e # d
      BY <2>1, DpAssumption
    <2> QED BY <1>0, <2>1, <2>2
  <1>3. ASSUME InsertLookup PROVE Good
    <2>1. Calm /\ dp_wlist' = dp_wlist /\ xdevlist' = xdevlist
      BY <1>3 DEF InsertLookup, Calm
    <2>2. ~overtaken /\ attached /\ pending.step = "lookup"
      BY <1>3, <2>1 DEF Calm, InsertLookup
    <2>3. \/ pending' = Nothing /\ pending.ip = NoIp
          \/ pending'.dev = pending.dev
      BY <1>3, <2>2, InsertLookupFact
    <2>4. e # pending.dev
      <3>1. pending.ip = NoIp => xdevlist[pending.dev].ip = NoIp
        BY <2>2 DEF PendingListed
      <3> QED BY <2>1, <2>3, <3>1
    <2> QED BY <2>1, <2>4 DEF Allowed, Own
  <1>4. ASSUME InsertStore PROVE Good
    <2>0. Calm
      BY <1>4 DEF InsertStore, Calm
    <2>1. /\ xdevlist' = xdevlist
          /\ dp_wlist' = dpnode_insert(dp_wlist, pending.index, pending.ip, pending.mac, pending.stat)
          /\ pending.dev \in Dev /\ pending.ip \in Ip /\ pending.ip # NoIp /\ pending.mac \in Mac
          /\ pending.index \in {-1, dp_hashindex(pending.ip)}
          /\ xdevlist[pending.dev].ip = pending.ip /\ xdevlist[pending.dev].mac = pending.mac
      BY <1>4, <2>0, InsertStoreFact DEF Calm
    <2>2. dp_wlist \in Table
      BY DEF Inv, TypeOK, Table
    <2>3. CASE e = pending.dev
      <3>1. b = pending.ip /\ xdevlist'[e].mac = pending.mac /\ pending.step = "store"
        BY <1>4, <2>1, <2>3 DEF InsertStore
      <3> DEFINE h == dp_hashindex(pending.ip)
      <3>2. \/ pending.index = -1 /\ pending.stat # DP_COLLISION
            \/ /\ pending.index = h
               /\ dp_wlist[h].ofb_index = 0 /\ dp_wlist[h].ipaddr = pending.ip
               /\ pending.stat = DP_INVALID_MAC \/ dp_wlist[h].macaddr = pending.mac
        BY <2>0, <3>1 DEF Fresh
      <3>3. LET r == dp_wlist'[h]
            IN  /\ pending.index = -1 /\ pending.stat # DP_COLLISION =>
                     r.ofb_index = 0 /\ r.ipaddr = pending.ip /\ r.macaddr = pending.mac
                /\ pending.index = h /\ pending.stat = DP_INVALID_MAC =>
                     /\ r.ofb_index = dp_wlist[h].ofb_index /\ r.ipaddr = dp_wlist[h].ipaddr
                     /\ r.macaddr = pending.mac
                /\ pending.index = h /\ pending.stat # DP_INVALID_MAC => r = dp_wlist[h]
        BY <2>1, <2>2, InsertSlots
      <3>4. s = dp_wlist'[h]
        BY <3>1
      <3> HIDE DEF h, s, b
      <3>5. s.ofb_index = 0 /\ s.ipaddr = pending.ip /\ s.macaddr = pending.mac
        BY <3>2, <3>3, <3>4
      <3> QED BY <3>1, <3>5
    <2>4. CASE e # pending.dev
      <3>1. Own(dp_wlist, e) /\ b \in Leases[e] /\ b \in Ip
        BY <2>0, <2>1, <2>4 DEF Allowed, Leased, Ip
      <3>2. b # pending.ip
        BY <2>1, <2>4, <3>1 DEF Alone, Leased
      <3>3. s = dp_wlist[dp_hashindex(b)]
        BY <2>1, <2>2, <3>1, <3>2, InsertOwn
      <3> QED BY <2>1, <3>1, <3>3 DEF Own
    <2> QED BY <2>3, <2>4
  <1>5. ASSUME InsertFault PROVE FALSE
    BY <1>5 DEF InsertFault, Calm
  <1>6. ASSUME Restart PROVE FALSE
    BY <1>6, RestartEmpty DEF Restart
  <1>7. ASSUME UNCHANGED vars PROVE Good
    BY <1>7 DEF vars, Allowed, Own, Calm
  <1> QED BY <1>1, <1>2, <1>3, <1>4, <1>5, <1>6, <1>7 DEF Next

\* Outside slot 3 the white list allows only addresses of listed devices and of
\* those that delete_gwyitem never takes off (an XG that answers FALSE to
\* IsGateway, an XI3 that answers TRUE, an XG without CLIENT_XCAL_SERVER), unless
\* a flush overtook an insertion: for any table size, collisions, faults and
\* restarts.
THEOREM OnlyListed == Spec => []OnlyListedAllowed
  <1> DEFINE All == Inv /\ Leased /\ PendingListed /\ Held
  <1>1. Init => All
    <2> SUFFICES ASSUME Init PROVE All
      OBVIOUS
    <2>1. /\ attached => \A i \in Index : dp_wlist[i].ofb_index = -1
          /\ \A d \in Dev : xdevlist[d].ip = NoIp
      BY InitEmpty
    <2>2. Leased /\ Held
      BY <2>1 DEF Leased, Held
    <2>3. PendingListed
      BY NothingFact DEF PendingListed, Init
    <2> QED BY InitInv, <2>2, <2>3
  <1>2. All /\ [Next]_vars => All'
    BY StepInv, ListedStep, HeldStep
  <1>3. All => OnlyListedAllowed
    <2> SUFFICES ASSUME All, ~overtaken, NEW i \in Used \ {DP_WLIST_ERROR}
                 PROVE  \/ \E d \in Listed : xdevlist[d].ip = dp_wlist[i].ipaddr
                        \/ \E d \in Dev : ~Removable(d) /\ dp_wlist[i].ipaddr \in Leases[d]
      BY DEF OnlyListedAllowed
    <2>1. dp_wlist[i].ipaddr # NoIp /\ Holder(dp_wlist[i].ipaddr)
      BY DEF Held, Used
    <2>2. \A d \in Dev : xdevlist[d].ip = dp_wlist[i].ipaddr => d \in Listed
      BY <2>1, AbsentFact DEF Inv
    <2> QED BY <2>1, <2>2 DEF Holder
  <1> HIDE DEF All
  <1> QED BY <1>1, <1>2, <1>3, PTL DEF Spec

\* Unless the uninitialised status of dpnode_insert happens to be DP_COLLISION,
\* every listed device whose address collides with none is allowed with its MAC
\* once its insertion is over, whatever other devices do, as long as no flush
\* overtakes an insertion: for any table size and leases.
THEOREM EveryListed ==
    ASSUME DP_COLLISION \notin StackStat
    PROVE  Spec => []ListedAllowed
  <1> DEFINE All == Inv /\ Leased /\ PendingListed /\ Fresh(dp_wlist) /\ Allowed
  <1>1. Init => All
    <2> SUFFICES ASSUME Init PROVE All
      OBVIOUS
    <2>1. \A d \in Dev : xdevlist[d].ip = NoIp
      BY InitEmpty
    <2>2. Leased /\ Allowed
      BY <2>1 DEF Leased, Allowed
    <2>3. PendingListed /\ Fresh(dp_wlist)
      BY NothingFact DEF PendingListed, Fresh, Init
    <2> QED BY InitInv, <2>2, <2>3
  <1>2. All /\ [Next]_vars => All'
    BY StepInv, ListedStep, FreshStep, AllowedStep
  <1>3. All => ListedAllowed
    <2> SUFFICES ASSUME All, NEW d \in Listed \ {pending.dev}, attached, ~fault, ~overtaken,
                        xdevlist[d].ip # NoIp, Alone(xdevlist[d].ip)
                 PROVE  LET i == dpnode_lookup(dp_wlist, xdevlist[d].ip)
                        IN  i # -1 /\ dp_wlist[i].macaddr = xdevlist[d].mac
      BY DEF ListedAllowed
    <2> DEFINE h == dp_hashindex(xdevlist[d].ip)
    <2>1. Own(dp_wlist, d) /\ xdevlist[d].ip \in Ip
      BY DEF Allowed, Listed, Inv, TypeOK, Calm
    <2>2. h \in Index /\ h # -1
      <3>1. h \in Index
        BY <2>1, IpNat, HashIndex
      <3> HIDE DEF h
      <3> QED BY <3>1, DpAssumption DEF Index
    <2>3. dpnode_lookup(dp_wlist, xdevlist[d].ip) = h
      BY <2>1 DEF Own, dpnode_lookup
    <2> QED BY <2>1, <2>2, <2>3 DEF Own
  <1> HIDE DEF All
  <1> QED BY <1>1, <1>2, <1>3, PTL DEF Spec
=============================================================================
