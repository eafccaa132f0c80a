-------------------------- MODULE XcalBroadbandProofs --------------------------
(***************************************************************************)
(* The start of xcal-device, and xcal-device on a broadband gateway, for   *)
(* any number of rounds, clients, crashes and changes: it is XcalStartup   *)
(* with more around it, it gives out an address of its own, and the white  *)
(* list follows the account id.                                            *)
(***************************************************************************)
EXTENDS XcalBroadband, TLAPS

-----------------------------------------------------------------------------
(* The start of main, XcalStartup: the UPC of the basic description agrees   *)
(* with what is announced, for any number of crashes and with descriptions   *)
(* torn at any time.                                                         *)

TypeOK ==
    /\ pc \in {"down", "open", "dump", "announce", "certs", "secure", "serve", "cvp", "up"}
    /\ rfc_enabled \in BOOLEAN
    /\ context \in BOOLEAN
    /\ doc \in [Doc -> {"", "10000", "torn"}]
    /\ file \in Doc
    /\ announced \in SUBSET Doc

\* Before the process is up: the basic description is marked from the moment the
\* certificates are looked for until the protected device is announced.
Marked ==
    /\ pc = "down" => announced = {}
    /\ pc = "announce" => doc["basic"] = UPC
    /\ pc \in {"certs", "secure"} => rfc_enabled /\ doc["basic"] = "10000"
    /\ pc \in {"open", "dump"} /\ file = "protected" => rfc_enabled /\ doc["basic"] = "10000"
    /\ pc \in {"open", "dump"} /\ file = "basic" /\ announced # {} => ~rfc_enabled

\* The last steps, from the callbacks on.
Late == pc \in {"serve", "cvp", "up"} \/ (pc \in {"open", "dump"} /\ file = "cvp")

\* Only a process that has come to its last steps has a protected device.
LateProtected ==
    "protected" \in announced => Late /\ doc["basic"] = "10000"

Inv == TypeOK /\ Marked /\ LateProtected

\* The initial states satisfy the inductive invariant: nothing is announced.
LEMMA InitInv == Init => Inv
BY DEF Init, Inv, TypeOK, Marked, LateProtected, Late, Doc

\* Every step preserves the inductive invariant.
LEMMA NextInv == Inv /\ [Next]_vars => Inv'
<1> SUFFICES ASSUME Inv, [Next]_vars PROVE Inv'
  OBVIOUS
<1> USE DEF Inv, TypeOK, Marked, LateProtected, Late, Doc, UPC
<1>1. CASE Start
  BY <1>1 DEF Start
<1>2. CASE Open
  BY <1>2 DEF Open, Down
<1>3. CASE Dump
  BY <1>3 DEF Dump
<1>4. CASE Announce
  BY <1>4 DEF Announce
<1>5. CASE Certificates
  BY <1>5 DEF Certificates
<1>6. CASE Secure
  BY <1>6 DEF Secure
<1>7. CASE Serve
  BY <1>7 DEF Serve
<1>8. CASE Cvp
  BY <1>8 DEF Cvp
<1>9. CASE Crash
  BY <1>9 DEF Crash, Down
<1>10. CASE UNCHANGED vars
  BY <1>10 DEF vars
<1> QED
  BY <1>1, <1>2, <1>3, <1>4, <1>5, <1>6, <1>7, <1>8, <1>9, <1>10 DEF Next, Process

\* A protected device is announced only while the basic description in the file
\* is marked with the UPC: no refactored xdiscovery lists the device twice.
THEOREM ProtectedMarked == Spec => []ProtectedIsMarked
<1>1. Inv => ProtectedIsMarked
  BY DEF Inv, LateProtected, ProtectedIsMarked
<1> QED
  BY <1>1, InitInv, NextInv, PTL DEF Spec

\* Where the protected context can be created, a process in its last steps has
\* announced the protected device, or the description is not marked.
Settled ==
    Late /\ context => "protected" \in announced \/ doc["basic"] # "10000"

\* Every step preserves Settled.
LEMMA NextSettled == Inv /\ Settled /\ [Next]_vars => Settled'
<1> SUFFICES ASSUME Inv, Settled, [Next]_vars PROVE Settled'
  OBVIOUS
<1> USE DEF Inv, TypeOK, Marked, LateProtected, Late, Doc, UPC, Settled
<1>1. CASE Start
  BY <1>1 DEF Start
<1>2. CASE Open
  BY <1>2 DEF Open, Down
<1>3. CASE Dump
  BY <1>3 DEF Dump
<1>4. CASE Announce
  BY <1>4 DEF Announce
<1>5. CASE Certificates
  BY <1>5 DEF Certificates
<1>6. CASE Secure
  BY <1>6 DEF Secure
<1>7. CASE Serve
  BY <1>7 DEF Serve
<1>8. CASE Cvp
  BY <1>8 DEF Cvp
<1>9. CASE Crash
  BY <1>9 DEF Crash, Down
<1>10. CASE UNCHANGED vars
  BY <1>10 DEF vars
<1> QED
  BY <1>1, <1>2, <1>3, <1>4, <1>5, <1>6, <1>7, <1>8, <1>9, <1>10 DEF Next, Process

\* Unless the protected context fails, a device that is up is one a refactored
\* xdiscovery lists: the fallback without certificates takes the mark back.
THEOREM AlwaysReachable == Spec => []Reachable
<1>1. Init => Settled
  BY DEF Init, Settled, Late
<1>2. Settled => Reachable
  BY DEF Settled, Reachable, Late
<1> QED
  BY <1>1, <1>2, InitInv, NextInv, NextSettled, PTL DEF Spec

-----------------------------------------------------------------------------
(* The broadband gateway.                                                    *)

\* There is a first round.
LEMMA RoundsPositive == Rounds \in Nat /\ 0 < Rounds
<1>1. Rounds \in Nat \ {0}
  BY BroadbandAssumption
<1> QED
  BY <1>1

\* A step of the gateway is a step of XcalStartup, or changes nothing of it but
\* the count of crashes.
LEMMA StepInv == Inv /\ [BNext]_bvars => Inv'
<1> SUFFICES ASSUME Inv, [BNext]_bvars PROVE Inv'
  OBVIOUS
<1>1. CASE CrashInit
  BY <1>1 DEF CrashInit, Inv, TypeOK, Marked, LateProtected, Late, UPC
<1>2. CASE StartMain \/ MainStep \/ ReadAccount \/ CrashMain
  <2>1. Next
    BY <1>2 DEF StartMain, MainStep, ReadAccount, CrashMain, Main, Next, Process
  <2> QED
    BY <2>1, NextInv
<1>3. CASE UNCHANGED vars
  BY <1>3, NextInv
<1> QED
  BY <1>1, <1>2, <1>3
  DEF BNext, BProcess, Begin, LookupV6, LookupV4, NetChange, Provision, GetAccountId, bvars

\* The protected device of a broadband gateway, too, is announced only while the
\* basic description is marked.
THEOREM BroadbandMarked == BSpec => []ProtectedIsMarked
<1>1. BInit => Inv
  BY InitInv DEF BInit
<1>2. Inv => ProtectedIsMarked
  BY DEF Inv, LateProtected, ProtectedIsMarked
<1> QED
  BY <1>1, <1>2, StepInv, PTL DEF BSpec

-----------------------------------------------------------------------------
\* main runs after xdeviceInit has come to its end.
InitDone == pc # "down" => init = "ready"

\* Before the first IPv4 lookup result is what the stack held; afterwards a
\* lookup that found an address has ended xdeviceInit.
Honest ==
    /\ init = "v6" /\ result = 1 => junk = 1
    /\ init \in {"v6", "v4"} /\ assigned = 1 => "v6" \in seen \/ junk = 1
    /\ init = "v4" /\ result = 1 => junk = 1

\* xdeviceInit ends with an address.
Found == init = "ready" => gwyip = "v4" \/ "v6" \in seen \/ junk = 1

NetTyped == net \in SUBSET {"v4", "v6", "file"}

AddrInv == AddrTyped /\ AccountTyped /\ NetTyped /\ InitDone /\ Honest /\ Found

\* What a step of main leaves alone, and what it does to init.
LEMMA MainStays ==
    ASSUME AddrInv, StartMain \/ MainStep \/ ReadAccount \/ CrashMain
    PROVE  /\ UNCHANGED <<world, addr, moca, asked>>
           /\ init = "ready"
           /\ init' = IF pc' = "down" THEN "off" ELSE "ready"
<1>1. \/ init = "ready" /\ Main(Start)
      \/ Main(Open \/ Dump \/ Announce \/ Secure \/ Serve \/ Cvp)
      \/ Main(Certificates)
      \/ Main(Crash)
  BY DEF StartMain, MainStep, ReadAccount, CrashMain
<1>2. /\ UNCHANGED <<world, addr, moca, asked>>
      /\ init' = IF pc' = "down" THEN "off" ELSE init
      /\ (init = "ready" /\ Start) \/ Open \/ Dump \/ Announce \/ Secure \/ Serve \/ Cvp \/ Certificates \/ Crash
  BY <1>1 DEF Main
<1>3. init = "ready"
  BY <1>2 DEF AddrInv, InitDone, Open, Dump, Announce, Secure, Serve, Cvp, Certificates, Crash
<1> QED
  BY <1>2, <1>3

\* What getipaddress returns and leaves in the buffer.
LEMMA Lookup ==
    ASSUME NEW a \in {"v4", "v6"}, NEW b, NEW r \in getipaddress(a, b)
    PROVE  \/ r.found = 1 /\ r.text = a /\ a \in net
           \/ r.found = 0 /\ (r.text = b \/ r.text = "other")
BY DEF getipaddress

\* An IPv6 lookup keeps the invariant.
LEMMA LookupV6Addr == ASSUME AddrInv, LookupV6 PROVE AddrInv'
<1>1. PICK r \in IF "file" \in net THEN getipaddress("v6", ipAddressBuffer)
                                   ELSE {[found |-> result, text |-> ipAddressBuffer]} :
        assigned' = (IF r.found = 1 THEN 1 ELSE assigned) /\ gwyipv6' = r.text
  BY DEF LookupV6
<1>2. /\ r.text \in {"", "v4", "v6", "other"}
      /\ r.found = 1 => {"file", "v6"} \subseteq net \/ result = 1
  <2>1. ipAddressBuffer \in {"", "v4", "v6", "other"}
    BY DEF AddrInv, AddrTyped
  <2>2. CASE "file" \in net
    <3>1. r \in getipaddress("v6", ipAddressBuffer)
      BY <1>1, <2>2
    <3>2. \/ r.found = 1 /\ r.text = "v6" /\ "v6" \in net
          \/ r.found = 0 /\ (r.text = ipAddressBuffer \/ r.text = "other")
      BY <3>1, Lookup
    <3>3. r.text \in {"", "v4", "v6", "other"}
      BY <3>2, <2>1, Zenon
    <3>4. r.found = 1 => {"file", "v6"} \subseteq net
      BY <3>2, <2>2
    <3> QED
      BY <3>3, <3>4
  <2>3. CASE "file" \notin net
    <3>1. r = [found |-> result, text |-> ipAddressBuffer]
      BY <1>1, <2>3
    <3> QED
      BY <3>1, <2>1
  <2> QED
    BY <2>2, <2>3
<1>3. /\ init = "v6" /\ init' = "v4"
      /\ seen' = IF {"file", "v6"} \subseteq net THEN seen \cup {"v6"} ELSE seen
      /\ ipAddressBuffer' = ""
      /\ UNCHANGED <<pc, net, account, round, result, gwyip, junk, accountId, moca, asked>>
  BY DEF LookupV6, vars, world
<1>4. AddrTyped'
  BY <1>1, <1>2, <1>3 DEF AddrInv, AddrTyped
<1>4n. NetTyped'
  BY <1>1, <1>2, <1>3 DEF AddrInv, NetTyped
<1>4m. AccountTyped'
  BY <1>1, <1>2, <1>3 DEF AddrInv, AccountTyped
<1>5. InitDone'
  BY <1>1, <1>2, <1>3 DEF AddrInv, InitDone
<1>6. Honest'
  BY <1>1, <1>2, <1>3 DEF AddrInv, Honest
<1>7. Found'
  BY <1>1, <1>2, <1>3 DEF AddrInv, Found, Honest
<1> QED
  BY <1>4, <1>4n, <1>4m, <1>5, <1>6, <1>7 DEF AddrInv

\* An IPv4 lookup keeps the invariant.
LEMMA LookupV4Addr == ASSUME AddrInv, LookupV4 PROVE AddrInv'
<1>1. PICK r \in getipaddress("v4", ipAddressBuffer) :
        /\ result' = r.found
        /\ ipAddressBuffer' = r.text
        /\ assigned' = IF r.found = 1 THEN 1 ELSE assigned
        /\ seen' = IF r.found = 1 THEN seen \cup {"v4"} ELSE seen
        /\ IF r.found = 1 \/ LastRound
           THEN init' = GiveUp(assigned') /\ gwyip' = r.text /\ UNCHANGED round
           ELSE init' = "v6" /\ round' = round + 1 /\ UNCHANGED gwyip
  BY DEF LookupV4
<1>2. /\ r.found \in {0, 1}
      /\ r.text \in {"", "v4", "v6", "other"}
      /\ r.found = 1 => r.text = "v4"
  <2>1. ipAddressBuffer \in {"", "v4", "v6", "other"}
    BY DEF AddrInv, AddrTyped
  <2>2. r \in getipaddress("v4", ipAddressBuffer)
    BY <1>1
  <2>3. \/ r.found = 1 /\ r.text = "v4"
        \/ r.found = 0 /\ (r.text = ipAddressBuffer \/ r.text = "other")
    BY <2>2, Lookup
  <2>4. r.text \in {"", "v4", "v6", "other"}
    BY <2>1, <2>3, Zenon
  <2>5. r.found \in {0, 1} /\ (r.found = 1 => r.text = "v4")
    BY <2>3
  <2> QED
    BY <2>4, <2>5
<1>3. /\ init = "v4"
      /\ UNCHANGED <<pc, net, account, gwyipv6, junk, accountId, moca, asked>>
  BY DEF LookupV4, vars, world
<1>4. round' \in Nat /\ round' < Rounds
  <2>1. round \in Nat /\ round < Rounds
    BY DEF AddrInv, AddrTyped
  <2>2. round' = round \/ (~LastRound /\ round' = round + 1)
    BY <1>1
  <2> QED
    BY <2>1, <2>2, RoundsPositive DEF LastRound
<1>5. AddrTyped'
  BY <1>1, <1>2, <1>3, <1>4 DEF AddrInv, AddrTyped, GiveUp
<1>5n. NetTyped'
  BY <1>1, <1>2, <1>3, <1>4 DEF AddrInv, NetTyped, GiveUp
<1>5m. AccountTyped'
  BY <1>1, <1>2, <1>3, <1>4 DEF AddrInv, AccountTyped, GiveUp
<1>6. InitDone'
  BY <1>3 DEF AddrInv, InitDone
<1>7. Honest'
  BY <1>1, <1>2, <1>3 DEF AddrInv, Honest, GiveUp
<1>8. Found'
  BY <1>1, <1>2, <1>3 DEF AddrInv, Found, Honest, GiveUp
<1> QED
  BY <1>5, <1>5n, <1>5m, <1>6, <1>7, <1>8 DEF AddrInv

\* Every step keeps the invariant.
LEMMA NextAddr == AddrInv /\ [BNext]_bvars => AddrInv'
<1> SUFFICES ASSUME AddrInv, [BNext]_bvars PROVE AddrInv'
  OBVIOUS
<1>1. CASE Begin
  <2>1. AddrTyped'
    BY <1>1, RoundsPositive DEF AddrInv, AddrTyped, Begin, vars, world
  <2>1n. NetTyped'
    BY <1>1, RoundsPositive DEF AddrInv, NetTyped, Begin, vars, world
  <2>1m. AccountTyped'
    BY <1>1, RoundsPositive DEF AddrInv, AccountTyped, Begin, vars, world
  <2>2. InitDone'
    BY <1>1, RoundsPositive DEF AddrInv, InitDone, Begin, vars, world
  <2>3. Honest'
    BY <1>1, RoundsPositive DEF AddrInv, Honest, Begin, vars, world
  <2>4. Found'
    BY <1>1, RoundsPositive DEF AddrInv, Found, Honest, Begin, vars, world
  <2> QED
    BY <2>1, <2>1n, <2>1m, <2>2, <2>3, <2>4 DEF AddrInv
<1>2. CASE LookupV6
  BY <1>2, LookupV6Addr
<1>3. CASE LookupV4
  BY <1>3, LookupV4Addr
<1>4. CASE StartMain \/ MainStep \/ ReadAccount \/ CrashMain
  <2>a. /\ UNCHANGED <<world, addr, moca, asked>>
        /\ init' = IF pc' = "down" THEN "off" ELSE "ready"
        /\ init = "ready"
    BY <1>4, MainStays
  <2>b. accountId' \in Account \cup {Empty}
    BY <1>4 DEF StartMain, MainStep, ReadAccount, CrashMain, AddrInv, AccountTyped
  <2>1. AddrTyped'
    BY <2>a, <2>b DEF AddrInv, AddrTyped, world, addr
  <2>1n. NetTyped'
    BY <2>a, <2>b DEF AddrInv, NetTyped, world, addr
  <2>1m. AccountTyped'
    BY <2>a, <2>b DEF AddrInv, AccountTyped, world, addr
  <2>2. InitDone'
    BY <2>a, <2>b DEF AddrInv, InitDone, world, addr
  <2>3. Honest'
    BY <2>a, <2>b DEF AddrInv, Honest, world, addr
  <2>4. Found'
    BY <2>a, <2>b DEF AddrInv, Found, Honest, world, addr
  <2> QED
    BY <2>1, <2>1n, <2>1m, <2>2, <2>3, <2>4 DEF AddrInv
<1>5. CASE NetChange
  <2>1. AddrTyped'
    BY <1>5 DEF AddrInv, AddrTyped, NetChange, vars, addr
  <2>1n. NetTyped'
    BY <1>5 DEF AddrInv, NetTyped, NetChange, vars, addr
  <2>1m. AccountTyped'
    BY <1>5 DEF AddrInv, AccountTyped, NetChange, vars, addr
  <2>2. InitDone'
    BY <1>5 DEF AddrInv, InitDone, NetChange, vars, addr
  <2>3. Honest'
    BY <1>5 DEF AddrInv, Honest, NetChange, vars, addr
  <2>4. Found'
    BY <1>5 DEF AddrInv, Found, Honest, NetChange, vars, addr
  <2> QED
    BY <2>1, <2>1n, <2>1m, <2>2, <2>3, <2>4 DEF AddrInv
<1>6. CASE Provision
  <2>1. AddrTyped'
    BY <1>6 DEF AddrInv, AddrTyped, Provision, vars, addr
  <2>1n. NetTyped'
    BY <1>6 DEF AddrInv, NetTyped, Provision, vars, addr
  <2>1m. AccountTyped'
    BY <1>6 DEF AddrInv, AccountTyped, Provision, vars, addr
  <2>2. InitDone'
    BY <1>6 DEF AddrInv, InitDone, Provision, vars, addr
  <2>3. Honest'
    BY <1>6 DEF AddrInv, Honest, Provision, vars, addr
  <2>4. Found'
    BY <1>6 DEF AddrInv, Found, Honest, Provision, vars, addr
  <2> QED
    BY <2>1, <2>1n, <2>1m, <2>2, <2>3, <2>4 DEF AddrInv
<1>7. CASE CrashInit
  <2>1. AddrTyped'
    BY <1>7 DEF AddrInv, AddrTyped, CrashInit, world, addr
  <2>1n. NetTyped'
    BY <1>7 DEF AddrInv, NetTyped, CrashInit, world, addr
  <2>1m. AccountTyped'
    BY <1>7 DEF AddrInv, AccountTyped, CrashInit, world, addr
  <2>2. InitDone'
    BY <1>7 DEF AddrInv, InitDone, CrashInit, world, addr
  <2>3. Honest'
    BY <1>7 DEF AddrInv, Honest, CrashInit, world, addr
  <2>4. Found'
    BY <1>7 DEF AddrInv, Found, Honest, CrashInit, world, addr
  <2> QED
    BY <2>1, <2>1n, <2>1m, <2>2, <2>3, <2>4 DEF AddrInv
<1>8. ASSUME NEW c \in Client, GetAccountId(c) PROVE AddrInv'
  <2>1. AddrTyped'
    BY <1>8 DEF AddrInv, AddrTyped, GetAccountId, Listed, vars, world, addr
  <2>1n. NetTyped'
    BY <1>8 DEF AddrInv, NetTyped, GetAccountId, Listed, vars, world, addr
  <2>1m. AccountTyped'
    BY <1>8 DEF AddrInv, AccountTyped, GetAccountId, Listed, vars, world, addr
  <2>2. InitDone'
    BY <1>8 DEF AddrInv, InitDone, GetAccountId, Listed, vars, world, addr
  <2>3. Honest'
    BY <1>8 DEF AddrInv, Honest, GetAccountId, Listed, vars, world, addr
  <2>4. Found'
    BY <1>8 DEF AddrInv, Found, Honest, GetAccountId, Listed, vars, world, addr
  <2> QED
    BY <2>1, <2>1n, <2>1m, <2>2, <2>3, <2>4 DEF AddrInv
<1>9. CASE UNCHANGED bvars
  <2>1. AddrTyped'
    BY <1>9 DEF AddrInv, AddrTyped, bvars, vars, world, addr
  <2>1n. NetTyped'
    BY <1>9 DEF AddrInv, NetTyped, bvars, vars, world, addr
  <2>1m. AccountTyped'
    BY <1>9 DEF AddrInv, AccountTyped, bvars, vars, world, addr
  <2>2. InitDone'
    BY <1>9 DEF AddrInv, InitDone, bvars, vars, world, addr
  <2>3. Honest'
    BY <1>9 DEF AddrInv, Honest, bvars, vars, world, addr
  <2>4. Found'
    BY <1>9 DEF AddrInv, Found, Honest, bvars, vars, world, addr
  <2> QED
    BY <2>1, <2>1n, <2>1m, <2>2, <2>3, <2>4 DEF AddrInv
<1> QED
  BY <1>1, <1>2, <1>3, <1>4, <1>5, <1>6, <1>7, <1>8, <1>9 DEF BNext, BProcess

\* The initial states satisfy the invariant.
LEMMA InitAddr == BInit => AddrInv
<1> SUFFICES ASSUME BInit PROVE AddrInv
  OBVIOUS
<1>1. AddrTyped
  BY RoundsPositive DEF BInit, AddrTyped
<1>3. AccountTyped /\ NetTyped
  BY DEF BInit, AccountTyped, NetTyped
<1>2. InitDone /\ Honest /\ Found
  BY DEF BInit, Init, InitDone, Honest, Found
<1> QED
  BY <1>1, <1>2, <1>3 DEF AddrInv

\* Type correctness of xdeviceInit and of the account exchange.
THEOREM BroadbandTyped == BSpec => []BTypeOK
<1>1. AddrInv => BTypeOK
  BY DEF AddrInv, NetTyped, BTypeOK
<1> QED
  BY <1>1, InitAddr, NextAddr, PTL DEF BSpec

\* However many rounds there are and whatever the interface does meanwhile, a
\* gateway is announced with an IPv4 address of its own or after an IPv6 one was
\* found, unless the uninitialised result stood for an address.
THEOREM AnnouncedAddress == BSpec => []OwnAddress
<1>1. Inv /\ AddrInv => OwnAddress
  BY DEF Inv, Marked, AddrInv, InitDone, Found, OwnAddress
<1>2. BInit => Inv
  BY InitInv DEF BInit
<1> QED
  BY <1>1, <1>2, StepInv, InitAddr, NextAddr, PTL DEF BSpec

-----------------------------------------------------------------------------
\* Clients have asked only a process that is up, or the one that has just ended.
MocaInv ==
    /\ asked # {} => pc = "up" \/ (pc = "down" /\ init = "off")
    /\ \A c \in asked : c \in moca <=> AccountOf[c] = accountId

\* Every step keeps the white list in line with the account id.
LEMMA NextMoca == AddrInv /\ MocaInv /\ [BNext]_bvars => MocaInv'
<1> SUFFICES ASSUME AddrInv, MocaInv, [BNext]_bvars PROVE MocaInv'
  OBVIOUS
<1> USE DEF MocaInv
<1>1. CASE Begin
  BY <1>1 DEF Begin
<1>2. CASE LookupV6 \/ LookupV4
  <2>1. asked = {}
    BY <1>2 DEF LookupV6, LookupV4, AddrInv, InitDone
  <2> QED
    BY <1>2, <2>1 DEF LookupV6, LookupV4
<1>3. CASE StartMain
  <2>1. asked = {}
    BY <1>3 DEF StartMain, Main, Start
  <2> QED
    BY <1>3, <2>1 DEF StartMain, Main
<1>4. CASE MainStep
  <2>1. asked = {}
    BY <1>4 DEF MainStep, Main, Open, Dump, Announce, Secure, Serve, Cvp
  <2> QED
    BY <1>4, <2>1 DEF MainStep, Main
<1>5. CASE ReadAccount
  <2>1. asked = {}
    BY <1>5 DEF ReadAccount, Main, Certificates
  <2> QED
    BY <1>5, <2>1 DEF ReadAccount, Main
<1>6. CASE CrashMain
  BY <1>6 DEF CrashMain, Main, Crash, Down
<1>7. CASE CrashInit
  BY <1>7 DEF CrashInit
<1>8. ASSUME NEW c \in Client, GetAccountId(c) PROVE MocaInv'
  <2>1. pc = "up" /\ UNCHANGED <<pc, init, accountId>>
    BY <1>8 DEF GetAccountId, vars
  <2>2. CASE moca' = Listed(c) /\ asked' = asked \cup {c}
    BY <2>1, <2>2 DEF Listed
  <2>3. CASE UNCHANGED moca /\ asked' = asked \ {c}
    BY <2>1, <2>3
  <2> QED
    BY <1>8, <2>2, <2>3 DEF GetAccountId
<1>9. CASE NetChange \/ Provision \/ UNCHANGED bvars
  BY <1>9 DEF NetChange, Provision, bvars, vars
<1> QED
  BY <1>1, <1>2, <1>3, <1>4, <1>5, <1>6, <1>7, <1>8, <1>9 DEF BNext, BProcess

\* A client that has asked the running process is in the white list, which
\* outlives processes, exactly if the account ids are equal.
THEOREM MocaListed == BSpec => []MocaFollowsAccount
<1>1. BInit => MocaInv
  BY DEF BInit, MocaInv
<1>2. MocaInv => MocaFollowsAccount
  BY DEF MocaInv, MocaFollowsAccount
<1> QED
  BY <1>1, <1>2, InitAddr, NextAddr, NextMoca, PTL DEF BSpec
=============================================================================
