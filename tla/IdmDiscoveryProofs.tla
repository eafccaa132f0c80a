-------------------------- MODULE IdmDiscoveryProofs --------------------------
(***************************************************************************)
(* Proofs about IdmDiscovery for any devices, accounts, builds and bounds. *)
(***************************************************************************)
EXTENDS IdmDiscovery, ListTheorems

-----------------------------------------------------------------------------
(* The steps that change the list or the stack. *)

Lists == stack \in Seq(Dev) /\ xdevlist \in Seq(Dev)

\* Inserted: the list has one more element.
LEMMA InsertStep ==
    ASSUME Lists, NEW d \in Dev, Insert(d)
    PROVE  /\ xdevlist' \in Seq(Dev)
           /\ Listed' = Listed \cup {d}
           /\ Distinct(xdevlist) /\ d \notin Listed => Distinct(xdevlist')
  <1>1. PICK k \in 1..(Len(xdevlist) + 1) : xdevlist' = WithInserted(xdevlist, k, d)
    BY DEF Insert, WithInserted
  <1>2. WithInserted(xdevlist, k, d) \in Seq(Dev)
    BY InsertedFact DEF Lists
  <1>3. /\ Elements(WithInserted(xdevlist, k, d)) = Elements(xdevlist) \cup {d}
        /\ Distinct(xdevlist) /\ d \notin Elements(xdevlist)
             => Distinct(WithInserted(xdevlist, k, d))
    BY InsertedElements DEF Lists
  <1>4. Elements(xdevlist) = Listed /\ Elements(xdevlist') = Listed'
    BY DEF Elements, Listed
  <1> QED BY <1>1, <1>2, <1>3, <1>4

\* device_proxy_unavailable_cb_bgw adds nothing to the list; without duplicates
\* it takes the device out of it, unless it is this one.
LEMMA UnavailableStep ==
    ASSUME Lists, NEW d \in Dev, Unavailable(d)
    PROVE  /\ xdevlist' \in Seq(Dev)
           /\ Listed' \subseteq Listed
           /\ Distinct(xdevlist) =>
                /\ Distinct(xdevlist')
                /\ Listed' = IF d = Self THEN Listed ELSE Listed \ {d}
           /\ reported' = IF d = Self \/ d \notin Listed THEN reported ELSE reported \ {d}
  <1>1. CASE d = Self \/ d \notin Listed
    <2>1. xdevlist' = xdevlist /\ reported' = reported
      BY <1>1 DEF Unavailable, NotRemoved
    <2>2. Listed' = Listed
      BY <2>1 DEF Listed
    <2> QED BY <1>1, <2>1, <2>2 DEF Lists
  <1>2. CASE ~(d = Self \/ d \notin Listed)
    <2>1. /\ reported' = reported \ {d}
          /\ \E k \in DOMAIN xdevlist :
               /\ xdevlist[k] = d
               /\ xdevlist' = SubSeq(xdevlist, 1, k - 1) \o SubSeq(xdevlist, k + 1, Len(xdevlist))
      BY <1>2 DEF Unavailable, NotRemoved
    <2>2. PICK k \in DOMAIN xdevlist :
               /\ xdevlist[k] = d
               /\ xdevlist' = SubSeq(xdevlist, 1, k - 1) \o SubSeq(xdevlist, k + 1, Len(xdevlist))
      BY <2>1
    <2>3. xdevlist' \in Seq(Dev)
      BY <2>2, RemovedFact DEF Lists
    <2>4. /\ Elements(xdevlist') \subseteq Elements(xdevlist)
          /\ Distinct(xdevlist) =>
               Distinct(xdevlist') /\ Elements(xdevlist') = Elements(xdevlist) \ {d}
      BY <2>2, RemovedElements DEF Lists
    <2>5. Elements(xdevlist) = Listed /\ Elements(xdevlist') = Listed'
      BY DEF Elements, Listed
    <2> QED BY <1>2, <2>1, <2>3, <2>4, <2>5
  <1> QED BY <1>1, <1>2

\* remove_entries_in_list takes the first entry off.
LEMMA CleanupStep ==
    ASSUME Lists, Cleanup
    PROVE  /\ xdevlist' \in Seq(Dev)
           /\ Listed' \subseteq Listed
           /\ Distinct(xdevlist) => Distinct(xdevlist')
           /\ Distinct(xdevlist) /\ Listed \subseteq {Self} => xdevlist' = <<>>
  <1>1. CASE xdevlist = <<>>
    <2>1. xdevlist' = xdevlist
      BY <1>1 DEF Cleanup, remove_entries_in_list
    <2> QED BY <1>1, <2>1 DEF Lists, Listed
  <1>2. CASE xdevlist # <<>>
    <2> DEFINE n == Len(xdevlist)
    <2>1. xdevlist' = Tail(xdevlist)
      BY <1>2 DEF Cleanup, remove_entries_in_list
    <2>2. /\ n \in Nat \ {0} /\ DOMAIN xdevlist = 1..n
          /\ xdevlist' \in Seq(Dev) /\ Len(xdevlist') = n - 1 /\ DOMAIN xdevlist' = 1..(n - 1)
          /\ \A i \in 1..(n - 1) : xdevlist'[i] = xdevlist[i + 1] /\ i + 1 \in 1..n
      BY <1>2, <2>1 DEF Lists
    <2> HIDE DEF n
    <2>3. Listed' \subseteq Listed
      BY <2>2 DEF Listed
    <2>4. Distinct(xdevlist) => Distinct(xdevlist')
      <3> SUFFICES ASSUME Distinct(xdevlist), NEW i \in 1..(n - 1), NEW j \in 1..(n - 1),
                          xdevlist'[i] = xdevlist'[j]
                   PROVE  i = j
        BY <2>2 DEF Distinct
      <3>1. xdevlist[i + 1] = xdevlist[j + 1] /\ i + 1 \in 1..n /\ j + 1 \in 1..n
        BY <2>2
      <3>2. i + 1 = j + 1
        BY <2>2, <3>1 DEF Distinct
      <3> QED BY <3>2
    <2>5. ASSUME Distinct(xdevlist), Listed \subseteq {Self} PROVE xdevlist' = <<>>
      <3>1. \A i \in 1..n : xdevlist[i] = Self
        BY <2>2, <2>5 DEF Listed
      <3>2. \A i, j \in 1..n : i = j
        BY <2>2, <2>5, <3>1 DEF Distinct
      <3>3. n = 1
        <4>1. 1 \in 1..n /\ n \in 1..n
          BY <2>2
        <4> QED BY <3>2, <4>1
      <3> QED BY <2>2, <3>3
    <2> QED BY <2>2, <2>3, <2>4, <2>5
  <1> QED BY <1>1, <1>2

\* An activation that ends leaves those below it.
LEMMA PopStep ==
    ASSUME Lists, stack # <<>>, stack' = SubSeq(stack, 1, Len(stack) - 1)
    PROVE  /\ Len(stack) \in Nat \ {0}
           /\ stack[Len(stack)] \in Dev
           /\ stack' \in Seq(Dev)
           /\ Len(stack') = Len(stack) - 1
  <1>1. Len(stack) \in Nat \ {0} /\ stack[Len(stack)] \in Dev
    BY DEF Lists
  <1>2. Len(stack) - 1 \in Nat /\ Len(stack) - 1 <= Len(stack)
    BY <1>1
  <1> QED BY <1>1, <1>2, PrefixFact DEF Lists

-----------------------------------------------------------------------------
(* Types, and the count of additions. *)

\* What the server half and getAccountId can make of the account id.
LEMMA ReadsFact ==
    ASSUME TypeOK, NEW d \in Dev
    PROVE  Reads(d) \subseteq Answers /\ Reads(d) \subseteq {Account[d], Unknown, Empty}
  BY IdmAssumption DEF Reads, Answers

\* The inductive invariant of both.
CountInv == TypeOK /\ AddCountExact

\* It holds at first.
LEMMA CountInit == Init => CountInv
  <1> SUFFICES ASSUME Init PROVE CountInv
    OBVIOUS
  <1>1. /\ build \in Builds /\ up \subseteq Dev /\ provisioned \subseteq Dev
        /\ cache \subseteq Dev /\ reported \subseteq Dev /\ accountId \in Answers
    BY DEF Init, Answers
  <1>2. /\ events \in 0..MaxEvents /\ stack \in Seq(Dev) /\ xdevlist \in Seq(Dev)
        /\ deviceAddNo \in Nat /\ deviceAddNo = Len(stack)
    BY IdmAssumption DEF Init
  <1> QED BY <1>1, <1>2 DEF Init, CountInv, TypeOK, AddCountExact

\* Every step keeps it.
LEMMA CountStep ==
    ASSUME CountInv, [Next]_vars
    PROVE  CountInv'
  <1> USE DEF CountInv
  <1>0. Lists
    BY DEF TypeOK, Lists
  <1>1. ASSUME NEW d \in Dev, PowerToggle(d) PROVE CountInv'
    BY <1>1, IdmAssumption DEF PowerToggle, TypeOK, AddCountExact, global
  <1>2. ASSUME NEW d \in Dev, Provision(d) PROVE CountInv'
    BY <1>2 DEF Provision, TypeOK, AddCountExact, global
  <1>3. ASSUME NEW d \in Dev, Available(d) PROVE CountInv'
    <2>1. CASE UNCHANGED <<deviceAddNo, stack>>
      BY <1>3, <2>1, IdmAssumption DEF Available, TypeOK, AddCountExact, global
    <2>2. CASE stack' = Append(stack, d) /\ deviceAddNo' = deviceAddNo + 1
      BY <1>3, <2>2, IdmAssumption DEF Available, TypeOK, AddCountExact, global
    <2> QED BY <1>3, <2>1, <2>2 DEF Available, Ignore
  <1>4. ASSUME NEW d \in Dev, Unavailable(d), events' \in 0..MaxEvents PROVE CountInv'
    <2>1. xdevlist' \in Seq(Dev) /\ reported' \subseteq Dev
      BY <1>0, <1>4, UnavailableStep DEF TypeOK
    <2> QED BY <1>4, <2>1 DEF Unavailable, TypeOK, AddCountExact, global
  <1>5. ASSUME NEW d \in Dev, ByeBye(d) PROVE CountInv'
    <2>1. events' \in 0..MaxEvents
      BY <1>5, IdmAssumption DEF ByeBye, TypeOK
    <2> QED BY <1>4, <1>5, <2>1 DEF ByeBye
  <1>6. ASSUME NEW d \in Dev, Expire(d) \/ Flush(d) PROVE CountInv'
    <2>1. events' \in 0..MaxEvents /\ Unavailable(d)
      BY <1>6 DEF Expire, Flush, TypeOK
    <2> QED BY <1>4, <2>1
  <1>7. CASE StopDiscovery
    BY <1>7, IdmAssumption DEF StopDiscovery, TypeOK, AddCountExact
  <1>8. CASE GetAccountId
    BY <1>8, ReadsFact, IdmAssumption DEF GetAccountId, TypeOK, AddCountExact, net, global
  <1>9. CASE ReadAccount
    BY <1>9, ReadsFact, IdmAssumption DEF ReadAccount, TypeOK, AddCountExact, net
  <1>10. CASE StartServer
    BY <1>10 DEF StartServer, idm_server_start, TypeOK, AddCountExact, net
  <1>11. CASE LoopBroken
    BY <1>11 DEF LoopBroken, TypeOK, AddCountExact, net
  <1>12. CASE Cleanup
    <2>1. xdevlist' \in Seq(Dev)
      BY <1>0, <1>12, CleanupStep
    <2> QED BY <1>12, <2>1 DEF Cleanup, TypeOK, AddCountExact, net
  <1>13. CASE Replied
    <2> DEFINE d == stack[Len(stack)]
    <2>1. /\ Len(stack) \in Nat \ {0} /\ d \in Dev
          /\ stack' \in Seq(Dev) /\ Len(stack') = Len(stack) - 1
      BY <1>0, <1>13, PopStep DEF Replied
    <2>2. \/ Insert(d) /\ reported' = reported \cup {d}
          \/ UNCHANGED <<xdevlist, reported>>
      BY <1>13 DEF Replied
    <2> HIDE DEF d
    <2>3. xdevlist' \in Seq(Dev) /\ reported' \subseteq Dev
      BY <1>0, <2>1, <2>2, InsertStep DEF TypeOK
    <2> QED BY <1>13, <2>1, <2>3 DEF Replied, TypeOK, AddCountExact, net, global
  <1>14. CASE VerifyCheck \/ VerifyRescan
    BY <1>14 DEF VerifyCheck, VerifyRescan, TypeOK, AddCountExact, net, global
  <1>15. CASE UNCHANGED vars
    BY <1>15 DEF vars, TypeOK, AddCountExact, net, global
  <1> QED BY <1>1, <1>2, <1>3, <1>5, <1>6, <1>7, <1>8, <1>9, <1>10, <1>11, <1>12, <1>13,
             <1>14, <1>15 DEF Next, MainStep, Expiry, Verify

\* The invariant of the counts holds in every state.
LEMMA CountAlways == Spec => []CountInv
  BY CountInit, CountStep, PTL DEF Spec

\* Every variable of libupnpidm keeps its type, for any devices and bounds: in
\* particular deviceAddNo never goes below 0.
THEOREM IdmTypeCorrect == Spec => []TypeOK
  BY CountAlways, PTL DEF CountInv

\* deviceAddNo is the number of additions in progress, however deeply they nest.
THEOREM IdmAdditionsExact == Spec => []AddCountExact
  BY CountAlways, PTL DEF CountInv

-----------------------------------------------------------------------------
(* Accounts. *)

\* What this device takes for its account: its own, or none.
OwnAccount == accountId \in {Account[Self], Unknown, Empty}

\* Only the two reads change the account id.
LEMMA AccountStep ==
    ASSUME CountInv, OwnAccount, [Next]_vars
    PROVE  OwnAccount'
  <1>1. CASE GetAccountId \/ ReadAccount
    <2>1. accountId' = accountId \/ accountId' \in Reads(Self)
      BY <1>1 DEF GetAccountId, ReadAccount
    <2> QED BY <2>1, ReadsFact, IdmAssumption DEF OwnAccount, CountInv
  <1>2. CASE accountId' = accountId
    BY <1>2 DEF OwnAccount
  <1>3. ASSUME NEW d \in Dev, PowerToggle(d) \/ Provision(d) \/ Available(d) \/ ByeBye(d) \/ Expire(d) \/ Flush(d)
        PROVE  accountId' = accountId
    BY <1>3 DEF PowerToggle, Provision, Available, ByeBye, Expire, Flush, Unavailable
  <1>4. ASSUME StopDiscovery \/ StartServer \/ LoopBroken \/ Cleanup \/ Replied \/ VerifyCheck \/ VerifyRescan \/ UNCHANGED vars
        PROVE  accountId' = accountId
    BY <1>4 DEF StopDiscovery, StartServer, LoopBroken, Cleanup, Replied, VerifyCheck, VerifyRescan, vars
  <1> QED BY <1>1, <1>2, <1>3, <1>4 DEF Next, MainStep, Expiry, Verify

\* A device that is accepted has this device's account, or both reads failed.
LEMMA AcceptedFact ==
    ASSUME CountInv, OwnAccount, NEW d \in Dev, NEW answer \in Reads(d), Accepted(answer)
    PROVE  build.IdmDebug \/ Account[d] = Account[Self] \/ accountId = Empty
  <1>1. answer \in {Account[d], Unknown, Empty}
    BY ReadsFact DEF CountInv
  <1>2. /\ Account[d] \notin {Unknown, Empty}
        /\ Account[Self] \notin {Unknown, Empty}
    BY IdmAssumption
  <1>3. build.IdmDebug \/ (answer # Unknown /\ answer = accountId)
    BY DEF Accepted
  <1> QED BY <1>1, <1>2, <1>3 DEF OwnAccount

\* Whatever enters the list in a step was accepted.
LEMMA EnteredFact ==
    ASSUME CountInv, OwnAccount, [Next]_vars, NEW d \in Listed' \ Listed
    PROVE  build.IdmDebug \/ Account[d] = Account[Self] \/ accountId = Empty
  <1>0. Lists
    BY DEF CountInv, TypeOK, Lists
  <1>1. CASE Replied
    <2> DEFINE e == stack[Len(stack)]
    <2>1. e \in Dev
      BY <1>0, <1>1, PopStep DEF Replied
    <2>2. xdevlist' # xdevlist
      BY DEF Listed
    <2>3. PICK answer \in Reads(e) : Accepted(answer) /\ Insert(e)
      BY <1>1, <2>2 DEF Replied
    <2> HIDE DEF e
    <2>4. d = e
      BY <1>0, <2>1, <2>3, InsertStep
    <2> QED BY <2>1, <2>3, <2>4, AcceptedFact
  <1>2. ASSUME xdevlist' = xdevlist PROVE FALSE
    BY <1>2 DEF Listed
  <1>3. ASSUME NEW c \in Dev, ByeBye(c) \/ Expire(c) \/ Flush(c) PROVE FALSE
    BY <1>0, <1>3, UnavailableStep DEF ByeBye, Expire, Flush
  <1>4. ASSUME Cleanup PROVE FALSE
    BY <1>0, <1>4, CleanupStep
  <1>5. ASSUME NEW c \in Dev, PowerToggle(c) \/ Provision(c) \/ Available(c)
        PROVE  xdevlist' = xdevlist
    BY <1>5 DEF PowerToggle, Provision, Available
  <1>6. ASSUME \/ StopDiscovery \/ StartServer \/ LoopBroken \/ ReadAccount \/ GetAccountId
               \/ VerifyCheck \/ VerifyRescan \/ UNCHANGED vars
        PROVE  xdevlist' = xdevlist
    BY <1>6 DEF StopDiscovery, StartServer, LoopBroken, ReadAccount, GetAccountId, VerifyCheck,
                VerifyRescan, vars
  <1> QED BY <1>1, <1>2, <1>3, <1>4, <1>5, <1>6 DEF Next, MainStep, Expiry, Verify

\* Only devices of this device's account are listed, for any number of devices,
\* nested additions and requests for the account id meanwhile; but for those
\* whose read failed as this device's did.
THEOREM AccountsKept == Spec => SameAccountOnly
  <1>1. Init => OwnAccount
    BY DEF Init, OwnAccount
  <1>2. CountInv /\ OwnAccount /\ [Next]_vars => OwnAccount'
    BY AccountStep
  <1>3. CountInv /\ OwnAccount /\ [Next]_vars =>
          [\A d \in Listed' \ Listed :
             build.IdmDebug \/ Account[d] = Account[Self] \/ accountId = Empty]_vars
    BY EnteredFact
  <1> QED BY <1>1, <1>2, <1>3, CountAlways, PTL DEF Spec, SameAccountOnly

-----------------------------------------------------------------------------
(* Sessions, where requests block. *)

\* An addition is the only one, and of a device that is not listed yet.
OneAddition ==
    /\ Len(stack) <= 1
    /\ stack # <<>> => phase = "run" /\ stack[1] \notin Listed /\ stack[1] \in cache

\* The list holds devices that the browser knows of, once each, and this one.
ListKnown == Distinct(xdevlist) /\ Listed \subseteq cache \cup {Self}

\* Nothing is left of the previous session.
FreshSession == phase \in {"account", "server"} => xdevlist = <<>> /\ cache = {}

\* The inductive invariant of a session.
Blocking ==
    ~build.Reentrant =>
      /\ OneAddition /\ ListKnown /\ FreshSession
      /\ reported \ {Self} = Listed \ {Self}

\* It holds at first.
LEMMA BlockingInit == Init => Blocking
  BY DEF Init, Blocking, OneAddition, ListKnown, FreshSession, Distinct, Listed

\* The callbacks keep it.
LEMMA BlockingUnavailable ==
    ASSUME CountInv, Blocking, ~build.Reentrant, NEW d \in Dev, Unavailable(d), stack = <<>>,
           phase \in {"run", "flush"}
    PROVE  Blocking'
  <1>0. Lists
    BY DEF CountInv, TypeOK, Lists
  <1>1. /\ OneAddition /\ ListKnown /\ FreshSession
        /\ reported \ {Self} = Listed \ {Self}
    BY DEF Blocking
  <1>2. /\ cache' = cache \ {d}
        /\ phase' = phase /\ stack' = stack /\ build' = build
    BY DEF Unavailable, global
  <1>3. /\ Distinct(xdevlist')
        /\ Listed' = IF d = Self THEN Listed ELSE Listed \ {d}
        /\ reported' = IF d = Self \/ d \notin Listed THEN reported ELSE reported \ {d}
    BY <1>0, <1>1, UnavailableStep DEF ListKnown
  <1>4. OneAddition' /\ FreshSession'
    BY <1>2 DEF OneAddition, FreshSession
  <1>5. ListKnown'
    <2>1. Listed' \subseteq cache' \cup {Self}
      BY <1>1, <1>2, <1>3 DEF ListKnown
    <2> QED BY <1>3, <2>1 DEF ListKnown
  <1>6. reported' \ {Self} = Listed' \ {Self}
    BY <1>1, <1>3
  <1> QED BY <1>4, <1>5, <1>6 DEF Blocking

\* A new activation begins only where none waits.
LEMMA BlockingAvailable ==
    ASSUME CountInv, Blocking, ~build.Reentrant, NEW d \in Dev, Available(d)
    PROVE  Blocking'
  <1>1. /\ OneAddition /\ ListKnown /\ FreshSession
        /\ reported \ {Self} = Listed \ {Self}
    BY DEF Blocking
  <1>2. /\ cache' = cache \cup {d} /\ phase' = phase /\ phase = "run" /\ stack = <<>>
        /\ xdevlist' = xdevlist /\ reported' = reported
        /\ stack' = stack \/ (d \notin Listed /\ stack' = Append(stack, d))
    BY DEF Available, CanDispatch, Ignore, global
  <1>3. Listed' = Listed
    BY <1>2 DEF Listed
  <1>4. OneAddition'
    <2>1. CASE stack' = stack
      BY <1>1, <1>2, <2>1 DEF OneAddition
    <2>2. CASE d \notin Listed /\ stack' = Append(stack, d)
      <3>1. stack' = <<d>>
        BY <1>2, <2>2
      <3> QED BY <1>2, <1>3, <2>2, <3>1 DEF OneAddition
    <2> QED BY <1>2, <2>1, <2>2
  <1>5. ListKnown' /\ FreshSession'
    BY <1>1, <1>2, <1>3 DEF ListKnown, FreshSession
  <1> QED BY <1>1, <1>2, <1>3, <1>4, <1>5 DEF Blocking

\* The addition ends: the device was not listed before.
LEMMA BlockingReplied ==
    ASSUME CountInv, Blocking, ~build.Reentrant, Replied
    PROVE  Blocking'
  <1>0. Lists
    BY DEF CountInv, TypeOK, Lists
  <1>1. /\ OneAddition /\ ListKnown
        /\ reported \ {Self} = Listed \ {Self}
    BY DEF Blocking
  <1>2. /\ stack # <<>> /\ stack' = SubSeq(stack, 1, Len(stack) - 1)
        /\ cache' = cache /\ phase' = phase /\ build' = build
    BY DEF Replied, global, net
  <1>3. /\ Len(stack) \in Nat \ {0} /\ stack' \in Seq(Dev) /\ Len(stack') = Len(stack) - 1
        /\ stack[Len(stack)] \in Dev
    BY <1>0, <1>2, PopStep
  <1>4. Len(stack) = 1
    BY <1>1, <1>3 DEF OneAddition
  <1> DEFINE d == stack[1]
  <1>5. /\ d \in Dev /\ d \notin Listed /\ d \in cache /\ phase = "run"
        /\ stack' = <<>>
    BY <1>1, <1>2, <1>3, <1>4 DEF OneAddition
  <1>6. \/ Insert(d) /\ reported' = reported \cup {d}
        \/ xdevlist' = xdevlist /\ reported' = reported
    BY <1>4 DEF Replied
  <1> HIDE DEF d
  <1>7. OneAddition' /\ FreshSession'
    <2>1. Len(stack') <= 1 /\ stack' = <<>> /\ phase' = "run"
      BY <1>2, <1>3, <1>4, <1>5
    <2> QED BY <2>1 DEF OneAddition, FreshSession
  <1>8. CASE Insert(d) /\ reported' = reported \cup {d}
    <2>1. Listed' = Listed \cup {d} /\ Distinct(xdevlist')
      BY <1>0, <1>1, <1>5, <1>8, InsertStep DEF ListKnown
    <2>2. ListKnown'
      BY <1>1, <1>2, <1>5, <2>1 DEF ListKnown
    <2> QED BY <1>1, <1>7, <1>8, <2>1, <2>2 DEF Blocking
  <1>9. CASE xdevlist' = xdevlist /\ reported' = reported
    <2>1. Listed' = Listed
      BY <1>9 DEF Listed
    <2> QED BY <1>1, <1>2, <1>7, <1>9, <2>1 DEF Blocking, ListKnown
  <1> QED BY <1>6, <1>8, <1>9

\* The end of a session: the flush has left this device only, if any.
LEMMA BlockingCleanup ==
    ASSUME CountInv, Blocking, ~build.Reentrant, Cleanup
    PROVE  Blocking'
  <1>0. Lists
    BY DEF CountInv, TypeOK, Lists
  <1>1. /\ OneAddition /\ ListKnown
        /\ reported \ {Self} = Listed \ {Self}
    BY DEF Blocking
  <1>2. /\ cache = {} /\ cache' = cache /\ phase = "flush" /\ stack' = stack
        /\ reported' = reported
    BY DEF Cleanup
  <1>3. xdevlist' = <<>>
    BY <1>0, <1>1, <1>2, CleanupStep DEF ListKnown
  <1>4. Listed' = {} /\ Distinct(xdevlist')
    BY <1>3 DEF Listed, Distinct
  <1>5. OneAddition'
    BY <1>1, <1>2 DEF OneAddition
  <1>6. reported' \ {Self} = Listed' \ {Self}
    BY <1>1, <1>2, <1>4 DEF ListKnown
  <1> QED BY <1>2, <1>3, <1>4, <1>5, <1>6 DEF Blocking, ListKnown, FreshSession

\* Every step keeps the invariant of a session.
LEMMA BlockingStep ==
    ASSUME CountInv, Blocking, [Next]_vars
    PROVE  Blocking'
  <1>0. build' = build
    <2>1. ASSUME NEW d \in Dev, PowerToggle(d) \/ Provision(d) \/ Available(d) \/ ByeBye(d) \/ Expire(d) \/ Flush(d)
          PROVE  build' = build
      BY <2>1 DEF PowerToggle, Provision, Available, ByeBye, Expire, Flush, Unavailable
    <2>2. ASSUME \/ StopDiscovery \/ StartServer \/ LoopBroken \/ ReadAccount \/ GetAccountId
                 \/ Cleanup \/ Replied \/ VerifyCheck \/ VerifyRescan \/ UNCHANGED vars
          PROVE  build' = build
      BY <2>2 DEF StopDiscovery, StartServer, LoopBroken, ReadAccount, GetAccountId, Cleanup,
                  Replied, VerifyCheck, VerifyRescan, vars, net
    <2> QED BY <2>1, <2>2 DEF Next, MainStep, Expiry, Verify
  <1> SUFFICES ASSUME ~build.Reentrant PROVE Blocking'
    BY <1>0 DEF Blocking
  <1>1. ASSUME NEW d \in Dev, Available(d) PROVE Blocking'
    BY <1>1, BlockingAvailable
  <1>2. ASSUME NEW d \in Dev, ByeBye(d) \/ Expire(d) PROVE Blocking'
    <2>1. Unavailable(d) /\ stack = <<>> /\ phase = "run"
      BY <1>2 DEF ByeBye, Expire, CanDispatch
    <2> QED BY <2>1, BlockingUnavailable
  <1>3. ASSUME NEW d \in Dev, Flush(d) PROVE Blocking'
    <2>1. Unavailable(d) /\ phase = "flush"
      BY <1>3 DEF Flush
    <2>2. stack = <<>>
      BY <2>1 DEF Blocking, OneAddition
    <2> QED BY <2>1, <2>2, BlockingUnavailable
  <1>4. CASE Replied
    BY <1>4, BlockingReplied
  <1>5. CASE Cleanup
    BY <1>5, BlockingCleanup
  <1>6. ASSUME UNCHANGED <<cache, stack, xdevlist, reported>>,
               \/ phase' = phase
               \/ phase' # "run" /\ stack = <<>> /\ phase' = "flush"
               \/ phase \in {"account", "server"}
        PROVE  Blocking'
    <2>1. Listed' = Listed /\ Distinct(xdevlist') = Distinct(xdevlist)
      BY <1>6 DEF Listed
    <2>2. /\ OneAddition /\ ListKnown /\ FreshSession
          /\ reported \ {Self} = Listed \ {Self}
      BY DEF Blocking
    <2>3. OneAddition'
      BY <1>6, <2>1, <2>2 DEF OneAddition
    <2>4. FreshSession' /\ ListKnown'
      BY <1>6, <2>1, <2>2 DEF FreshSession, ListKnown
    <2> QED BY <1>6, <2>1, <2>2, <2>3, <2>4 DEF Blocking
  <1>7. ASSUME NEW d \in Dev, PowerToggle(d) \/ Provision(d) PROVE Blocking'
    BY <1>6, <1>7 DEF PowerToggle, Provision, global
  <1>8. CASE StopDiscovery \/ GetAccountId \/ VerifyCheck \/ VerifyRescan \/ UNCHANGED vars
    BY <1>6, <1>8 DEF StopDiscovery, GetAccountId, VerifyCheck, VerifyRescan, vars, global
  <1>9. CASE ReadAccount \/ StartServer \/ LoopBroken
    BY <1>6, <1>9 DEF ReadAccount, StartServer, LoopBroken
  <1> QED BY <1>1, <1>2, <1>3, <1>4, <1>5, <1>7, <1>8, <1>9 DEF Next, MainStep, Expiry, Verify

\* The invariant of a session holds in every state.
LEMMA BlockingAlways == Spec => []Blocking
  BY BlockingInit, BlockingStep, CountAlways, PTL DEF Spec

\* Where requests block, every session starts with an empty list, for any number
\* of devices, although remove_entries_in_list takes one entry off.
THEOREM SessionsFresh == Spec => []SessionStartsEmpty
  <1>1. Blocking => SessionStartsEmpty
    BY DEF Blocking, FreshSession, SessionStartsEmpty
  <1> QED BY <1>1, BlockingAlways, PTL

\* Where requests block, the caller of libupnpidm knows exactly the listed
\* devices, through any number of restarts of discovery.
THEOREM CallerKnows == Spec => []ReportedListed
  <1>1. Blocking => ReportedListed
    BY DEF Blocking, ReportedListed
  <1> QED BY <1>1, BlockingAlways, PTL
-----------------------------------------------------------------------------
(* The thread of the same library that follows wan-status.                 *)

CONSTANT MaxChanges
VARIABLES wan, changes, registered, queue, pc, flags

Wan == INSTANCE IdmWan

\* "started" sets the full checks and ends the thread, in the same step; no
\* status that follows is received.
WanEnded == flags = "full" => pc = "done"

\* A step of the thread or of the WAN keeps that.
LEMMA WanStep == WanEnded /\ [Wan!Next]_(Wan!vars) => WanEnded'
  <1> SUFFICES ASSUME WanEnded, [Wan!Next]_(Wan!vars) PROVE WanEnded'
    OBVIOUS
  <1>1. CASE Wan!SetNotification
    BY <1>1 DEF Wan!SetNotification, WanEnded
  <1>2. CASE Wan!Get
    BY <1>2 DEF Wan!Get, WanEnded
  <1>3. CASE Wan!Listen
    BY <1>3 DEF Wan!Listen, WanEnded
  <1>4. ASSUME NEW s \in Wan!Status, Wan!Change(s) PROVE WanEnded'
    BY <1>4 DEF Wan!Change, WanEnded
  <1>5. CASE UNCHANGED Wan!vars
    BY <1>5 DEF Wan!vars, WanEnded
  <1> QED BY <1>1, <1>2, <1>3, <1>4, <1>5 DEF Wan!Next, Wan!Handler

\* Once chosen, the full certificate checks stay, for any number of changes of
\* wan-status: the thread that could relax them again has ended.
THEOREM FullChecksStay == Wan!Spec => Wan!FullStays
  <1>1. Wan!Init => WanEnded
    BY DEF Wan!Init, WanEnded
  <1>2. WanEnded /\ [Wan!Next]_(Wan!vars) => [flags = "full" => flags' = "full"]_flags
    <2> SUFFICES ASSUME WanEnded, Wan!Next, flags = "full" PROVE flags' = "full"
      BY DEF Wan!vars
    <2>1. pc = "done"
      BY DEF WanEnded
    <2>2. ~Wan!Handler
      BY <2>1 DEF Wan!Handler, Wan!SetNotification, Wan!Get, Wan!Listen
    <2>3. PICK s \in Wan!Status : Wan!Change(s)
      BY <2>2 DEF Wan!Next
    <2> QED BY <2>3 DEF Wan!Change
  <1> QED BY <1>1, <1>2, WanStep, PTL DEF Wan!Spec, Wan!FullStays
=============================================================================
