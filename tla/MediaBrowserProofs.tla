-------------------------- MODULE MediaBrowserProofs ---------------------------
(***************************************************************************)
(* The media-server browser, for any servers and any number of calls on    *)
(* their way: what a client learns index by index is consistent, although  *)
(* every call takes the lock for itself and answers may come late.         *)
(***************************************************************************)
EXTENDS MediaBrowser, TLAPS

\* No server is listed twice, and one that is about to be appended is not listed:
\* only the main loop appends.
ListedOnce ==
    /\ \A i, j \in DOMAIN msList : msList[i] = msList[j] => i = j
    /\ main.pc \in {"lookup", "append"} => main.udn \in Udn
    /\ main.pc = "append" => \A i \in DOMAIN msList : msList[i] # main.udn

\* What a client was told about an index is what the list has there.
ToldListed ==
    \A i \in DOMAIN client.knows.servers :
        client.knows.servers[i] # NoUdn =>
            i <= Len(msList) /\ msList[i] = client.knows.servers[i]

Inv == TypeOK /\ ListedOnce /\ ToldListed

\* g_list_find_custom answers NULL for a server that is not in the list only.
LEMMA FindFact ==
    ASSUME msList \in Seq(Udn), NEW u
    PROVE  Find(u) = 0 => \A i \in DOMAIN msList : msList[i] # u
<1>1. CASE \E i \in DOMAIN msList : msList[i] = u
  <2>1. Find(u) \in DOMAIN msList
    BY <1>1 DEF Find
  <2> QED
    BY <2>1
<1> QED
  BY <1>1

\* The initial state satisfies the inductive invariant.
LEMMA InitInv == Init => Inv
<1> SUFFICES ASSUME Init PROVE Inv
  OBVIOUS
<1>1. msList = <<>> /\ calls = <<>> /\ client.knows.servers = <<>>
  BY DEF Init, Unknown
<1>2. TypeOK
  BY DEF Init, TypeOK, MaybeUdn, Unknown
<1> QED
  BY <1>1, <1>2 DEF Init, Inv, ListedOnce, ToldListed

\* An answer that leaves the client's knowledge consistent keeps the invariant of
\* client and rbus thread.
LEMMA AnswerFact ==
    ASSUME TypeOK, NEW knows \in [size : Int, servers : Seq(MaybeUdn)], Answer(knows),
           ToldListed, UNCHANGED msList,
           \A i \in DOMAIN knows.servers :
               knows.servers[i] # NoUdn => i <= Len(msList) /\ msList[i] = knows.servers[i]
    PROVE  /\ rpc' = [pc |-> "idle", call |-> NoCall]
           /\ client' \in [waits : BOOLEAN, knows : [size : Int, servers : Seq(MaybeUdn)]]
           /\ ToldListed'
<1>1. client' = client \/ client' = [waits |-> FALSE, knows |-> knows]
  BY DEF Answer
<1>2. CASE client' = client
  BY <1>2 DEF Answer, ToldListed, TypeOK
<1>3. CASE client' = [waits |-> FALSE, knows |-> knows]
  <2>1. client'.knows = knows /\ msList' = msList
    BY <1>3
  <2>2. ToldListed'
    BY <2>1 DEF ToldListed
  <2>3. client' \in [waits : BOOLEAN, knows : [size : Int, servers : Seq(MaybeUdn)]]
    BY <1>3
  <2> QED
    BY <2>2, <2>3 DEF Answer
<1> QED
  BY <1>1, <1>2, <1>3

\* The steps that leave the list and the main loop alone.
LEMMA RpcInv ==
    ASSUME Inv, RpcStep
    PROVE  Inv'
<1> USE DEF Inv
<1>1. UNCHANGED <<cache, msList, main>> /\ ListedOnce'
  BY DEF RpcStep, Take, Start, Size, ServerAt, BrowseFind, BrowseRequest, ListedOnce
<1>2. CASE Take
  <2>1. Head(calls) \in Call /\ Tail(calls) \in Seq(Call)
    BY <1>2 DEF Take, TypeOK
  <2>2. rpc' = [rpc EXCEPT !.pc = "start", !.call = Head(calls)]
    BY <1>2 DEF Take
  <2> QED
    BY <1>1, <1>2, <2>1, <2>2 DEF Take, TypeOK, ToldListed
<1>3. ASSUME NEW knows \in [size : Int, servers : Seq(MaybeUdn)], Answer(knows),
             UNCHANGED calls, locker' \in {"free", "main"},
             \A i \in DOMAIN knows.servers :
               knows.servers[i] # NoUdn => i <= Len(msList) /\ msList[i] = knows.servers[i]
      PROVE  Inv'
  <2>1. /\ rpc' = [pc |-> "idle", call |-> NoCall]
        /\ client' \in [waits : BOOLEAN, knows : [size : Int, servers : Seq(MaybeUdn)]]
        /\ ToldListed'
    BY <1>1, <1>3, AnswerFact
  <2> QED
    BY <1>1, <1>3, <2>1 DEF TypeOK, MaybeUdn
<1>4. client.knows \in [size : Int, servers : Seq(MaybeUdn)]
  BY DEF TypeOK
<1>5. \A n \in Int : [client.knows EXCEPT !.size = n] \in [size : Int, servers : Seq(MaybeUdn)]
                     /\ [client.knows EXCEPT !.size = n].servers = client.knows.servers
  BY <1>4
<1>6. CASE Start
  <2>1. CASE msList = <<>> /\ rpc.call.method # "browse"
    <3>1. Answer([client.knows EXCEPT !.size = 0]) \/ Answer(client.knows)
      BY <1>6, <2>1 DEF Start
    <3> QED
      BY <1>3, <1>4, <1>5, <1>6, <3>1 DEF Start, ToldListed, TypeOK
  <2>2. CASE ~(msList = <<>> /\ rpc.call.method # "browse")
    BY <1>1, <1>6, <2>2 DEF Start, TypeOK, ToldListed
  <2> QED
    BY <2>1, <2>2
<1>7. CASE Size
  <2>1. Len(msList) \in Int
    BY DEF TypeOK
  <2> QED
    BY <1>3, <1>5, <1>7, <2>1 DEF Size, ToldListed
<1>8. CASE ServerAt
  <2> DEFINE i == rpc.call.at + 1
             u == IF i <= Len(msList) THEN msList[i] ELSE NoUdn
             s == client.knows.servers
             n == IF i > Len(s) THEN i ELSE Len(s)
             t == [j \in 1..n |-> IF j = i THEN u ELSE IF j <= Len(s) THEN s[j] ELSE NoUdn]
             k == [client.knows EXCEPT !.servers = t]
  <2>1. rpc.call \in Call \cup {NoCall} /\ i \in Nat /\ i >= 1
    BY DEF TypeOK, Call, NoCall
  <2>2. s \in Seq(MaybeUdn) /\ Len(s) \in Nat /\ msList \in Seq(Udn) /\ Len(msList) \in Nat
    BY DEF TypeOK
  <2>3. u \in MaybeUdn
    BY <2>1, <2>2 DEF MaybeUdn
  <2>4. n \in Nat
    BY <2>1, <2>2
  <2>5. \A j \in 1..n : t[j] \in MaybeUdn
    BY <2>2, <2>3, <2>4 DEF MaybeUdn
  <2>6. t \in Seq(MaybeUdn)
    <3>1. t \in [1..n -> MaybeUdn]
      BY <2>5
    <3> HIDE DEF t, n
    <3> QED
      BY <2>4, <3>1
  <2>7. k \in [size : Int, servers : Seq(MaybeUdn)] /\ k.servers = t /\ DOMAIN t = 1..n
    BY <1>4, <2>6
  <2>8. ASSUME NEW j \in 1..n, t[j] # NoUdn
        PROVE  j <= Len(msList) /\ msList[j] = t[j]
    <3>1. CASE j = i
      BY <2>1, <2>2, <2>8, <3>1
    <3>2. CASE j # i
      <4>1. j <= Len(s) /\ t[j] = s[j] /\ j \in DOMAIN s
        BY <2>2, <2>4, <2>8, <3>2
      <4> QED
        BY <2>8, <4>1 DEF ToldListed
    <3> QED
      BY <3>1, <3>2
  <2>9. Answer(k)
    BY <1>8 DEF ServerAt
  <2> QED
    BY <1>3, <1>8, <2>7, <2>8, <2>9 DEF ServerAt
<1>9. CASE BrowseFind
  <2>1. CASE Find(rpc.call.udn) = 0
    BY <1>3, <1>4, <1>9, <2>1 DEF BrowseFind, ToldListed
  <2>2. CASE Find(rpc.call.udn) # 0
    <3>1. rpc.call.udn \in MaybeUdn
      BY DEF TypeOK, Call, NoCall, MaybeUdn
    <3> QED
      BY <1>1, <1>9, <2>2, <3>1 DEF BrowseFind, TypeOK, ToldListed
  <2> QED
    BY <2>1, <2>2
<1>10. CASE BrowseRequest
  BY <1>3, <1>4, <1>10 DEF BrowseRequest, ToldListed, TypeOK
<1> QED
  BY <1>2, <1>6, <1>7, <1>8, <1>9, <1>10 DEF RpcStep

\* The client's calls are about indexes below the size and servers it was told of.
LEMMA InvokeInv ==
    ASSUME Inv, Invoke
    PROVE  Inv'
<1> USE DEF Inv
<1> DEFINE knows == client.knows
<1>1. PICK c \in {[method |-> "size", at |-> 0, udn |-> NoUdn]}
             \cup {[method |-> "at", at |-> i, udn |-> NoUdn] : i \in 0..(knows.size - 1)}
             \cup {[method |-> "browse", at |-> 0, udn |-> knows.servers[i]]
                     : i \in {j \in DOMAIN knows.servers : knows.servers[j] # NoUdn}} :
           calls' = Append(calls, c)
  BY DEF Invoke
<1>2. c \in Call
  <2>1. knows.size \in Int /\ knows.servers \in Seq(MaybeUdn)
    BY DEF TypeOK
  <2>2. \A j \in DOMAIN knows.servers : knows.servers[j] \in MaybeUdn
    BY <2>1
  <2>3. \A j \in DOMAIN knows.servers : knows.servers[j] # NoUdn => knows.servers[j] \in Udn
    BY <2>2 DEF MaybeUdn
  <2> QED
    BY <1>1, <2>1, <2>3 DEF Call
<1>3. calls' \in Seq(Call)
  BY <1>1, <1>2 DEF TypeOK
<1>4. UNCHANGED <<cache, msList, locker, main, rpc>>
      /\ client' = [client EXCEPT !.waits = TRUE]
  BY DEF Invoke
<1>5. TypeOK'
  BY <1>3, <1>4 DEF TypeOK
<1>6. client'.knows = client.knows
  BY <1>4 DEF TypeOK
<1> QED
  BY <1>4, <1>5, <1>6 DEF ListedOnce, ToldListed

\* Every step preserves the inductive invariant.
LEMMA NextInv == Inv /\ [Next]_vars => Inv'
<1> SUFFICES ASSUME Inv, [Next]_vars PROVE Inv'
  OBVIOUS
<1> USE DEF Inv
<1>1. ASSUME NEW u \in Udn, Announce(u) PROVE Inv'
  <2>1. TypeOK'
    BY <1>1 DEF Announce, TypeOK, MaybeUdn
  <2>2. UNCHANGED <<msList, client, rpc>> /\ main'.pc \in {"lookup", "gone"} /\ main'.udn = u
    BY <1>1 DEF Announce
  <2> QED
    BY <1>1, <2>1, <2>2 DEF ListedOnce, ToldListed
<1>2. CASE Lookup
  <2>1. TypeOK'
    BY <1>2 DEF Lookup, TypeOK
  <2>2. UNCHANGED <<msList, client, rpc>> /\ main.udn \in Udn /\ main'.udn = main.udn
    BY <1>2 DEF Lookup, ListedOnce, TypeOK
  <2>3. main'.pc = "append" => Find(main.udn) = 0
    BY <1>2 DEF Lookup, TypeOK
  <2>4. msList \in Seq(Udn)
    BY DEF TypeOK
  <2>5. main'.pc = "append" => \A i \in DOMAIN msList : msList[i] # main.udn
    BY <2>3, <2>4, FindFact
  <2> QED
    BY <2>1, <2>2, <2>5 DEF ListedOnce, ToldListed
<1>3. CASE AppendServer
  <2>1. main.udn \in Udn /\ \A i \in DOMAIN msList : msList[i] # main.udn
    BY <1>3 DEF AppendServer, ListedOnce
  <2>2. msList \in Seq(Udn) /\ msList' = Append(msList, main.udn)
    BY <1>3 DEF AppendServer, Added, TypeOK
  <2>3. /\ msList' \in Seq(Udn)
        /\ Len(msList') = Len(msList) + 1
        /\ Len(msList) \in Nat
        /\ DOMAIN msList = 1..Len(msList) /\ DOMAIN msList' = 1..(Len(msList) + 1)
        /\ \A i \in 1..Len(msList) : msList'[i] = msList[i]
        /\ msList'[Len(msList) + 1] = main.udn
    BY <2>1, <2>2
  <2>4. UNCHANGED <<client, rpc, locker, calls, cache>> /\ main' = [main EXCEPT !.pc = "loop"]
    BY <1>3 DEF AppendServer
  <2>5. TypeOK'
    BY <2>3, <2>4 DEF TypeOK
  <2>6. ListedOnce'
    <3>1. ASSUME NEW i \in DOMAIN msList', NEW j \in DOMAIN msList', msList'[i] = msList'[j]
          PROVE  i = j
      <4>1. CASE i \in 1..Len(msList) /\ j \in 1..Len(msList)
        BY <2>3, <3>1, <4>1 DEF ListedOnce
      <4>2. CASE i = Len(msList) + 1 \/ j = Len(msList) + 1
        BY <2>1, <2>3, <3>1, <4>2
      <4> QED
        BY <2>3, <3>1, <4>1, <4>2
    <3>2. main'.pc = "loop"
      BY <2>4 DEF TypeOK
    <3> QED
      BY <3>1, <3>2 DEF ListedOnce
  <2>7. ToldListed'
    <3>1. ASSUME NEW i \in DOMAIN client.knows.servers, client.knows.servers[i] # NoUdn
          PROVE  i <= Len(msList') /\ msList'[i] = client.knows.servers[i]
      <4>1. i <= Len(msList) /\ msList[i] = client.knows.servers[i]
        BY <3>1 DEF ToldListed
      <4>2. i \in Nat /\ i >= 1
        BY DEF TypeOK
      <4> QED
        BY <2>3, <4>1, <4>2
    <3> QED
      BY <2>4, <3>1 DEF ToldListed
  <2> QED
    BY <2>5, <2>6, <2>7
<1>4. CASE Gone
  <2>1. UNCHANGED <<cache, msList, rpc, calls, client>> /\ locker' = "main"
        /\ main' = [main EXCEPT !.pc = "loop"]
    BY <1>4 DEF Gone
  <2> QED
    BY <2>1 DEF TypeOK, ListedOnce, ToldListed
<1>5. CASE Invoke
  BY <1>5, InvokeInv
<1>6. CASE GiveUp
  <2>1. client'.knows = client.knows
    BY <1>6 DEF GiveUp, TypeOK
  <2> QED
    BY <1>6, <2>1 DEF GiveUp, TypeOK, ListedOnce, ToldListed
<1>7. CASE RpcStep
  BY <1>7, RpcInv
<1>8. CASE UNCHANGED vars
  BY <1>8 DEF vars, TypeOK, ListedOnce, ToldListed
<1> QED
  BY <1>1, <1>2, <1>3, <1>4, <1>5, <1>6, <1>7, <1>8 DEF Next, MainStep

-----------------------------------------------------------------------------
\* A client that asks for the size and then for index after index meets no server
\* twice, and what it was told stays true, whatever comes between its calls.
THEOREM EnumerationConsistent == Spec => []Enumerable
<1>1. Inv => Enumerable
  <2> SUFFICES ASSUME Inv PROVE Enumerable
    OBVIOUS
  <2> DEFINE s == client.knows.servers
  <2>1. ASSUME NEW i \in DOMAIN s, NEW j \in DOMAIN s
        PROVE  /\ i # j => s[i] # s[j] \/ s[i] = NoUdn
               /\ s[i] # NoUdn => i <= Len(msList) /\ msList[i] = s[i]
    <3>1. i \in Nat \ {0} /\ j \in Nat \ {0} /\ DOMAIN msList = 1..Len(msList) /\ Len(msList) \in Nat
      BY DEF Inv, TypeOK
    <3>2. s[i] # NoUdn => i <= Len(msList) /\ msList[i] = s[i]
      BY DEF Inv, ToldListed
    <3>3. s[j] # NoUdn => j <= Len(msList) /\ msList[j] = s[j]
      BY DEF Inv, ToldListed
    <3> QED
      BY <3>1, <3>2, <3>3 DEF Inv, ListedOnce
  <2> QED
    BY <2>1 DEF Enumerable
<1> QED
  BY <1>1, InitInv, NextInv, PTL DEF Spec
=============================================================================
