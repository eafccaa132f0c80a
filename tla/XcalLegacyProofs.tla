--------------------------- MODULE XcalLegacyProofs ---------------------------
(***************************************************************************)
(* The single-file xcal-device, for every configuration and any number of  *)
(* changes and of events on their way: when its device is announced, what  *)
(* serial number is described, which name its time zone has, and that a    *)
(* subscribed client ends with the values the managers have.               *)
(***************************************************************************)
EXTENDS XcalLegacy, SequenceTheorems, TLAPS

-----------------------------------------------------------------------------
(* Types. *)

Values ==
    [tune : BOOLEAN, id : Nat, tz : Zone \cup {None}, dst : {0, 60, NoDst},
     serial : {"short", "serial"}, route : {None, "r1", "r2", "junk"}]

Event ==
    ({"tune"} \X BOOLEAN) \cup ({"id"} \X Nat) \cup ({"tz"} \X Zone)
    \cup ({"dst"} \X {0, 60}) \cup ({"serial"} \X {"short", "serial"})
    \cup ({"route"} \X {"r1", "r2"})

Zones == {None, "US/Mountain", "US/Central", "US/Eastern", "US/Arizona",
          "Canada/Saskatchewan", "DSG"}

Lib == [tune_ready : BOOLEAN, id : Nat, systemids : Nat \cup {Fill, Junk},
        dsgtimezone : Zones, dstOffset : {0, 60, DstUnset},
        serial_num : {None, "short", "serial"},
        dataGatewayIPaddress : {None, "r1", "r2", "junk"}, ipv6prefix : BOOLEAN]

Places == {"register", "call", "assign_id", "assign_tz", "assign_dst", "assign_tune",
           "assign_serial", "print", "printed", "serial", "route", "assign_route", "xml",
           "device", "tune", "prefix_file", "prefix", "publish", "connect", "up", "answer",
           "ended"}

\* The steps left of an event.
Busies ==
    { <<>>, <<"test">>, <<"announce">>, <<"hide">>, <<"PlaybackUrl">>,
      <<"begin", "end", "SystemIds", "PlaybackUrl">>, <<"end", "SystemIds", "PlaybackUrl">>,
      <<"SystemIds", "PlaybackUrl">>,
      <<"begin", "end", "SystemIds">>, <<"end", "SystemIds">>, <<"SystemIds">>,
      <<"rename", "TimeZone">>, <<"TimeZone">>, <<"DataGatewayIPaddress">> }

Steps == {"test", "announce", "hide", "begin", "end", "rename"} \cup Var

Holding == {"assign_id", "assign_tz", "assign_dst", "assign_tune", "assign_serial",
            "assign_route"}

Typed ==
    /\ conf \in Conf
    /\ sys \in Values
    /\ diag \in Nat
    /\ changes \in Nat
    /\ was0 \in BOOLEAN
    /\ bus \in Seq(Event)
    /\ busy \in Busies
    /\ main \in Places
    /\ main \in Holding => param \in Values
    /\ lib \in Lib
    /\ printing \in [Thread -> [on : BOOLEAN, raced : BOOLEAN, text : Nat]]
    /\ spoilt \in BOOLEAN

Shows == Zones \cup {"NULL", "url", "r1", "r2", "junk"} \cup Nat \cup {Fill, Junk}

Entry == ({"all"} \X [Var -> Shows]) \cup (Var \X Shows)

ClientTyped == client \in [subscribed : BOOLEAN, value : [Var -> Shows], wire : Seq(Entry)]

-----------------------------------------------------------------------------
(* Types are kept. *)

\* One more entry.
LEMMA AppendFact ==
    ASSUME NEW S, NEW s \in Seq(S), NEW e \in S
    PROVE  /\ Append(s, e) \in Seq(S)
           /\ Len(Append(s, e)) = Len(s) + 1
           /\ Append(s, e)[Len(s) + 1] = e
           /\ \A i \in 1 .. Len(s) : Append(s, e)[i] = s[i]
           /\ Len(s) \in Nat
  OBVIOUS

\* One entry less.
LEMMA TailFact ==
    ASSUME NEW S, NEW s \in Seq(S), s # <<>>
    PROVE  /\ Tail(s) \in Seq(S)
           /\ Head(s) = s[1] /\ s[1] \in S
           /\ Len(s) \in Nat /\ Len(s) >= 1
           /\ Len(Tail(s)) = Len(s) - 1
           /\ \A i \in 1 .. Len(s) - 1 : Tail(s)[i] = s[i + 1]
  OBVIOUS

\* The step x is one of b.
Left(b, x) == \E i \in 1 .. Len(b) : b[i] = x

\* The steps that follow an assignment.
LEMMA RestTyped ==
    ASSUME NEW f, NEW v
    PROVE  /\ Rest(f, v) \in Busies
           /\ Rest(f, v) # <<>> => Head(Rest(f, v)) # "end"
           /\ Rest(f, v) # <<>> => Head(Rest(f, v)) \notin {"announce", "hide"}
           /\ f = "tune" /\ lib.tune_ready # v =>
                \/ Rest(f, v) = <<"test">>
                \/ Left(Rest(f, v), "PlaybackUrl")
  <1>1. Rest(f, v) \in
          { <<>>, <<"test">>, <<"PlaybackUrl">>, <<"begin", "end", "SystemIds", "PlaybackUrl">>,
            <<"begin", "end", "SystemIds">>, <<"rename", "TimeZone">>, <<"DataGatewayIPaddress">> }
    BY DEF Rest, Reprint
  <1>2. f = "tune" /\ lib.tune_ready # v =>
          Rest(f, v) \in { <<"test">>, <<"PlaybackUrl">>, <<"begin", "end", "SystemIds", "PlaybackUrl">> }
    BY DEF Rest, Reprint
  <1>3. /\ Left(<<"PlaybackUrl">>, "PlaybackUrl")
        /\ Left(<<"begin", "end", "SystemIds", "PlaybackUrl">>, "PlaybackUrl")
    BY DEF Left
  <1>4. /\ Head(<<"test">>) = "test" /\ Head(<<"PlaybackUrl">>) = "PlaybackUrl"
        /\ Head(<<"begin", "end", "SystemIds", "PlaybackUrl">>) = "begin"
        /\ Head(<<"begin", "end", "SystemIds">>) = "begin"
        /\ Head(<<"rename", "TimeZone">>) = "rename"
        /\ Head(<<"DataGatewayIPaddress">>) = "DataGatewayIPaddress"
    OBVIOUS
  <1>5. Rest(f, v) \in Busies
    BY Zenon, <1>1 DEF Busies
  <1>6. Rest(f, v) # <<>> => Head(Rest(f, v)) \in
          {"test", "PlaybackUrl", "begin", "rename", "DataGatewayIPaddress"}
    BY Zenon, <1>1, <1>4
  <1>7. Rest(f, v) # <<>> => Head(Rest(f, v)) \notin {"end", "announce", "hide"}
    BY <1>6
  <1>8. f = "tune" /\ lib.tune_ready # v => Rest(f, v) = <<"test">> \/ Left(Rest(f, v), "PlaybackUrl")
    BY Zenon, <1>2, <1>3
  <1> QED
    BY <1>5, <1>7, <1>8

\* A step of the handler less.
LEMMA BusyTail ==
    ASSUME NEW b \in Busies, b # <<>>
    PROVE  /\ Tail(b) \in Busies
           /\ Head(b) \in Steps
           /\ Tail(b) # <<>> => Head(Tail(b)) \notin {"announce", "hide"}
           /\ Head(b) \in {"test", "announce"} => \A x : Left(b, x) => x = Head(b)
           /\ Head(b) = "begin" => Tail(b) # <<>> /\ Head(Tail(b)) = "end"
           /\ Tail(b) # <<>> /\ Head(Tail(b)) = "end" => Head(b) = "begin"
           /\ Head(b) = "rename" => Tail(b) = <<"TimeZone">>
           /\ Head(b) \in {"begin", "end"} =>
                Left(Tail(b), "SystemIds") /\ ~Left(Tail(b), "begin")
  <1>1. CASE b \in { <<"test">>, <<"announce">>, <<"hide">> }
    <2>1. PICK w \in {"test", "announce", "hide"} : b = <<w>>
      BY <1>1
    <2>2. Tail(<<w>>) = <<>> /\ Head(<<w>>) = w
      OBVIOUS
    <2>3. \A x : Left(<<w>>, x) => x = w
      BY DEF Left
    <2> QED
      BY <2>1, <2>2, <2>3 DEF Busies, Steps
  <1>3. CASE b = <<"PlaybackUrl">>
    <2>1. Tail(<<"PlaybackUrl">>) = <<>> /\ Head(<<"PlaybackUrl">>) = "PlaybackUrl"
      OBVIOUS
    <2> QED
      BY <1>3, <2>1 DEF Busies, Steps, Var
  <1>5. CASE b = <<"begin", "end", "SystemIds", "PlaybackUrl">>
    <2>1. Tail(<<"begin", "end", "SystemIds", "PlaybackUrl">>) = <<"end", "SystemIds", "PlaybackUrl">> /\ Head(<<"begin", "end", "SystemIds", "PlaybackUrl">>) = "begin"
      OBVIOUS
    <2>2. <<"end", "SystemIds", "PlaybackUrl">> # <<>> /\ Head(<<"end", "SystemIds", "PlaybackUrl">>) = "end"
      OBVIOUS
    <2>3. Left(<<"end", "SystemIds", "PlaybackUrl">>, "SystemIds") /\ ~Left(<<"end", "SystemIds", "PlaybackUrl">>, "begin")
      BY DEF Left
    <2> QED
      BY <1>5, <2>1, <2>2, <2>3 DEF Busies, Steps, Var
  <1>6. CASE b = <<"end", "SystemIds", "PlaybackUrl">>
    <2>1. Tail(<<"end", "SystemIds", "PlaybackUrl">>) = <<"SystemIds", "PlaybackUrl">> /\ Head(<<"end", "SystemIds", "PlaybackUrl">>) = "end"
      OBVIOUS
    <2>2. <<"SystemIds", "PlaybackUrl">> # <<>> /\ Head(<<"SystemIds", "PlaybackUrl">>) = "SystemIds"
      OBVIOUS
    <2>3. Left(<<"SystemIds", "PlaybackUrl">>, "SystemIds") /\ ~Left(<<"SystemIds", "PlaybackUrl">>, "begin")
      BY DEF Left
    <2> QED
      BY <1>6, <2>1, <2>2, <2>3 DEF Busies, Steps, Var
  <1>7. CASE b = <<"SystemIds", "PlaybackUrl">>
    <2>1. Tail(<<"SystemIds", "PlaybackUrl">>) = <<"PlaybackUrl">> /\ Head(<<"SystemIds", "PlaybackUrl">>) = "SystemIds"
      OBVIOUS
    <2>2. <<"PlaybackUrl">> # <<>> /\ Head(<<"PlaybackUrl">>) = "PlaybackUrl"
      OBVIOUS
    <2> QED
      BY <1>7, <2>1, <2>2 DEF Busies, Steps, Var
  <1>8. CASE b = <<"begin", "end", "SystemIds">>
    <2>1. Tail(<<"begin", "end", "SystemIds">>) = <<"end", "SystemIds">> /\ Head(<<"begin", "end", "SystemIds">>) = "begin"
      OBVIOUS
    <2>2. <<"end", "SystemIds">> # <<>> /\ Head(<<"end", "SystemIds">>) = "end"
      OBVIOUS
    <2>3. Left(<<"end", "SystemIds">>, "SystemIds") /\ ~Left(<<"end", "SystemIds">>, "begin")
      BY DEF Left
    <2> QED
      BY <1>8, <2>1, <2>2, <2>3 DEF Busies, Steps, Var
  <1>9. CASE b = <<"end", "SystemIds">>
    <2>1. Tail(<<"end", "SystemIds">>) = <<"SystemIds">> /\ Head(<<"end", "SystemIds">>) = "end"
      OBVIOUS
    <2>2. <<"SystemIds">> # <<>> /\ Head(<<"SystemIds">>) = "SystemIds"
      OBVIOUS
    <2>3. Left(<<"SystemIds">>, "SystemIds") /\ ~Left(<<"SystemIds">>, "begin")
      BY DEF Left
    <2> QED
      BY <1>9, <2>1, <2>2, <2>3 DEF Busies, Steps, Var
  <1>10. CASE b = <<"SystemIds">>
    <2>1. Tail(<<"SystemIds">>) = <<>> /\ Head(<<"SystemIds">>) = "SystemIds"
      OBVIOUS
    <2> QED
      BY <1>10, <2>1 DEF Busies, Steps, Var
  <1>11. CASE b = <<"rename", "TimeZone">>
    <2>1. Tail(<<"rename", "TimeZone">>) = <<"TimeZone">> /\ Head(<<"rename", "TimeZone">>) = "rename"
      OBVIOUS
    <2>2. <<"TimeZone">> # <<>> /\ Head(<<"TimeZone">>) = "TimeZone"
      OBVIOUS
    <2> QED
      BY <1>11, <2>1, <2>2 DEF Busies, Steps, Var
  <1>12. CASE b = <<"TimeZone">>
    <2>1. Tail(<<"TimeZone">>) = <<>> /\ Head(<<"TimeZone">>) = "TimeZone"
      OBVIOUS
    <2> QED
      BY <1>12, <2>1 DEF Busies, Steps, Var
  <1>13. CASE b = <<"DataGatewayIPaddress">>
    <2>1. Tail(<<"DataGatewayIPaddress">>) = <<>> /\ Head(<<"DataGatewayIPaddress">>) = "DataGatewayIPaddress"
      OBVIOUS
    <2> QED
      BY <1>13, <2>1 DEF Busies, Steps, Var
  <1> QED
    BY Zenon, <1>1, <1>3, <1>5, <1>6, <1>7, <1>8, <1>9, <1>10, <1>11, <1>12, <1>13 DEF Busies

\* A step of the handler.
LEMMA BusyNext ==
    ASSUME busy \in Busies, busy # <<>>
    PROVE  /\ Following \in Busies
           /\ Head(busy) \in Steps
           /\ Following # <<>> /\ Head(Following) \in {"announce", "hide"} => Head(busy) = "test"
           /\ Head(busy) = "begin" => Following # <<>> /\ Head(Following) = "end"
           /\ Following # <<>> /\ Head(Following) = "end" => Head(busy) = "begin"
           /\ Head(busy) = "rename" => Following = <<"TimeZone">>
           /\ Head(busy) \in {"begin", "end"} =>
                Left(Following, "SystemIds") /\ ~Left(Following, "begin")
           /\ Head(busy) = "announce" => Left(Following, "PlaybackUrl")
  <1>1. CASE Head(busy) = "test"
    <2>1. Following \in { <<"announce">>, <<"hide">> }
      BY <1>1 DEF Following
    <2>2. Head(<<"announce">>) = "announce" /\ Head(<<"hide">>) = "hide"
      OBVIOUS
    <2>3. Following \in Busies
      BY Zenon, <2>1 DEF Busies
    <2>4. Head(Following) \in {"announce", "hide"}
      BY Zenon, <2>1, <2>2
    <2> QED
      BY <1>1, <2>3, <2>4 DEF Steps
  <1>2. CASE Head(busy) = "announce"
    <2>1. Following \in { <<"PlaybackUrl">>, <<"begin", "end", "SystemIds", "PlaybackUrl">> }
      BY <1>2 DEF Following, Reprint
    <2>2. /\ Head(<<"PlaybackUrl">>) = "PlaybackUrl"
          /\ Head(<<"begin", "end", "SystemIds", "PlaybackUrl">>) = "begin"
      OBVIOUS
    <2>3. Following \in Busies
      BY Zenon, <2>1 DEF Busies
    <2>4. Head(Following) \in {"PlaybackUrl", "begin"}
      BY Zenon, <2>1, <2>2
    <2>5. /\ Left(<<"PlaybackUrl">>, "PlaybackUrl")
          /\ Left(<<"begin", "end", "SystemIds", "PlaybackUrl">>, "PlaybackUrl")
      BY DEF Left
    <2>6. Left(Following, "PlaybackUrl")
      BY Zenon, <2>1, <2>5
    <2> QED
      BY <1>2, <2>3, <2>4, <2>6 DEF Steps
  <1>3. CASE Head(busy) \notin {"test", "announce"}
    <2>1. Following = Tail(busy)
      BY <1>3 DEF Following
    <2> QED
      BY Zenon, <1>3, <2>1, BusyTail
  <1> QED
    BY <1>1, <1>2, <1>3

\* What an assignment leaves.
LEMMA AssignedTyped ==
    ASSUME NEW l \in Lib, NEW f, NEW v, <<f, v>> \in Event
    PROVE  Assigned(l, f, v) \in Lib
  <1>1. ASSUME f = "tz" PROVE v \in Zone /\ javaTZ(v) \in Zones
    BY <1>1, ConfAssumption DEF Event, javaTZ, Zones
  <1> QED
    BY <1>1 DEF Assigned, Event, Lib

\* The initial states are typed.
LEMMA TypedInit == Init => Typed
  <1> SUFFICES ASSUME Init PROVE Typed
    OBVIOUS
  <1>1. /\ conf \in Conf /\ sys \in Values /\ changes \in Nat /\ spoilt \in BOOLEAN
        /\ bus \in Seq(Event) /\ busy \in Busies
        /\ main \in Places /\ main \notin Holding
    <2>1. conf \in Conf /\ sys \in Sys /\ bus = <<>> /\ busy = <<>> /\ main = "register"
          /\ changes = 0 /\ spoilt = FALSE
      BY Zenon DEF Init
    <2>2. sys \in Values
      BY <2>1, ValuesAssumption DEF Values
    <2>3. bus \in Seq(Event) /\ busy \in Busies
      BY <2>1 DEF Busies
    <2> QED
      BY <2>1, <2>2, <2>3 DEF Places, Holding
  <1>2. diag \in Nat
    BY DEF Init
  <1>3. was0 \in BOOLEAN
    <2>1. was0 = (sys.dst = 0)
      BY DEF Init
    <2> QED
      BY Zenon, <2>1
  <1>4. lib \in Lib
    BY DEF Init, Lib, Zones
  <1>5. printing \in [Thread -> [on : BOOLEAN, raced : BOOLEAN, text : Nat]]
    BY DEF Init, Idle
  <1> QED
    BY Zenon, <1>1, <1>2, <1>3, <1>4, <1>5 DEF Typed

\* The managers.
LEMMA TypedManagers ==
    ASSUME Typed, Managers
    PROVE  Typed'
  <1>1. sys \in Values /\ bus \in Seq(Event) /\ changes \in Nat /\ diag \in Nat
    BY DEF Typed
  <1>2. ASSUME NEW f, NEW v, Publish(f, v), <<f, v>> \in Event, [sys EXCEPT ![f] = v] \in Values
        PROVE Typed'
    <2>1. bus' \in Seq(Event) /\ sys' \in Values /\ changes' \in Nat
      BY <1>1, <1>2, AppendFact DEF Publish
    <2>2. was0' \in BOOLEAN
      BY <1>2 DEF Publish, Typed
    <2> QED
      BY Zenon, <1>2, <2>1, <2>2 DEF Publish, Typed, ids
  <1>3. ASSUME NewTune PROVE Typed'
    BY <1>1, <1>2, <1>3 DEF NewTune, Event, Values
  <1>4. ASSUME NewId PROVE Typed'
    <2>1. PICK v \in {changes + 2, 0} : Publish("id", v)
      BY <1>4 DEF NewId
    <2>2. v \in Nat
      BY <1>1
    <2> QED
      BY <1>1, <1>2, <2>1, <2>2 DEF Event, Values
  <1>5. ASSUME NewZone PROVE Typed'
    BY <1>1, <1>2, <1>5 DEF NewZone, Event, Values
  <1>6. ASSUME NewDst PROVE Typed'
    BY <1>1, <1>2, <1>6 DEF NewDst, Event, Values
  <1>7. ASSUME NewSerial PROVE Typed'
    BY <1>1, <1>2, <1>7 DEF NewSerial, Event, Values
  <1>8. ASSUME NewRoute PROVE Typed'
    BY <1>1, <1>2, <1>8 DEF NewRoute, Event, Values
  <1>9. ASSUME NewFile PROVE Typed'
    <2>1. changes' \in Nat /\ diag' \in Nat
      BY <1>1, <1>9 DEF NewFile
    <2> QED
      BY Zenon, <1>9, <2>1 DEF NewFile, Typed, ids
  <1> QED
    BY <1>3, <1>4, <1>5, <1>6, <1>7, <1>8, <1>9 DEF Managers

\* Printing keeps the types.
LEMMA TypedPrinting ==
    ASSUME Typed, NEW t \in Thread, BeginPrint(t) \/ EndPrint(t)
    PROVE  /\ lib' \in Lib
           /\ printing' \in [Thread -> [on : BOOLEAN, raced : BOOLEAN, text : Nat]]
           /\ spoilt' \in BOOLEAN
  <1>1. /\ printing \in [Thread -> [on : BOOLEAN, raced : BOOLEAN, text : Nat]]
        /\ lib \in Lib /\ spoilt \in BOOLEAN /\ diag \in Nat
    BY DEF Typed
  <1>2. Other(t) \in Thread /\ Other(t) # t /\ Printed \in Nat
    BY <1>1 DEF Thread, Other, Printed, Lib
  <1>3. CASE BeginPrint(t)
    BY <1>1, <1>2, <1>3 DEF BeginPrint, Lib
  <1>4. CASE EndPrint(t)
    <2>1. PICK text \in {printing[t].text} \cup (IF printing[t].raced THEN {Junk} ELSE {}) :
            lib' = [lib EXCEPT !.systemids = text]
      BY <1>4 DEF EndPrint
    <2>2. text \in Nat \cup {Fill, Junk}
      BY <1>1
    <2>3. lib' \in Lib
      BY <1>1, <2>1, <2>2 DEF Lib
    <2>4. spoilt' = IF printing[t].raced THEN TRUE ELSE spoilt /\ t = "main"
      BY <1>4 DEF EndPrint
    <2>5. spoilt' \in BOOLEAN
      <3>1. CASE printing[t].raced
        BY <3>1, <2>4
      <3>2. CASE ~printing[t].raced
        BY <3>2, <2>4
      <3> QED
        BY <3>1, <3>2
    <2>6. printing' \in [Thread -> [on : BOOLEAN, raced : BOOLEAN, text : Nat]]
      BY <1>1, <1>4 DEF EndPrint, Idle
    <2> QED
      BY <2>3, <2>5, <2>6
  <1> QED
    BY <1>3, <1>4

\* The bus thread.
LEMMA TypedBus ==
    ASSUME Typed, BusThread
    PROVE  Typed'
  <1>1. CASE Handle
    <2> DEFINE f == Head(bus)[1]
               v == Head(bus)[2]
    <2>1. bus \in Seq(Event) /\ bus # <<>> /\ lib \in Lib
      BY <1>1 DEF Handle, Typed
    <2>2. bus' \in Seq(Event) /\ <<f, v>> \in Event
      <3>1. Head(bus) \in Event /\ bus' = Tail(bus) /\ Tail(bus) \in Seq(Event)
        BY <1>1, <2>1, TailFact DEF Handle
      <3> QED
        BY <3>1 DEF Event
    <2>3. busy' = Rest(f, v) /\ lib' = Assigned(lib, f, v)
      BY <1>1 DEF Handle
    <2>4. busy' \in Busies /\ lib' \in Lib
      BY <2>1, <2>2, <2>3, RestTyped, AssignedTyped
    <2> QED
      BY Zenon, <1>1, <2>2, <2>4 DEF Handle, Typed, env, ids
  <1>2. CASE HandleStep
    <2>1. busy' \in Busies /\ Head(busy) \in Steps
      BY <1>2, BusyNext DEF HandleStep, Typed
    <2>2. UNCHANGED <<env, stale, bus, main, param, xml>>
      BY <1>2 DEF HandleStep
    <2>3. /\ lib' \in Lib /\ spoilt' \in BOOLEAN
          /\ printing' \in [Thread -> [on : BOOLEAN, raced : BOOLEAN, text : Nat]]
      <3>1. CASE Head(busy) \in {"test", "announce", "hide"}
        <4>1. UNCHANGED <<lib, ids>>
          BY <3>1, <1>2 DEF HandleStep, Var
        <4> QED
          BY <4>1 DEF ids, Typed
      <3>2. CASE Head(busy) = "begin"
        <4>1. /\ Head(busy) # "test" /\ Head(busy) # "announce" /\ Head(busy) # "hide"
              /\ Head(busy) # "end" /\ Head(busy) # "rename" /\ Head(busy) \notin Var
          BY <3>2 DEF Var
        <4>2. BeginPrint("bus")
          BY Zenon, <1>2, <4>1 DEF HandleStep
        <4>3. "bus" \in Thread
          BY DEF Thread
        <4> QED
          BY <4>2, <4>3, TypedPrinting
      <3>3. CASE Head(busy) = "end"
        <4>1. /\ Head(busy) # "test" /\ Head(busy) # "announce" /\ Head(busy) # "hide"
              /\ Head(busy) # "begin" /\ Head(busy) # "rename" /\ Head(busy) \notin Var
          BY <3>3 DEF Var
        <4>2. EndPrint("bus")
          BY Zenon, <1>2, <4>1 DEF HandleStep
        <4>3. "bus" \in Thread
          BY DEF Thread
        <4> QED
          BY <4>2, <4>3, TypedPrinting
      <3>4. CASE Head(busy) = "rename"
        <4>1. Renamed(lib.dsgtimezone, lib.dstOffset) \in Zones /\ lib \in Lib
          BY DEF Renamed, Zones, Typed, Lib
        <4> QED
          BY <3>4, <1>2, <4>1 DEF HandleStep, ids, Typed, Lib
      <3>5. CASE Head(busy) \in Var
        <4>1. spoilt' = (spoilt \/ (Head(busy) = "SystemIds" /\ printing["main"].on))
          BY <3>5, <1>2 DEF HandleStep, Var
        <4>2. spoilt' \in BOOLEAN
          BY Zenon, <4>1
        <4> QED
          BY <3>5, <1>2, <4>2 DEF HandleStep, Var, Typed
      <3> QED
        BY <2>1, <3>1, <3>2, <3>3, <3>4, <3>5 DEF Steps
    <2> QED
      BY Zenon, <2>1, <2>2, <2>3 DEF Typed, env
  <1> QED
    BY <1>1, <1>2 DEF BusThread

\* A step of the main thread.
LEMMA TypedAt ==
    ASSUME Typed, NEW from, NEW to, At(from, to), to \in Places,
           to \in Holding => param' \in Values, lib' \in Lib,
           printing' \in [Thread -> [on : BOOLEAN, raced : BOOLEAN, text : Nat]],
           spoilt' \in BOOLEAN
    PROVE  Typed'
  BY Zenon DEF Typed, At, env

\* One that does not print.
LEMMA TypedQuiet ==
    ASSUME Typed, NEW from, NEW to, At(from, to), to \in Places,
           to \in Holding => param' \in Values, lib' \in Lib, UNCHANGED ids
    PROVE  Typed'
  <1>1. /\ printing' \in [Thread -> [on : BOOLEAN, raced : BOOLEAN, text : Nat]]
        /\ spoilt' \in BOOLEAN
    BY Zenon DEF Typed, ids
  <1> QED
    BY Zenon, <1>1, TypedAt

\* One that prints.
LEMMA TypedPrints ==
    ASSUME Typed, NEW from, NEW to, At(from, to), to \in Places, to \notin Holding,
           BeginPrint("main") \/ EndPrint("main")
    PROVE  Typed'
  <1>1. "main" \in Thread
    BY DEF Thread
  <1> QED
    BY <1>1, TypedPrinting, TypedAt

\* The start, the answers and the subscription.
LEMMA TypedMain ==
    ASSUME Typed, Start \/ GetSystemIds \/ Answer \/ GetTimeZone \/ Subscribe
    PROVE  Typed'
  <1>1. lib \in Lib /\ sys \in Values /\ conf.client \in BOOLEAN
    BY ConfAssumption DEF Typed
  <1>2. main \in Holding => param \in Values
    BY DEF Typed
  <1>3. CASE Register
    BY <1>1, <1>3, TypedQuiet DEF Register, Same, Places, Holding
  <1>4. CASE Call
    <2>1. param' \in Values /\ UNCHANGED <<lib, ids>> /\ At("call", "assign_id")
      BY <1>1, <1>4, ValuesAssumption DEF Call, Values
    <2> QED
      BY <1>1, <2>1, TypedQuiet DEF Places, ids
  <1>5. CASE AssignId
    <2>1. At("assign_id", "assign_tz") /\ UNCHANGED <<param, ids>> /\ param \in Values
      BY <1>2, <1>5 DEF AssignId, AssignedAs, At, Holding
    <2>2. lib' \in Lib
      BY <1>1, <2>1, <1>5 DEF AssignId, AssignedAs, Assigned, Values, Lib
    <2> QED
      BY <2>1, <2>2, TypedQuiet DEF Places
  <1>6. CASE AssignTz
    <2>1. At("assign_tz", "assign_dst") /\ UNCHANGED <<param, ids>> /\ param \in Values
      BY <1>2, <1>6 DEF AssignTz, AssignedAs, At, Holding
    <2>2. param.tz # None => Renamed(javaTZ(param.tz), lib.dstOffset) \in Zones
      BY <2>1, ConfAssumption DEF Values, Renamed, javaTZ, Zones
    <2>3. lib' \in Lib
      BY <1>1, <2>2, <1>6 DEF AssignTz, AssignedAs, Lib
    <2> QED
      BY <2>1, <2>3, TypedQuiet DEF Places
  <1>7. CASE AssignDst
    <2>1. At("assign_dst", "assign_tune") /\ UNCHANGED <<param, ids>> /\ param \in Values
      BY <1>2, <1>7 DEF AssignDst, AssignedAs, At, Holding
    <2>2. Renamed(lib.dsgtimezone, param.dst) \in Zones
      BY <1>1 DEF Lib, Renamed, Zones
    <2>3. lib' \in Lib
      BY <1>1, <2>1, <2>2, <1>7 DEF AssignDst, AssignedAs, Values, Lib
    <2> QED
      BY <2>1, <2>3, TypedQuiet DEF Places
  <1>8. CASE AssignTune
    <2>1. At("assign_tune", "assign_serial") /\ UNCHANGED <<param, ids>> /\ param \in Values
      BY <1>2, <1>8 DEF AssignTune, At, Holding
    <2>2. lib' \in Lib
      BY <1>1, <2>1, <1>8 DEF AssignTune, Assigned, Values, Lib
    <2> QED
      BY <2>1, <2>2, TypedQuiet DEF Places
  <1>9. CASE AssignSerial
    <2>1. At("assign_serial", "print") /\ UNCHANGED ids /\ param \in Values
      BY <1>2, <1>9 DEF AssignSerial, At, Holding
    <2>2. lib' \in Lib
      BY <1>1, <2>1, <1>9 DEF AssignSerial, Assigned, Values, Lib
    <2> QED
      BY <2>1, <2>2, TypedQuiet DEF Places, Holding
  <1>10. CASE PrintUrls \/ EndUrls
    BY <1>10, TypedPrints DEF PrintUrls, EndUrls, Places, Holding
  <1>11. CASE SerialNumber
    BY <1>1, <1>11, TypedQuiet DEF SerialNumber, getserialnum, Places, Holding, Lib
  <1>12. CASE CallRoute
    <2>1. param' \in Values
      BY <1>1, <1>12 DEF CallRoute, Values
    <2> QED
      BY <1>1, <1>12, <2>1, TypedQuiet DEF CallRoute, Places, ids
  <1>13. CASE AssignRoute
    <2>1. At("assign_route", "xml") /\ UNCHANGED ids /\ param \in Values
      BY <1>2, <1>13 DEF AssignRoute, AssignedAs, At, Holding
    <2>2. lib' \in Lib
      BY <1>1, <2>1, <1>13 DEF AssignRoute, AssignedAs, Assigned, Values, Lib
    <2> QED
      BY <2>1, <2>2, TypedQuiet DEF Places, Holding
  <1>14. CASE UpdateXml
    BY <1>1, <1>14, TypedQuiet DEF UpdateXml, Places, Holding
  <1>15. CASE RootDevice
    BY <1>1, <1>15, TypedQuiet DEF RootDevice, Places, Holding
  <1>16. CASE TuneReady
    BY <1>1, <1>16, TypedQuiet DEF TuneReady, Places, Holding, Lib
  <1>17. CASE PrefixFile
    BY <1>1, <1>17, TypedQuiet DEF PrefixFile, Same, Places, Holding
  <1>18. CASE Prefix
    BY <1>1, <1>18, TypedQuiet DEF Prefix, Places, Holding, Lib
  <1>19. CASE Announce
    BY <1>1, <1>19, TypedQuiet DEF Announce, Places, Holding
  <1>20. CASE Connect
    BY <1>1, <1>20, TypedQuiet DEF Connect, Same, Places, Holding
  <1>21. CASE GetSystemIds \/ Answer
    BY <1>21, TypedPrints DEF GetSystemIds, Answer, Places, Holding
  <1>22. CASE GetTimeZone
    BY <1>1, <1>22, TypedQuiet DEF GetTimeZone, DsgZone, Places, Holding, Lib, Zones
  <1>24. CASE Fail
    BY <1>1, <1>24, TypedQuiet DEF Fail, Same, Places, Holding
  <1>23. CASE Subscribe
    BY <1>1, <1>23, TypedQuiet DEF Subscribe, DsgZone, Places, Holding, Lib, Zones
  <1> QED
    BY <1>3, <1>4, <1>5, <1>6, <1>7, <1>8, <1>9, <1>10, <1>11, <1>12, <1>13, <1>14, <1>15,
       <1>16, <1>17, <1>18, <1>19, <1>20, <1>21, <1>22, <1>23, <1>24 DEF Start

\* Every step keeps the types.
LEMMA TypedNext == Typed /\ [Next]_vars => Typed'
  <1> SUFFICES ASSUME Typed, [Next]_vars PROVE Typed'
    OBVIOUS
  <1>1. CASE Deliver
    BY Zenon, <1>1 DEF Deliver, Typed, env, ids
  <1>2. CASE UNCHANGED vars
    BY Zenon, <1>2 DEF vars, Typed, env, ids
  <1> QED
    BY <1>1, <1>2, TypedManagers, TypedBus, TypedMain DEF Next

-----------------------------------------------------------------------------
(* The announcement. *)

HasDevice == {"tune", "prefix_file", "prefix", "publish", "connect", "up", "answer"}
Announced == {"connect", "up", "answer"}

Announcing == busy # <<>> /\ Head(busy) = "announce"

\* Once the device is announced, it is announced as the tuner says, or the handler
\* is about to see to it: it has yet to test, or has decided as the tuner says.
DeviceInv ==
    /\ main \in HasDevice => dev \in {"hidden", "announced"}
    /\ conf.rmfCrshSupp /\ main \in Announced /\ "dev" \notin stale =>
         \/ Undecided
         \/ Announcing /\ lib.tune_ready
         \/ Hiding /\ ~lib.tune_ready
         \/ ~Announcing /\ ~Hiding /\ (dev = "announced") = lib.tune_ready

\* Most steps touch nothing of it.
LEMMA DeviceSame ==
    ASSUME DeviceInv, UNCHANGED <<conf, dev, busy>>, "dev" \in stale => "dev" \in stale',
           main' \in HasDevice => main \in HasDevice,
           main' \in Announced => main \in Announced /\ lib'.tune_ready = lib.tune_ready
    PROVE  DeviceInv'
  BY DEF DeviceInv, Undecided, Announcing, Hiding

\* An event of the tuner, and any other.
LEMMA DeviceHandle ==
    ASSUME Typed, DeviceInv, Handle
    PROVE  DeviceInv'
  <1> DEFINE f == Head(bus)[1]
             v == Head(bus)[2]
  <1>1. /\ busy = <<>> /\ busy' = Rest(f, v) /\ lib' = Assigned(lib, f, v)
        /\ stale' = StaleAfter(f, v) /\ UNCHANGED <<conf, main, dev>>
    BY DEF Handle, env
  <1>2. <<f, v>> \in Event /\ lib \in Lib
    <2>1. Head(bus) \in Event
      BY TailFact DEF Typed, Handle
    <2> QED
      BY <2>1 DEF Event, Typed
  <1> HIDE DEF f, v
  <1>9. ~Announcing' /\ ~Hiding' /\ ~Undecided /\ ~Announcing /\ ~Hiding
    BY <1>1, RestTyped DEF Announcing, Hiding, Undecided
  <1>3. f # "tune" => lib'.tune_ready = lib.tune_ready
    BY <1>1, <1>2 DEF Assigned, Event, Lib
  <1>4. f = "tune" => lib'.tune_ready = v /\ v \in BOOLEAN /\ lib.tune_ready \in BOOLEAN
    BY <1>1, <1>2 DEF Assigned, Event, Lib
  <1>5. CASE conf.rmfCrshSupp /\ f = "tune" /\ v # lib.tune_ready
    <2>1. Rest(f, v) = <<"test">>
      BY <1>5 DEF Rest
    <2>2. busy' # <<>> /\ Head(busy') = "test"
      BY <1>1, <2>1
    <2> QED
      BY <1>1, <2>2 DEF DeviceInv, Undecided
  <1>6. CASE f # "tune"
    <2>1. "dev" \in stale => "dev" \in stale'
      BY <1>1, <1>2, <1>6 DEF StaleAfter, Event
    <2> QED
      BY <1>1, <1>3, <1>6, <1>9, <2>1 DEF DeviceInv
  <1>7. CASE f = "tune" /\ v = lib.tune_ready
    <2>1. Rest(f, v) = <<>>
      BY <1>7 DEF Rest
    <2>2. "dev" \in stale => "dev" \in stale'
      BY <1>1, <1>7, <2>1 DEF StaleAfter
    <2> QED
      BY <1>1, <1>4, <1>7, <1>9, <2>2 DEF DeviceInv
  <1>8. CASE ~conf.rmfCrshSupp
    BY <1>1, <1>8 DEF DeviceInv
  <1> QED
    BY <1>5, <1>6, <1>7, <1>8

\* The handler's steps.
LEMMA DeviceHandleStep ==
    ASSUME Typed, DeviceInv, HandleStep
    PROVE  DeviceInv'
  <1>1. /\ UNCHANGED <<conf, stale, main>> /\ busy # <<>> /\ busy' = Following
        /\ busy \in Busies /\ lib.tune_ready \in BOOLEAN
    BY DEF HandleStep, env, Typed, Lib
  <1>2. CASE Head(busy) = "test"
    <2>1. UNCHANGED <<dev, lib>>
      BY <1>2 DEF HandleStep, Var
    <2>2. Head(<<"announce">>) = "announce" /\ Head(<<"hide">>) = "hide"
      OBVIOUS
    <2>3. /\ lib.tune_ready => Announcing'
          /\ ~lib.tune_ready => Hiding'
      BY <1>1, <1>2, <2>2 DEF Following, Announcing, Hiding
    <2> QED
      BY <1>1, <2>1, <2>3 DEF DeviceInv
  <1>3. CASE Head(busy) # "test"
    <2>1. ~Announcing' /\ ~Hiding' /\ ~Undecided
      BY <1>1, <1>3, BusyNext DEF Announcing, Hiding, Undecided
    <2>2. CASE Head(busy) = "announce"
      <3>1. dev' = (IF dev = "none" THEN dev ELSE "announced") /\ UNCHANGED lib
        BY <2>2 DEF HandleStep, SetAvailable, Var
      <3>2. Announcing /\ ~Hiding
        BY <1>1, <2>2 DEF Announcing, Hiding
      <3> QED
        BY <1>1, <2>1, <3>1, <3>2 DEF DeviceInv, HasDevice, Announced
    <2>3. CASE Head(busy) = "hide"
      <3>1. dev' = (IF dev = "none" THEN dev ELSE "hidden") /\ UNCHANGED lib
        BY <2>3 DEF HandleStep, SetAvailable, Var
      <3>2. Hiding /\ ~Announcing
        BY <1>1, <2>3 DEF Announcing, Hiding
      <3> QED
        BY <1>1, <2>1, <3>1, <3>2 DEF DeviceInv, HasDevice, Announced
    <2>4. CASE Head(busy) \notin {"announce", "hide"}
      <3>1. UNCHANGED dev /\ lib'.tune_ready = lib.tune_ready
        BY <1>3, <2>4 DEF HandleStep, BeginPrint, EndPrint, Typed, Lib
      <3>2. ~Hiding /\ ~Announcing
        BY <2>4 DEF Announcing, Hiding
      <3> QED
        BY <1>1, <2>1, <3>1, <3>2 DEF DeviceInv
    <2> QED
      BY <2>2, <2>3, <2>4
  <1> QED
    BY <1>2, <1>3

\* A step of the main loop keeps the announcement in step with the tuner.
LEMMA DeviceMain ==
    ASSUME Typed, DeviceInv, Start \/ GetSystemIds \/ Answer \/ GetTimeZone \/ Subscribe
    PROVE  DeviceInv'
  <1>1. lib \in Lib
    BY DEF Typed
  <1>2. CASE RootDevice
    <2>1. UNCHANGED <<conf, busy, lib>> /\ main' \in {"publish", "tune"} /\ dev' = "hidden"
      BY <1>2 DEF RootDevice, At, env
    <2> QED
      BY <2>1 DEF DeviceInv, Announced
  <1>3. CASE Announce
    <2>1. /\ UNCHANGED <<conf, busy, lib>> /\ main = "publish" /\ main' = "connect"
          /\ dev' = IF dev = "none" THEN dev ELSE "announced"
          /\ stale' = IF Undecided \/ lib.tune_ready # Hiding THEN stale
                      ELSE stale \cup {"dev"}
      BY <1>3 DEF Announce, At, env, SetAvailable
    <2>2. lib.tune_ready \in BOOLEAN
      BY <1>1 DEF Lib
    <2>3. dev' = "announced"
      BY <2>1 DEF DeviceInv, HasDevice
    <2>4. (Undecided' <=> Undecided) /\ (Announcing' <=> Announcing) /\ (Hiding' <=> Hiding)
      BY <2>1 DEF Undecided, Announcing, Hiding
    <2>5. Hiding \in BOOLEAN /\ (Hiding => ~Announcing)
      BY DEF Hiding, Announcing
    <2> QED
      BY <2>1, <2>2, <2>3, <2>4, <2>5 DEF DeviceInv
  <1>4. CASE Call \/ CallRoute \/ UpdateXml \/ Register
    BY <1>4, DeviceSame
    DEF Call, CallRoute, UpdateXml, Register, Same, At, env, HasDevice, Announced
  <1>5. CASE AssignId \/ AssignTz \/ AssignDst \/ AssignTune \/ AssignSerial \/ AssignRoute
    BY <1>5, DeviceSame
    DEF AssignId, AssignTz, AssignDst, AssignTune, AssignSerial, AssignRoute, AssignedAs,
        At, env, HasDevice, Announced
  <1>6. CASE PrintUrls \/ EndUrls \/ SerialNumber
    BY <1>6, DeviceSame DEF PrintUrls, EndUrls, SerialNumber, At, env, HasDevice, Announced
  <1>7. CASE TuneReady \/ PrefixFile \/ Prefix
    BY <1>7, DeviceSame DEF TuneReady, PrefixFile, Prefix, Same, At, env, HasDevice, Announced
  <1>8. CASE Connect \/ Fail
    BY <1>8, DeviceSame DEF Connect, Fail, Same, At, env, HasDevice, Announced
  <1>9. CASE GetSystemIds \/ Answer
    BY <1>1, <1>9, DeviceSame
    DEF GetSystemIds, Answer, BeginPrint, EndPrint, At, env, HasDevice, Announced, Lib
  <1>10. CASE GetTimeZone \/ Subscribe
    BY <1>1, <1>10, DeviceSame
    DEF GetTimeZone, Subscribe, DsgZone, At, env, HasDevice, Announced, Lib
  <1> QED
    BY <1>2, <1>3, <1>4, <1>5, <1>6, <1>7, <1>8, <1>9, <1>10 DEF Start

\* Where the device is withdrawn while there is no tuner, it is announced exactly
\* while there is one (rmfCrshSupp), whatever comes in between the handler's test
\* and what it does (_sysEventHandler), and from the next change of the tuner on also
\* where the announcement of the start crossed the handler.
THEOREM AvailableAlways == Spec => []AvailableFollowsTuner
  <1>1. Init => DeviceInv
    BY DEF Init, DeviceInv, HasDevice, Announced
  <1>2. Typed /\ DeviceInv /\ [Next]_vars => DeviceInv'
    <2> SUFFICES ASSUME Typed, DeviceInv, [Next]_vars PROVE DeviceInv'
      OBVIOUS
    <2>1. ASSUME NEW f, NEW v, Publish(f, v) PROVE DeviceInv'
      BY <2>1, DeviceSame DEF Publish
    <2>2. CASE Managers
      BY <2>1, <2>2, DeviceSame
      DEF Managers, NewTune, NewId, NewZone, NewDst, NewSerial, NewRoute, NewFile
    <2>3. CASE Deliver
      BY <2>3, DeviceSame DEF Deliver, env
    <2>4. CASE UNCHANGED vars
      BY <2>4, DeviceSame DEF vars, env
    <2> QED
      BY <2>2, <2>3, <2>4, DeviceHandle, DeviceHandleStep, DeviceMain DEF Next, BusThread
  <1>3. DeviceInv => AvailableFollowsTuner
    BY DEF DeviceInv, AvailableFollowsTuner, Started, Settled, Announced, Undecided, Announcing,
           Hiding
  <1> QED
    BY <1>1, <1>2, <1>3, TypedInit, TypedNext, PTL DEF Spec

-----------------------------------------------------------------------------
(* The serial number. *)

SerialInv ==
    ~conf.client =>
        /\ main \notin {"route", "assign_route"}
        /\ main \in {"register", "call", "print", "printed", "serial", "xml"} \cup Holding
             => xml = None
        /\ main = "xml" /\ "xml" \notin stale => lib.serial_num = "serial"
        /\ xml # None /\ "xml" \notin stale => xml = "serial"

\* Most steps leave the number alone, and are not those from the wait to updatexmldata.
LEMMA SerialSame ==
    ASSUME SerialInv, UNCHANGED <<conf, xml>>, "xml" \in stale => "xml" \in stale',
           main' \in {"route", "assign_route"} => main \in {"route", "assign_route"},
           main' \in {"register", "call", "print", "printed", "serial", "xml"} \cup Holding
             => main \in {"register", "call", "print", "printed", "serial", "xml"} \cup Holding,
           ~conf.client /\ main' = "xml" =>
             main = "xml" /\ lib'.serial_num = lib.serial_num
    PROVE  SerialInv'
  BY DEF SerialInv

\* The handlers assign a serial number while updatexmldata may still read the string:
\* then it is stale.
LEMMA SerialBus ==
    ASSUME Typed, SerialInv, BusThread
    PROVE  SerialInv'
  <1>1. CASE Handle
    <2> DEFINE f == Head(bus)[1]
               v == Head(bus)[2]
    <2>1. /\ lib' = Assigned(lib, f, v) /\ stale' = StaleAfter(f, v)
          /\ UNCHANGED <<conf, main, xml>>
      BY <1>1 DEF Handle, env
    <2>2. <<f, v>> \in Event /\ lib \in Lib
      <3>1. Head(bus) \in Event
        BY <1>1, TailFact DEF Typed, Handle
      <3> QED
        BY <3>1 DEF Event, Typed
    <2> HIDE DEF f, v
    <2>3. "xml" \in stale => "xml" \in stale'
      BY <2>1, <2>2 DEF StaleAfter, Event
    <2>4. CASE f = "serial" /\ main = "xml"
      <3>1. "xml" \in stale'
        BY <2>1, <2>4 DEF StaleAfter
      <3> QED
        BY <2>1, <2>4, <3>1 DEF SerialInv
    <2>5. CASE f # "serial"
      <3>1. lib'.serial_num = lib.serial_num
        BY <2>1, <2>2, <2>5 DEF Assigned, Event, Lib
      <3> QED
        BY <2>1, <2>3, <3>1, SerialSame
    <2>6. CASE main # "xml"
      BY <2>1, <2>3, <2>6, SerialSame
    <2> QED
      BY <2>4, <2>5, <2>6
  <1>2. CASE HandleStep
    <2>1. lib'.serial_num = lib.serial_num
      BY <1>2 DEF HandleStep, BeginPrint, EndPrint, Typed, Lib
    <2> QED
      BY <1>2, <2>1, SerialSame DEF HandleStep, env
  <1> QED
    BY <1>1, <1>2 DEF BusThread

\* The start writes the number that its wait accepted.
LEMMA SerialMain ==
    ASSUME Typed, SerialInv, Start \/ GetSystemIds \/ Answer \/ GetTimeZone \/ Subscribe
    PROVE  SerialInv'
  <1>1. CASE Call \/ Register
    BY <1>1, SerialSame DEF Call, Register, Same, At, env, Holding
  <1>2. CASE AssignId \/ AssignTz \/ AssignDst \/ AssignTune \/ AssignSerial
    BY <1>2, SerialSame
    DEF AssignId, AssignTz, AssignDst, AssignTune, AssignSerial, AssignedAs, At, env, Holding
  <1>3. CASE PrintUrls \/ EndUrls
    BY <1>3, SerialSame DEF PrintUrls, EndUrls, At, env, Holding
  <1>4. CASE SerialNumber
    BY <1>4 DEF SerialNumber, is_alphanum, SerialInv, At, env, Holding
  <1>5. CASE CallRoute \/ AssignRoute
    BY <1>5 DEF CallRoute, AssignRoute, AssignedAs, At, env, SerialInv
  <1>6. CASE UpdateXml
    BY <1>6 DEF UpdateXml, SerialInv, At, env, Holding
  <1>7. CASE RootDevice \/ TuneReady \/ PrefixFile \/ Prefix \/ Announce \/ Connect \/ Fail
    BY <1>7, SerialSame
    DEF RootDevice, TuneReady, PrefixFile, Prefix, Announce, Connect, Fail, Same, At, env, Holding
  <1>8. CASE GetSystemIds \/ Answer \/ GetTimeZone \/ Subscribe
    BY <1>8, SerialSame DEF GetSystemIds, Answer, GetTimeZone, Subscribe, At, env, Holding
  <1> QED
    BY <1>1, <1>2, <1>3, <1>4, <1>5, <1>6, <1>7, <1>8 DEF Start

\* The description carries a serial number of the required form, though updatexmldata
\* reads the string again that the bus thread may have assigned since the wait.
THEOREM SerialAlways == Spec => []SerialDescribed
  <1>1. Init => SerialInv
    BY DEF Init, SerialInv
  <1>2. Typed /\ SerialInv /\ [Next]_vars => SerialInv'
    <2> SUFFICES ASSUME Typed, SerialInv, [Next]_vars PROVE SerialInv'
      OBVIOUS
    <2>1. ASSUME NEW f, NEW v, Publish(f, v), f # "xml" PROVE SerialInv'
      BY <2>1, SerialSame DEF Publish
    <2>2. CASE Managers
      BY <2>1, <2>2, SerialSame
      DEF Managers, NewTune, NewId, NewZone, NewDst, NewSerial, NewRoute, NewFile
    <2>3. CASE Deliver
      BY <2>3, SerialSame DEF Deliver, env
    <2>4. CASE UNCHANGED vars
      BY <2>4, SerialSame DEF vars, env
    <2> QED
      BY <2>2, <2>3, <2>4, SerialBus, SerialMain DEF Next
  <1>3. SerialInv => SerialDescribed
    BY DEF SerialInv, SerialDescribed
  <1> QED
    BY <1>1, <1>2, <1>3, TypedInit, TypedNext, PTL DEF Spec

-----------------------------------------------------------------------------
(* What is on its way, to the library or to the client. *)

Concerns(e, x) == e[1] \in {x, "all"}
Carried(e, x) == IF e[1] = "all" THEN e[2][x] ELSE e[2]

\* Nothing in s concerns x.
Free(s, x) == \A i \in 1 .. Len(s) : ~Concerns(s[i], x)

\* The last entry of s that concerns x carries u.
LastIs(s, x, u) ==
    \A i \in 1 .. Len(s) :
        Concerns(s[i], x) /\ (\A j \in i + 1 .. Len(s) : ~Concerns(s[j], x))
            => Carried(s[i], x) = u

\* What comes later decides.
LEMMA FlowAppend ==
    ASSUME NEW S, NEW s \in Seq(S), NEW e \in S, NEW x
    PROVE  /\ Concerns(e, x) =>
                LastIs(Append(s, e), x, Carried(e, x)) /\ ~Free(Append(s, e), x)
           /\ ~Concerns(e, x) =>
                /\ \A u : LastIs(s, x, u) => LastIs(Append(s, e), x, u)
                /\ Free(Append(s, e), x) <=> Free(s, x)
  <1>1. /\ Len(Append(s, e)) = Len(s) + 1
        /\ Append(s, e)[Len(s) + 1] = e
        /\ \A i \in 1 .. Len(s) : Append(s, e)[i] = s[i]
        /\ Len(s) \in Nat
    BY AppendFact
  <1> DEFINE a == Append(s, e)
  <1> HIDE DEF a
  <1>2. ASSUME Concerns(e, x) PROVE LastIs(a, x, Carried(e, x)) /\ ~Free(a, x)
    BY <1>1, <1>2 DEF LastIs, Free, a
  <1>3. ASSUME ~Concerns(e, x) PROVE Free(a, x) <=> Free(s, x)
    BY <1>1, <1>3 DEF Free, a
  <1>4. ASSUME ~Concerns(e, x), NEW u, LastIs(s, x, u) PROVE LastIs(a, x, u)
    <2> SUFFICES ASSUME NEW i \in 1 .. Len(a), Concerns(a[i], x),
                        \A j \in i + 1 .. Len(a) : ~Concerns(a[j], x)
                 PROVE  Carried(a[i], x) = u
      BY DEF LastIs
    <2>1. i \in 1 .. Len(s) /\ a[i] = s[i]
      BY <1>1, <1>4 DEF a
    <2>2. \A j \in i + 1 .. Len(s) : ~Concerns(s[j], x)
      BY <1>1, <2>1 DEF a
    <2> QED
      BY <1>4, <2>1, <2>2 DEF LastIs
  <1> QED
    BY <1>2, <1>3, <1>4 DEF a

\* The first entry is taken.
LEMMA FlowTail ==
    ASSUME NEW S, NEW s \in Seq(S), s # <<>>, NEW x
    PROVE  /\ \A u : LastIs(s, x, u) => LastIs(Tail(s), x, u)
           /\ \A u : LastIs(s, x, u) /\ Concerns(Head(s), x) /\ Free(Tail(s), x)
                       => Carried(Head(s), x) = u
           /\ ~Concerns(Head(s), x) => (Free(Tail(s), x) <=> Free(s, x))
           /\ Free(s, x) => Free(Tail(s), x) /\ ~Concerns(Head(s), x)
  <1>1. /\ Head(s) = s[1] /\ Len(s) \in Nat /\ Len(s) >= 1
        /\ Len(Tail(s)) = Len(s) - 1
        /\ \A i \in 1 .. Len(s) - 1 : Tail(s)[i] = s[i + 1]
    BY TailFact
  <1> DEFINE t == Tail(s)
             h == Head(s)
  <1> HIDE DEF t, h
  <1>2. \A i \in 2 .. Len(s) : s[i] = t[i - 1] /\ i - 1 \in 1 .. Len(t)
    BY <1>1 DEF t
  <1>3. ASSUME NEW u, LastIs(s, x, u) PROVE LastIs(t, x, u)
    <2> SUFFICES ASSUME NEW i \in 1 .. Len(t), Concerns(t[i], x),
                        \A j \in i + 1 .. Len(t) : ~Concerns(t[j], x)
                 PROVE  Carried(t[i], x) = u
      BY DEF LastIs
    <2>1. i + 1 \in 1 .. Len(s) /\ s[i + 1] = t[i]
      BY <1>1 DEF t
    <2>2. \A j \in i + 2 .. Len(s) : ~Concerns(s[j], x)
      BY <1>1, <1>2
    <2> QED
      BY <1>1, <1>3, <2>1, <2>2 DEF LastIs
  <1>4. ASSUME NEW u, LastIs(s, x, u), Concerns(h, x), Free(t, x) PROVE Carried(h, x) = u
    <2>1. \A j \in 2 .. Len(s) : ~Concerns(s[j], x)
      BY <1>2, <1>4 DEF Free
    <2> QED
      BY <1>1, <1>4, <2>1 DEF LastIs, h
  <1>5. ASSUME ~Concerns(h, x) PROVE Free(t, x) <=> Free(s, x)
    <2>1. ASSUME Free(t, x), NEW i \in 1 .. Len(s) PROVE ~Concerns(s[i], x)
      <3>1. CASE i = 1
        BY <3>1, <1>1, <1>5 DEF h
      <3>2. CASE i # 1
        BY <3>2, <1>1, <1>2, <2>1 DEF Free
      <3> QED
        BY <3>1, <3>2
    <2>2. Free(s, x) => Free(t, x)
      BY <1>1 DEF Free, t
    <2> QED
      BY <2>1, <2>2 DEF Free
  <1>6. Free(s, x) => Free(t, x) /\ ~Concerns(h, x)
    BY <1>1 DEF Free, t, h
  <1> QED
    BY <1>3, <1>4, <1>5, <1>6 DEF t, h

\* An event is about one value.
LEMMA EventFact ==
    ASSUME NEW e \in Event
    PROVE  /\ e[1] \in Field /\ e = <<e[1], e[2]>>
           /\ Carried(e, e[1]) = e[2]
           /\ \A x \in Field : Concerns(e, x) <=> e[1] = x
  BY DEF Event, Field, Concerns, Carried

-----------------------------------------------------------------------------
(* Where the start may be. *)

\* A client asks for the route only, and waits for no tuner and no prefix.
PathInv ==
    IF conf.client
      THEN main \in {"register", "serial", "route", "assign_route", "xml", "device", "publish",
                     "connect", "up", "answer", "ended"}
      ELSE main \notin {"route", "assign_route"}

\* Every step keeps a client, and a gateway, on its own way through the start.
LEMMA PathNext == Typed /\ PathInv /\ [Next]_vars => PathInv'
  <1> SUFFICES ASSUME Typed, PathInv, [Next]_vars PROVE PathInv'
    OBVIOUS
  <1>1. conf.client \in BOOLEAN
    BY ConfAssumption DEF Typed
  <1>2. ASSUME UNCHANGED <<conf, main>> PROVE PathInv'
    BY <1>2 DEF PathInv
  <1>3. CASE Managers
    BY <1>2, <1>3
    DEF Managers, NewTune, NewId, NewZone, NewDst, NewSerial, NewRoute, NewFile, Publish
  <1>4. CASE BusThread \/ Deliver \/ UNCHANGED vars
    BY <1>2, <1>4 DEF BusThread, Handle, HandleStep, Deliver, vars, env
  <1>5. CASE Register \/ Call \/ PrintUrls \/ EndUrls \/ SerialNumber
    BY <1>1, <1>5 DEF Register, Call, PrintUrls, EndUrls, SerialNumber, At, env, PathInv
  <1>6. CASE AssignId \/ AssignTz \/ AssignDst \/ AssignTune \/ AssignSerial
    BY <1>6
    DEF AssignId, AssignTz, AssignDst, AssignTune, AssignSerial, AssignedAs, At, env, PathInv
  <1>7. CASE CallRoute \/ AssignRoute \/ UpdateXml
    BY <1>7 DEF CallRoute, AssignRoute, UpdateXml, AssignedAs, At, env, PathInv
  <1>8. CASE RootDevice \/ TuneReady \/ PrefixFile \/ Prefix \/ Announce \/ Connect \/ Fail
    BY <1>1, <1>8
    DEF RootDevice, TuneReady, PrefixFile, Prefix, Announce, Connect, Fail, At, env, PathInv
  <1>9. CASE GetSystemIds \/ Answer \/ GetTimeZone \/ Subscribe
    BY <1>9 DEF GetSystemIds, Answer, GetTimeZone, Subscribe, At, env, PathInv
  <1> QED
    BY <1>3, <1>4, <1>5, <1>6, <1>7, <1>8, <1>9 DEF Next, Start

-----------------------------------------------------------------------------
(* From the managers to the library. *)

\* Where the start is, before the answer's value is assigned.
Before(f) ==
    CASE f = "id" -> {"register", "call", "assign_id"}
      [] f = "tz" -> {"register", "call", "assign_id", "assign_tz"}
      [] f = "dst" -> {"register", "call", "assign_id", "assign_tz", "assign_dst"}
      [] f = "route" -> {"register", "serial", "route", "assign_route"}

\* Whether the start asks for the value.
Asked(f) == IF f = "route" THEN conf.client ELSE ~conf.client

\* When nothing about f is on its way, the variable y is what the managers have, u;
\* or as it was at first, none, before the answer comes; or the start has assigned an
\* older value.
Reached(f, y, none, u) ==
    /\ main = "register" => y = none
    /\ Free(bus, f) =>
        \/ y = u
        \/ y = none /\ (main \in Before(f) \/ ~Asked(f))
        \/ f \in stale /\ Asked(f) /\ main \notin Before(f)

Offset(d) == IF d = NoDst THEN DstUnset ELSE d

\* An answer that is not stale is what the managers have.
AnswerInv ==
    /\ \A f \in {"id", "tz", "dst"} : main \in Window(f) /\ f \notin stale => param[f] = sys[f]
    /\ main = "assign_route" /\ "route" \notin stale => param.route = sys.route

FlowInv ==
    /\ main = "register" => bus = <<>> /\ busy = <<>>
    /\ \A f \in Field : LastIs(bus, f, sys[f])
    /\ AnswerInv
    /\ Reached("id", lib.id, 0, sys.id)
    /\ Reached("dst", lib.dstOffset, DstUnset, Offset(sys.dst))
    /\ Reached("route", lib.dataGatewayIPaddress, None, sys.route)

\* At first nothing is on its way and nothing has been asked.
LEMMA FlowInit == Init => FlowInv
  BY DEF Init, FlowInv, AnswerInv, Reached, LastIs, Before, Window

\* The managers have another value.
LEMMA FlowPublish ==
    ASSUME Typed, FlowInv, NEW g, NEW v, Publish(g, v), <<g, v>> \in Event
    PROVE  FlowInv'
  <1>1. /\ sys' = [sys EXCEPT ![g] = v] /\ g \in Field
        /\ bus' = (IF main = "register" THEN bus ELSE Append(bus, <<g, v>>))
        /\ stale' = (IF main \in Window(g) THEN stale \cup {g} ELSE stale)
        /\ UNCHANGED <<conf, busy, main, param, lib>>
        /\ sys \in Values /\ bus \in Seq(Event)
    BY EventFact DEF Publish, Typed
  <1>2. \A f \in Field : sys'[f] = IF f = g THEN v ELSE sys[f]
    BY <1>1 DEF Values, Field
  <1>3. \A f \in Field :
          /\ f # g => (Free(bus', f) <=> Free(bus, f)) /\ \A u : LastIs(bus, f, u) => LastIs(bus', f, u)
          /\ main # "register" => ~Free(bus', g) /\ LastIs(bus', g, v)
    <2>1. CASE main = "register"
      BY <1>1, <2>1
    <2>2. CASE main # "register"
      <3>1. \A f \in Field : Concerns(<<g, v>>, f) <=> g = f
        BY EventFact
      <3>2. Carried(<<g, v>>, g) = v
        BY EventFact
      <3> QED
        BY <1>1, <2>2, <3>1, <3>2, FlowAppend
    <2> QED
      BY <2>1, <2>2
  <1>4. \A f \in Field : LastIs(bus', f, sys'[f])
    <2>1. main = "register" => \A f \in Field : \A u : LastIs(bus', f, u)
      BY <1>1 DEF FlowInv, LastIs
    <2> QED
      BY <1>2, <1>3, <2>1 DEF FlowInv
  <1>5. AnswerInv'
    BY <1>1, <1>2 DEF FlowInv, AnswerInv, Field, Window
  <1>6. /\ sys'.id = (IF g = "id" THEN v ELSE sys.id) /\ sys'.dst = (IF g = "dst" THEN v ELSE sys.dst)
        /\ sys'.route = (IF g = "route" THEN v ELSE sys.route)
    BY <1>2 DEF Field
  <1>7. Reached("id", lib.id, 0, sys.id)'
    BY <1>1, <1>3, <1>6 DEF FlowInv, Reached, Field, Before, Asked
  <1>8. Reached("dst", lib.dstOffset, DstUnset, Offset(sys.dst))'
    BY <1>1, <1>3, <1>6 DEF FlowInv, Reached, Field, Before, Asked
  <1>9. Reached("route", lib.dataGatewayIPaddress, None, sys.route)'
    BY <1>1, <1>3, <1>6 DEF FlowInv, Reached, Field, Before, Asked
  <1> QED
    BY <1>1, <1>4, <1>5, <1>7, <1>8, <1>9 DEF FlowInv

\* An event is handled.
LEMMA FlowHandle ==
    ASSUME Typed, FlowInv, Handle
    PROVE  FlowInv'
  <1> DEFINE g == Head(bus)[1]
             v == Head(bus)[2]
  <1>1. /\ bus # <<>> /\ bus' = Tail(bus) /\ lib' = Assigned(lib, g, v)
        /\ stale' = StaleAfter(g, v) /\ UNCHANGED <<conf, main, param, sys>>
    BY DEF Handle, env
  <1>2. /\ bus \in Seq(Event) /\ Head(bus) \in Event /\ lib \in Lib /\ main # "register"
    BY <1>1, TailFact DEF Typed, FlowInv
  <1>3. <<g, v>> \in Event /\ g \in Field
    BY <1>2, EventFact
  <1>4. \A f \in Field :
          /\ \A u : LastIs(bus, f, u) => LastIs(bus', f, u)
          /\ f # g => (Free(bus', f) <=> Free(bus, f))
          /\ f = g /\ Free(bus', f) => v = sys[f]
    <2>1. \A f \in Field : Concerns(Head(bus), f) <=> g = f
      BY <1>2, EventFact
    <2>2. Carried(Head(bus), g) = v
      BY <1>2, EventFact
    <2>3. \A f \in Field : LastIs(bus, f, sys[f])
      BY DEF FlowInv
    <2> QED
      BY <1>1, <1>2, <2>1, <2>2, <2>3, FlowTail
  <1> HIDE DEF g, v
  <1>5. \A f \in Field : f \in stale => f \in stale' \/ (f = g /\ main \notin Window(g))
    BY <1>1, <1>3 DEF StaleAfter, Field
  <1>6. AnswerInv'
    BY <1>1, <1>5 DEF FlowInv, AnswerInv, Field, Window
  <1>7. Reached("id", lib.id, 0, sys.id)'
    <2>1. g = "id" => lib'.id = v
      BY <1>1, <1>2 DEF Assigned, Lib
    <2>2. g # "id" => lib'.id = lib.id
      BY <1>1, <1>2, <1>3 DEF Assigned, Lib, Field
    <2> QED
      BY <1>1, <1>2, <1>4, <1>5, <2>1, <2>2 DEF FlowInv, Reached, Field, Before, Asked
  <1>8. Reached("dst", lib.dstOffset, DstUnset, Offset(sys.dst))'
    <2>1. g = "dst" => lib'.dstOffset = v /\ Offset(v) = v
      <3>1. g = "dst" => lib'.dstOffset = v
        BY <1>1, <1>2 DEF Assigned, Lib
      <3>2. g = "dst" => v \in {0, 60}
        BY <1>3 DEF Event
      <3> QED
        BY <3>1, <3>2 DEF Offset, NoDst
    <2>2. g # "dst" => lib'.dstOffset = lib.dstOffset
      BY <1>1, <1>2, <1>3 DEF Assigned, Lib, Field
    <2> QED
      BY <1>1, <1>2, <1>4, <1>5, <2>1, <2>2 DEF FlowInv, Reached, Field, Before, Asked
  <1>9. Reached("route", lib.dataGatewayIPaddress, None, sys.route)'
    <2>1. g = "route" => lib'.dataGatewayIPaddress = v
      BY <1>1, <1>2 DEF Assigned, Lib
    <2>2. g # "route" => lib'.dataGatewayIPaddress = lib.dataGatewayIPaddress
      BY <1>1, <1>2, <1>3 DEF Assigned, Lib, Field
    <2> QED
      BY <1>1, <1>2, <1>4, <1>5, <2>1, <2>2 DEF FlowInv, Reached, Field, Before, Asked
  <1> QED
    BY <1>1, <1>2, <1>4, <1>6, <1>7, <1>8, <1>9 DEF FlowInv

\* What the start has assigned stays assigned, and it does not start again.
Onwards ==
    /\ main' = "register" => main = "register"
    /\ \A f \in {"id", "dst", "route"} :
         Asked(f) => (main' \in Before(f) <=> main \in Before(f))

\* Steps that assign none of the values.
LEMMA FlowKept ==
    ASSUME FlowInv, Onwards, UNCHANGED <<conf, bus, sys>>, stale \subseteq stale',
           lib'.id = lib.id, lib'.dstOffset = lib.dstOffset,
           lib'.dataGatewayIPaddress = lib.dataGatewayIPaddress,
           main = main' \/ busy' = busy,
           main' = "register" => busy' = busy,
           \A f \in {"id", "tz", "dst"} : main' \in Window(f) => main \in Window(f) /\ param' = param,
           main' = "assign_route" => main = "assign_route" /\ param' = param
    PROVE  FlowInv'
  <1>1. AnswerInv'
    BY DEF FlowInv, AnswerInv
  <1>2. Reached("id", lib.id, 0, sys.id)'
    BY DEF FlowInv, Reached, Onwards, Asked
  <1>3. Reached("dst", lib.dstOffset, DstUnset, Offset(sys.dst))'
    BY DEF FlowInv, Reached, Onwards, Asked
  <1>4. Reached("route", lib.dataGatewayIPaddress, None, sys.route)'
    BY DEF FlowInv, Reached, Onwards, Asked
  <1> QED
    BY <1>1, <1>2, <1>3, <1>4 DEF FlowInv, Onwards

\* The later steps of a handler assign no value of the managers.
LEMMA FlowHandleStep ==
    ASSUME Typed, FlowInv, HandleStep
    PROVE  FlowInv'
  <1>1. UNCHANGED <<conf, bus, sys, stale, main, param>> /\ main # "register"
    BY DEF HandleStep, env, FlowInv
  <1>2. /\ lib'.id = lib.id /\ lib'.dstOffset = lib.dstOffset
        /\ lib'.dataGatewayIPaddress = lib.dataGatewayIPaddress
    BY DEF HandleStep, BeginPrint, EndPrint, Typed, Lib
  <1>3. Onwards
    BY <1>1 DEF Onwards, Asked
  <1> QED
    BY <1>1, <1>2, <1>3, FlowKept

\* The start and the main loop, but for the calls and the assignments they bring.
LEMMA FlowOther ==
    ASSUME Typed, FlowInv, PathInv,
           \/ Register \/ AssignTz \/ AssignTune \/ AssignSerial \/ PrintUrls \/ EndUrls
           \/ SerialNumber \/ UpdateXml \/ RootDevice \/ TuneReady \/ PrefixFile \/ Prefix
           \/ Announce \/ Connect \/ Fail \/ GetSystemIds \/ Answer \/ GetTimeZone \/ Subscribe
    PROVE  FlowInv'
  <1>1. lib \in Lib /\ conf.client \in BOOLEAN
    BY ConfAssumption DEF Typed
  <1>2. CASE Register
    BY <1>2 DEF Register, Same, At, env, FlowInv, AnswerInv, Reached, Before, Asked, Window
  <1>3. CASE AssignTz \/ AssignTune \/ AssignSerial
    <2>1. /\ UNCHANGED <<conf, bus, busy, sys, stale>> /\ main' # "register"
          /\ lib'.id = lib.id /\ lib'.dstOffset = lib.dstOffset
          /\ lib'.dataGatewayIPaddress = lib.dataGatewayIPaddress
          /\ main' \in {"assign_dst", "assign_tune"} => param' = param
      BY <1>1, <1>3 DEF AssignTz, AssignTune, AssignSerial, AssignedAs, Assigned, At, env, Lib
    <2>2. \/ main = "assign_tz" /\ main' = "assign_dst"
          \/ main = "assign_tune" /\ main' = "assign_serial"
          \/ main = "assign_serial" /\ main' = "print"
      BY <1>3 DEF AssignTz, AssignTune, AssignSerial, AssignedAs, At
    <2>3. Onwards
      BY <2>2 DEF Onwards, Before, Asked
    <2> QED
      BY <2>1, <2>2, <2>3, FlowKept DEF Window
  <1>4. CASE PrintUrls \/ EndUrls \/ GetSystemIds \/ Answer
    <2>1. /\ UNCHANGED <<conf, bus, busy, sys, stale>> /\ main' # "register"
          /\ lib'.id = lib.id /\ lib'.dstOffset = lib.dstOffset
          /\ lib'.dataGatewayIPaddress = lib.dataGatewayIPaddress
      BY <1>1, <1>4 DEF PrintUrls, EndUrls, GetSystemIds, Answer, BeginPrint, EndPrint, At, env, Lib
    <2>2. \/ main = "print" /\ main' = "printed"
          \/ main = "printed" /\ main' = "serial"
          \/ main = "up" /\ main' = "answer"
          \/ main = "answer" /\ main' = "up"
      BY <1>4 DEF PrintUrls, EndUrls, GetSystemIds, Answer, At
    <2>3. Onwards
      BY <2>2 DEF Onwards, Before, Asked, PathInv
    <2> QED
      BY <2>1, <2>2, <2>3, FlowKept DEF Window
  <1>5. CASE SerialNumber \/ UpdateXml \/ RootDevice \/ TuneReady \/ PrefixFile \/ Prefix
    <2>1. /\ UNCHANGED <<conf, bus, busy, sys>> /\ stale \subseteq stale' /\ main' # "register"
          /\ lib'.id = lib.id /\ lib'.dstOffset = lib.dstOffset
          /\ lib'.dataGatewayIPaddress = lib.dataGatewayIPaddress
      BY <1>1, <1>5
      DEF SerialNumber, getserialnum, UpdateXml, RootDevice, TuneReady, PrefixFile, Prefix, Same,
          At, env, Lib
    <2>2. \/ main = "serial" /\ main' = (IF conf.client THEN "route" ELSE "xml")
          \/ main \in {"xml", "device", "tune", "prefix_file", "prefix"}
             /\ main' \in {"device", "publish", "tune", "prefix_file", "prefix"}
      BY <1>5 DEF SerialNumber, UpdateXml, RootDevice, TuneReady, PrefixFile, Prefix, At
    <2>3. Onwards
      BY <2>2 DEF Onwards, Before, Asked
    <2> QED
      BY <2>1, <2>2, <2>3, FlowKept DEF Window
  <1>6. CASE Announce \/ Connect \/ Fail \/ GetTimeZone \/ Subscribe
    <2>1. /\ UNCHANGED <<conf, bus, busy, sys>> /\ stale \subseteq stale' /\ main' # "register"
          /\ lib'.id = lib.id /\ lib'.dstOffset = lib.dstOffset
          /\ lib'.dataGatewayIPaddress = lib.dataGatewayIPaddress
      BY <1>1, <1>6
      DEF Announce, Connect, Fail, GetTimeZone, Subscribe, DsgZone, Same, At, env, Lib
    <2>2. /\ main \in {"xml", "device", "publish", "connect", "up"}
          /\ main' \in {"connect", "up", "ended"}
      BY <1>6 DEF Announce, Connect, Fail, GetTimeZone, Subscribe, At
    <2>3. Onwards
      BY <2>2 DEF Onwards, Before, Asked
    <2> QED
      BY <2>1, <2>2, <2>3, FlowKept DEF Window
  <1> QED
    BY <1>2, <1>3, <1>4, <1>5, <1>6

\* The calls, and the assignments of what they bring.
LEMMA FlowAnswer ==
    ASSUME Typed, FlowInv, PathInv, Call \/ AssignId \/ AssignDst \/ CallRoute \/ AssignRoute
    PROVE  FlowInv'
  <1>1. lib \in Lib /\ conf.client \in BOOLEAN /\ sys \in Values
    BY ConfAssumption DEF Typed
  <1>2. UNCHANGED <<conf, bus, busy, sys>> /\ main' # "register"
    BY DEF Call, AssignId, AssignDst, CallRoute, AssignRoute, AssignedAs, At, env
  <1>3. CASE Call
    <2>1. main = "call" /\ main' = "assign_id" /\ UNCHANGED lib
      BY <1>3 DEF Call, At
    <2>2. param' = sys \/ Field \ {"route"} \subseteq stale'
      BY <1>3 DEF Call
    <2>3. AnswerInv'
      BY <1>2, <2>1, <2>2 DEF AnswerInv, Field, Window
    <2>4. /\ Reached("id", lib.id, 0, sys.id)'
          /\ Reached("dst", lib.dstOffset, DstUnset, Offset(sys.dst))'
          /\ Reached("route", lib.dataGatewayIPaddress, None, sys.route)'
      BY <1>1, <1>2, <2>1 DEF FlowInv, Reached, Before, Asked, PathInv
    <2> QED
      BY <1>2, <2>3, <2>4 DEF FlowInv
  <1>4. CASE AssignId
    <2>1. /\ main = "assign_id" /\ main' = "assign_tz" /\ UNCHANGED <<param, stale>>
          /\ lib' = IF param.id = 0 THEN lib ELSE [lib EXCEPT !.id = param.id]
      BY <1>4 DEF AssignId, AssignedAs, Assigned, At
    <2>2. /\ lib'.id = (IF param.id = 0 THEN lib.id ELSE param.id)
          /\ lib'.dstOffset = lib.dstOffset
          /\ lib'.dataGatewayIPaddress = lib.dataGatewayIPaddress
      BY <1>1, <2>1 DEF Lib
    <2>3. AnswerInv'
      BY <1>2, <2>1 DEF FlowInv, AnswerInv, Window
    <2>4. "id" \notin stale => param.id = sys.id
      BY <2>1 DEF FlowInv, AnswerInv, Window
    <2>5. Reached("id", lib.id, 0, sys.id)'
      BY <1>2, <2>1, <2>2, <2>4 DEF FlowInv, Reached, Before, Asked, PathInv
    <2>6. /\ Reached("dst", lib.dstOffset, DstUnset, Offset(sys.dst))'
          /\ Reached("route", lib.dataGatewayIPaddress, None, sys.route)'
      BY <1>1, <1>2, <2>1, <2>2 DEF FlowInv, Reached, Before, Asked, PathInv
    <2> QED
      BY <1>2, <2>3, <2>5, <2>6 DEF FlowInv
  <1>5. CASE AssignDst
    <2>1. /\ main = "assign_dst" /\ main' = "assign_tune" /\ UNCHANGED <<param, stale>>
          /\ lib' = IF param.dst = NoDst THEN lib
                    ELSE [lib EXCEPT !.dstOffset = param.dst,
                                     !.dsgtimezone = Renamed(lib.dsgtimezone, param.dst)]
      BY <1>5 DEF AssignDst, AssignedAs, At
    <2>2. /\ lib'.dstOffset = (IF param.dst = NoDst THEN lib.dstOffset ELSE param.dst)
          /\ lib'.id = lib.id
          /\ lib'.dataGatewayIPaddress = lib.dataGatewayIPaddress
      BY <1>1, <2>1 DEF Lib
    <2>3. AnswerInv'
      BY <1>2, <2>1 DEF FlowInv, AnswerInv, Window
    <2>4. "dst" \notin stale => param.dst = sys.dst
      BY <2>1 DEF FlowInv, AnswerInv, Window
    <2>5. Reached("dst", lib.dstOffset, DstUnset, Offset(sys.dst))'
      BY <1>2, <2>1, <2>2, <2>4 DEF FlowInv, Reached, Before, Asked, PathInv, Offset
    <2>6. /\ Reached("id", lib.id, 0, sys.id)'
          /\ Reached("route", lib.dataGatewayIPaddress, None, sys.route)'
      BY <1>1, <1>2, <2>1, <2>2 DEF FlowInv, Reached, Before, Asked, PathInv
    <2> QED
      BY <1>2, <2>3, <2>5, <2>6 DEF FlowInv
  <1>6. CASE CallRoute
    <2>1. main = "route" /\ main' = "assign_route" /\ UNCHANGED lib /\ stale \subseteq stale'
      BY <1>6 DEF CallRoute, At
    <2>2. param' = sys \/ "route" \in stale'
      BY <1>6 DEF CallRoute
    <2>3. AnswerInv'
      BY <1>2, <2>1, <2>2 DEF AnswerInv, Window
    <2>4. /\ Reached("id", lib.id, 0, sys.id)'
          /\ Reached("dst", lib.dstOffset, DstUnset, Offset(sys.dst))'
          /\ Reached("route", lib.dataGatewayIPaddress, None, sys.route)'
      BY <1>1, <1>2, <2>1 DEF FlowInv, Reached, Before, Asked, PathInv
    <2> QED
      BY <1>2, <2>3, <2>4 DEF FlowInv
  <1>7. CASE AssignRoute
    <2>1. /\ main = "assign_route" /\ main' = "xml" /\ UNCHANGED stale
          /\ lib' = IF param.route = None THEN lib
                    ELSE [lib EXCEPT !.dataGatewayIPaddress = param.route]
      BY <1>7 DEF AssignRoute, AssignedAs, Assigned, At
    <2>2. /\ lib'.dataGatewayIPaddress =
                (IF param.route = None THEN lib.dataGatewayIPaddress ELSE param.route)
          /\ lib'.id = lib.id /\ lib'.dstOffset = lib.dstOffset
      BY <1>1, <2>1 DEF Lib
    <2>3. AnswerInv'
      BY <1>2, <2>1 DEF FlowInv, AnswerInv, Window
    <2>4. "route" \notin stale => param.route = sys.route
      BY <2>1 DEF FlowInv, AnswerInv
    <2>5. Reached("route", lib.dataGatewayIPaddress, None, sys.route)'
      BY <1>2, <2>1, <2>2, <2>4 DEF FlowInv, Reached, Before, Asked, PathInv
    <2>6. /\ Reached("id", lib.id, 0, sys.id)'
          /\ Reached("dst", lib.dstOffset, DstUnset, Offset(sys.dst))'
      BY <1>1, <1>2, <2>1, <2>2 DEF FlowInv, Reached, Before, Asked, PathInv
    <2> QED
      BY <1>2, <2>3, <2>5, <2>6 DEF FlowInv
  <1> QED
    BY <1>3, <1>4, <1>5, <1>6, <1>7

\* A step of the managers is a new value or a new file.
LEMMA ManagersPublish ==
    ASSUME Typed, Managers
    PROVE  \/ \E g, v : Publish(g, v) /\ <<g, v>> \in Event
           \/ NewFile
  <1>1. sys \in Values /\ changes \in Nat
    BY DEF Typed
  <1>2. CASE NewTune
    <2>1. <<"tune", ~sys.tune>> \in Event
      BY <1>1 DEF Event, Values
    <2> QED
      BY <1>2, <2>1 DEF NewTune
  <1>3. CASE NewId
    <2>1. PICK v \in {changes + 2, 0} : Publish("id", v)
      BY <1>3 DEF NewId
    <2>2. <<"id", v>> \in Event
      BY <1>1 DEF Event
    <2> QED
      BY <2>1, <2>2
  <1>4. CASE NewZone
    BY <1>4 DEF NewZone, Event
  <1>5. CASE NewDst
    BY <1>5 DEF NewDst, Event
  <1>6. CASE NewSerial
    BY <1>6 DEF NewSerial, Event
  <1>7. CASE NewRoute
    BY <1>7 DEF NewRoute, Event
  <1> QED
    BY <1>2, <1>3, <1>4, <1>5, <1>6, <1>7 DEF Managers

\* Every step keeps the values of the library behind those of the managers.
LEMMA FlowNext == Typed /\ PathInv /\ FlowInv /\ [Next]_vars => FlowInv'
  <1> SUFFICES ASSUME Typed, PathInv, FlowInv, [Next]_vars PROVE FlowInv'
    OBVIOUS
  <1>1. ASSUME UNCHANGED <<conf, bus, busy, sys, stale, main, param, lib>> PROVE FlowInv'
    BY Zenon, <1>1 DEF FlowInv, AnswerInv, Reached, Window, Asked
  <1>2. CASE Managers
    BY <1>1, <1>2, ManagersPublish, FlowPublish DEF NewFile
  <1>3. CASE Deliver \/ UNCHANGED vars
    BY <1>1, <1>3 DEF Deliver, vars, env
  <1>4. CASE BusThread
    BY <1>4, FlowHandle, FlowHandleStep DEF BusThread
  <1> QED
    BY <1>2, <1>3, <1>4, FlowAnswer, FlowOther DEF Next, Start

-----------------------------------------------------------------------------
(* The zone and the offset on their way. *)

\* No zone comes after the i-th event of s.
InTail(s, i) == \A j \in i + 1 .. Len(s) : s[j][1] # "tz"

\* No zone on its way comes after an offset that is on its way too.
AllInTail(s) == \A i \in 1 .. Len(s) : s[i][1] = "dst" => InTail(s, i)

\* An offset comes after the last zone.
HasTail(s) == \E i \in 1 .. Len(s) : s[i][1] = "dst" /\ InTail(s, i)

\* No other offset comes before one that comes after the last zone.
First(s) ==
    \A i \in 1 .. Len(s) :
        s[i][1] = "dst" /\ InTail(s, i) => \A j \in 1 .. i - 1 : s[j][1] # "dst"

\* The last zone, and whatever zone comes after all of s, meets no offset of 0.
Met(s) ==
    \A i \in 1 .. Len(s) :
        /\ s[i][1] = "dst"
        /\ \A j \in i + 1 .. Len(s) : s[j][1] = "dst" => InTail(s, j)
        => s[i][2] = 60

\* One more event, of another kind, with a zone, or with the first offset.
LEMMA MetAppend ==
    ASSUME NEW s \in Seq(Event), NEW e \in Event
    PROVE  LET a == Append(s, e)
           IN  /\ e[1] \notin {"tz", "dst"} =>
                    /\ First(s) => First(a)
                    /\ Met(s) => Met(a)
                    /\ AllInTail(a) => AllInTail(s)
                    /\ HasTail(a) => HasTail(s)
               /\ e[1] = "tz" =>
                    /\ First(a) /\ ~HasTail(a)
                    /\ LastIs(s, "dst", 60) => Met(a)
                    /\ AllInTail(a) => Free(s, "dst")
               /\ e = <<"dst", 60>> /\ Free(s, "dst") => First(a) /\ Met(a)
  <1> DEFINE a == Append(s, e)
  <1>1. /\ a \in Seq(Event) /\ Len(a) = Len(s) + 1 /\ a[Len(s) + 1] = e
        /\ \A i \in 1 .. Len(s) : a[i] = s[i]
        /\ Len(s) \in Nat
    BY AppendFact
  <1> HIDE DEF a
  <1>2. ASSUME e[1] # "tz", NEW i \in 1 .. Len(s) PROVE InTail(a, i) <=> InTail(s, i)
    BY <1>1, <1>2 DEF InTail
  <1>3. ASSUME e[1] = "tz", NEW i \in 1 .. Len(s) PROVE ~InTail(a, i)
    BY <1>1, <1>3 DEF InTail
  <1>4. ASSUME e[1] \notin {"tz", "dst"}
        PROVE  /\ First(s) => First(a)
               /\ Met(s) => Met(a)
               /\ AllInTail(a) => AllInTail(s)
               /\ HasTail(a) => HasTail(s)
    <2>1. \A i \in 1 .. Len(a) : a[i][1] = "dst" => i \in 1 .. Len(s)
      BY <1>1, <1>4
    <2>2. First(s) => First(a)
      BY <1>1, <1>2, <1>4, <2>1 DEF First
    <2>3. ASSUME Met(s), NEW i \in 1 .. Len(a), a[i][1] = "dst",
                 \A j \in i + 1 .. Len(a) : a[j][1] = "dst" => InTail(a, j)
          PROVE  a[i][2] = 60
      <3>1. i \in 1 .. Len(s) /\ a[i] = s[i]
        BY <1>1, <2>1, <2>3
      <3>2. \A j \in i + 1 .. Len(s) : s[j][1] = "dst" => InTail(s, j)
        BY <1>1, <1>2, <1>4, <2>3, <3>1
      <3> QED
        BY <2>3, <3>1, <3>2 DEF Met
    <2>4. AllInTail(a) => AllInTail(s)
      BY <1>1, <1>2, <1>4 DEF AllInTail
    <2>5. HasTail(a) => HasTail(s)
      BY <1>1, <1>2, <1>4, <2>1 DEF HasTail
    <2> QED
      BY <2>2, <2>3, <2>4, <2>5 DEF Met
  <1>5. ASSUME e[1] = "tz"
        PROVE  /\ First(a) /\ ~HasTail(a)
               /\ LastIs(s, "dst", 60) => Met(a)
               /\ AllInTail(a) => Free(s, "dst")
    <2>1. \A i \in 1 .. Len(a) : a[i][1] = "dst" => i \in 1 .. Len(s) /\ ~InTail(a, i)
      BY <1>1, <1>3, <1>5
    <2>2. \A i \in 1 .. Len(s) : Concerns(s[i], "dst") <=> s[i][1] = "dst"
      BY EventFact DEF Field
    <2>3. \A i \in 1 .. Len(s) : s[i][1] = "dst" => Carried(s[i], "dst") = s[i][2]
      BY EventFact
    <2>4. ASSUME LastIs(s, "dst", 60), NEW i \in 1 .. Len(a), a[i][1] = "dst",
                 \A j \in i + 1 .. Len(a) : a[j][1] = "dst" => InTail(a, j)
          PROVE  a[i][2] = 60
      <3>1. i \in 1 .. Len(s) /\ a[i] = s[i]
        BY <1>1, <2>1, <2>4
      <3>2. \A j \in i + 1 .. Len(s) : ~Concerns(s[j], "dst")
        BY <1>1, <2>1, <2>2, <2>4, <3>1
      <3> QED
        BY <2>2, <2>3, <2>4, <3>1, <3>2 DEF LastIs
    <2>5. AllInTail(a) => Free(s, "dst")
      BY <1>1, <2>1, <2>2 DEF AllInTail, Free
    <2> QED
      BY <2>1, <2>4, <2>5 DEF First, HasTail, Met
  <1>6. ASSUME e = <<"dst", 60>>, Free(s, "dst") PROVE First(a) /\ Met(a)
    <2>1. \A i \in 1 .. Len(s) : s[i][1] # "dst"
      BY <1>6, EventFact DEF Free, Field
    <2>2. \A i \in 1 .. Len(a) : a[i][1] = "dst" => i = Len(s) + 1 /\ a[i][2] = 60
      BY <1>1, <1>6, <2>1
    <2> QED
      BY <1>1, <2>1, <2>2 DEF First, Met
  <1> QED
    BY <1>4, <1>5, <1>6 DEF a

\* One event less.
LEMMA MetTail ==
    ASSUME NEW s \in Seq(Event), s # <<>>
    PROVE  LET h == Head(s)
               t == Tail(s)
           IN  /\ First(s) => First(t)
               /\ Met(s) => Met(t)
               /\ HasTail(t) => HasTail(s)
               /\ h[1] # "dst" /\ AllInTail(t) => AllInTail(s)
               /\ h[1] = "dst" /\ AllInTail(t) /\ Met(s) => h[2] = 60
               /\ h[1] = "dst" /\ First(s) => ~HasTail(t)
  <1> DEFINE h == Head(s)
             t == Tail(s)
  <1>1. /\ h = s[1] /\ Len(s) \in Nat /\ Len(s) >= 1
        /\ t \in Seq(Event) /\ Len(t) = Len(s) - 1
        /\ \A i \in 1 .. Len(s) - 1 : t[i] = s[i + 1]
    BY TailFact
  <1> HIDE DEF h, t
  <1>2. \A i \in 2 .. Len(s) : s[i] = t[i - 1] /\ i - 1 \in 1 .. Len(t)
    BY <1>1
  <1>3. ASSUME NEW i \in 1 .. Len(t) PROVE InTail(t, i) <=> InTail(s, i + 1)
    <2>1. ASSUME InTail(t, i), NEW j \in i + 2 .. Len(s) PROVE s[j][1] # "tz"
      <3>1. j - 1 \in i + 1 .. Len(t) /\ s[j] = t[j - 1]
        BY <1>1, <1>2, <2>1
      <3> QED
        BY <2>1, <3>1 DEF InTail
    <2>2. ASSUME InTail(s, i + 1), NEW j \in i + 1 .. Len(t) PROVE t[j][1] # "tz"
      <3>1. j + 1 \in i + 2 .. Len(s) /\ t[j] = s[j + 1]
        BY <1>1, <2>2
      <3> QED
        BY <2>2, <3>1 DEF InTail
    <2> QED
      BY <1>1, <2>1, <2>2 DEF InTail
  <1>4. First(s) => First(t)
    <2> SUFFICES ASSUME First(s), NEW i \in 1 .. Len(t), t[i][1] = "dst", InTail(t, i),
                        NEW j \in 1 .. i - 1
                 PROVE  t[j][1] # "dst"
      BY DEF First
    <2>1. i + 1 \in 1 .. Len(s) /\ s[i + 1] = t[i] /\ j + 1 \in 1 .. i /\ s[j + 1] = t[j]
      BY <1>1
    <2> QED
      BY <1>1, <1>3, <2>1 DEF First
  <1>5. Met(s) => Met(t)
    <2> SUFFICES ASSUME Met(s), NEW i \in 1 .. Len(t), t[i][1] = "dst",
                        \A j \in i + 1 .. Len(t) : t[j][1] = "dst" => InTail(t, j)
                 PROVE  t[i][2] = 60
      BY DEF Met
    <2>1. i + 1 \in 1 .. Len(s) /\ s[i + 1] = t[i]
      BY <1>1
    <2>2. ASSUME NEW j \in i + 2 .. Len(s), s[j][1] = "dst" PROVE InTail(s, j)
      <3>1. j - 1 \in i + 1 .. Len(t) /\ s[j] = t[j - 1] /\ j - 1 \in 1 .. Len(t)
        BY <1>1, <1>2
      <3> QED
        BY <1>3, <2>2, <3>1
    <2> QED
      BY <1>1, <2>1, <2>2 DEF Met
  <1>6. HasTail(t) => HasTail(s)
    <2> SUFFICES ASSUME NEW i \in 1 .. Len(t), t[i][1] = "dst", InTail(t, i)
                 PROVE  HasTail(s)
      BY DEF HasTail
    <2>1. i + 1 \in 1 .. Len(s) /\ s[i + 1] = t[i]
      BY <1>1
    <2> QED
      BY <1>3, <2>1 DEF HasTail
  <1>7. AllInTail(t) => \A j \in 2 .. Len(s) : s[j][1] = "dst" => InTail(s, j)
    BY <1>2, <1>3 DEF AllInTail
  <1>8. h[1] # "dst" /\ AllInTail(t) => AllInTail(s)
    BY <1>1, <1>7 DEF AllInTail
  <1>9. h[1] = "dst" /\ AllInTail(t) /\ Met(s) => h[2] = 60
    BY <1>1, <1>7 DEF Met
  <1>10. h[1] = "dst" /\ First(s) => ~HasTail(t)
    <2> SUFFICES ASSUME h[1] = "dst", First(s), NEW i \in 1 .. Len(t), t[i][1] = "dst", InTail(t, i)
                 PROVE  FALSE
      BY DEF HasTail
    <2>1. i + 1 \in 1 .. Len(s) /\ s[i + 1] = t[i] /\ 1 \in 1 .. (i + 1) - 1
      BY <1>1
    <2> QED
      BY <1>1, <1>3, <2>1 DEF First
  <1> QED
    BY <1>4, <1>5, <1>6, <1>8, <1>9, <1>10 DEF h, t

-----------------------------------------------------------------------------
(* The zone. *)

\* The names of a zone, and the one with an offset.
Names(p) == IF p = None THEN {None} ELSE {javaTZ(p), Renamed(javaTZ(p), 0)}
Plain(p) == IF p = None THEN None ELSE javaTZ(p)

Renaming == busy # <<>> /\ Head(busy) = "rename"

\* The zone has the name that the offset asks for, or is about to have it; and it is
\* the zone of the managers, once nothing newer is on its way.
ZoneInv ==
    /\ Renaming \/ lib.dsgtimezone = Renamed(lib.dsgtimezone, lib.dstOffset)
    /\ sys.dst = NoDst => Free(bus, "dst") /\ ("dst" \in stale => "zone" \in stale)
    /\ main = "register" => lib.dsgtimezone = None
    /\ Free(bus, "tz") =>
        \/ lib.dsgtimezone \in Names(sys.tz)
        \/ lib.dsgtimezone = None /\ main \in Before("tz")
        \/ "tz" \in stale /\ main \notin Before("tz")

\* The offset is as it was when the last zone was announced, or later.
OffsetKept == main \in Before("dst") \/ "dst" \notin stale

\* The zone is that of the managers, and no older offset renames it.
Keeping ==
    /\ Free(bus, "tz") /\ stale \cap {"tz", "zone"} = {}
    /\ OffsetKept \/ ~Free(bus, "dst")

\* While there has been an offset, or none at all, since the zone was announced, the
\* zone keeps its own name.
PlainInv ==
    ~was0 =>
        /\ sys.dst # 0
        /\ First(bus) /\ Met(bus)
        /\ HasTail(bus) =>
             /\ sys.dst = 60
             /\ \/ {"zone", "dst"} \subseteq stale
                \/ /\ lib.dstOffset \in {60, DstUnset}
                   /\ main \in Window("dst") => param.dst \in {60, NoDst}
        /\ OffsetKept /\ AllInTail(bus) => lib.dstOffset # 0
        /\ Keeping =>
             \/ lib.dsgtimezone = Plain(sys.tz)
             \/ lib.dsgtimezone = None /\ main \in Before("tz")


\* What notify_timezone makes of a zone.
LEMMA NamesFact ==
    ASSUME NEW z \in Zones, NEW o
    PROVE  /\ Renamed(z, o) \in Zones
           /\ Renamed(Renamed(z, o), o) = Renamed(z, o)
           /\ o # 0 => Renamed(z, o) = z
           /\ Renamed(None, o) = None
           /\ \A p \in Zone :
                /\ javaTZ(p) \in Zones /\ p # None
                /\ Names(p) = {javaTZ(p), Renamed(javaTZ(p), 0)}
                /\ Plain(p) = javaTZ(p)
                /\ Renamed(javaTZ(p), o) \in Names(p)
           /\ \A p \in Zone \cup {None} : z \in Names(p) => Renamed(z, o) \in Names(p)
           /\ Names(None) = {None} /\ Plain(None) = None
  <1>1. Zone \subseteq {"MST", "CST", "EST"}
    BY ConfAssumption
  <1>2. /\ Renamed(z, o) \in Zones
        /\ Renamed(Renamed(z, o), o) = Renamed(z, o)
        /\ o # 0 => Renamed(z, o) = z
        /\ Renamed(None, o) = None
    BY DEF Renamed, Zones, None
  <1>3. ASSUME NEW p \in Zone
        PROVE  /\ javaTZ(p) \in Zones /\ p # None
               /\ Names(p) = {javaTZ(p), Renamed(javaTZ(p), 0)}
               /\ Plain(p) = javaTZ(p)
               /\ Renamed(javaTZ(p), o) \in Names(p)
    BY <1>1 DEF javaTZ, Zones, None, Names, Plain, Renamed
  <1>4. ASSUME NEW p \in Zone \cup {None}, z \in Names(p) PROVE Renamed(z, o) \in Names(p)
    BY <1>1, <1>4 DEF javaTZ, None, Names, Renamed
  <1> QED
    BY <1>2, <1>3, <1>4 DEF Names, Plain

\* Without a zone on its way, every offset comes after the last one.
LEMMA FreeTail ==
    ASSUME NEW s \in Seq(Event), Free(s, "tz")
    PROVE  AllInTail(s) /\ (~Free(s, "dst") => HasTail(s))
  <1>1. \A i \in 1 .. Len(s) : s[i][1] # "tz" /\ (Concerns(s[i], "dst") <=> s[i][1] = "dst")
    BY EventFact DEF Free, Field
  <1>2. \A i \in 1 .. Len(s) : InTail(s, i)
    BY <1>1 DEF InTail
  <1> QED
    BY <1>1, <1>2 DEF AllInTail, HasTail, Free

\* A step that leaves the zone and the offset alone.
LEMMA ZoneSame ==
    ASSUME ZoneInv, UNCHANGED <<bus, sys>>,
           lib'.dsgtimezone = lib.dsgtimezone, lib'.dstOffset = lib.dstOffset,
           Renaming => Renaming',
           main' = "register" => main = "register",
           main' \in Before("tz") <=> main \in Before("tz"),
           stale \subseteq stale',
           "dst" \in stale' => "dst" \in stale \/ "zone" \in stale'
    PROVE  ZoneInv'
  BY DEF ZoneInv

\* A change of the managers that is not handled yet leaves the zone as it was.
LEMMA ZonePublish ==
    ASSUME Typed, FlowInv, ZoneInv, NEW g, NEW v, Publish(g, v), <<g, v>> \in Event
    PROVE  ZoneInv'
  <1>1. /\ sys' = [sys EXCEPT ![g] = v] /\ g \in Field
        /\ bus' = (IF main = "register" THEN bus ELSE Append(bus, <<g, v>>))
        /\ stale' = (IF main \in Window(g) THEN stale \cup {g} ELSE stale)
        /\ UNCHANGED <<conf, busy, main, param, lib>>
        /\ sys \in Values /\ bus \in Seq(Event)
    BY EventFact DEF Publish, Typed
  <1>2. /\ sys'.tz = (IF g = "tz" THEN v ELSE sys.tz)
        /\ sys'.dst = (IF g = "dst" THEN v ELSE sys.dst)
    BY <1>1 DEF Values, Field
  <1>3. g = "dst" => v # NoDst
    BY DEF Event, NoDst
  <1>4. CASE main = "register"
    <2>1. bus' = bus /\ stale' = stale
      BY <1>1, <1>4 DEF Window, Field
    <2> QED
      BY <1>1, <1>2, <1>3, <1>4, <2>1 DEF ZoneInv, Before, Renaming
  <1>5. CASE main # "register"
    <2>1. \A f \in Field : Concerns(<<g, v>>, f) <=> g = f
      BY EventFact
    <2>2. \A f \in {"tz", "dst"} : Free(bus', f) <=> (g # f /\ Free(bus, f))
      BY <1>1, <1>5, <2>1, FlowAppend DEF Field
    <2> QED
      BY <1>1, <1>2, <1>3, <1>5, <2>2 DEF ZoneInv, Renaming
  <1> QED
    BY <1>4, <1>5

\* A handler renames the zone, or leaves a step that will, when the zone or the offset
\* asks for it.
LEMMA ZoneBus ==
    ASSUME Typed, FlowInv, ZoneInv, BusThread
    PROVE  ZoneInv'
  <1>1. lib \in Lib /\ sys \in Values /\ lib.dsgtimezone \in Zones
    BY DEF Typed, Lib
  <1>2. CASE Handle
    <2> DEFINE f == Head(bus)[1]
               v == Head(bus)[2]
    <2>1. /\ bus # <<>> /\ bus' = Tail(bus) /\ lib' = Assigned(lib, f, v) /\ busy' = Rest(f, v)
          /\ stale' = StaleAfter(f, v) /\ UNCHANGED <<conf, main, param, sys>> /\ ~Renaming
      BY <1>2 DEF Handle, env, Renaming
    <2>2. /\ bus \in Seq(Event) /\ Head(bus) \in Event /\ main # "register"
      BY <2>1, TailFact DEF Typed, FlowInv
    <2>3. <<f, v>> \in Event /\ f \in Field
      BY <2>2, EventFact
    <2>4. /\ \A g \in Field : f # g => (Free(bus', g) <=> Free(bus, g))
          /\ f = "tz" /\ Free(bus', "tz") => v = sys.tz
          /\ sys.dst = NoDst => f # "dst" /\ Free(bus', "dst")
      <3>1. \A g \in Field : Concerns(Head(bus), g) <=> f = g
        BY <2>2, EventFact
      <3>2. Carried(Head(bus), f) = v
        BY <2>2, EventFact
      <3>3. LastIs(bus, "tz", sys.tz) /\ "tz" \in Field /\ "dst" \in Field
        BY DEF FlowInv, Field
      <3> QED
        BY <2>1, <2>2, <3>1, <3>2, <3>3, FlowTail DEF ZoneInv
    <2> HIDE DEF f, v
    <2>5. CASE f = "tz"
      <3>1. v \in Zone
        BY <2>3, <2>5 DEF Event
      <3>2. lib'.dsgtimezone = javaTZ(v) /\ lib'.dstOffset = lib.dstOffset
        BY <1>1, <2>1, <2>5 DEF Assigned, Lib
      <3>3. Renaming' \/ lib.dstOffset # 0
        <4>1. lib.dstOffset = 0 => Rest(f, v) = <<"rename", "TimeZone">>
          BY <2>5 DEF Rest, DstUnset
        <4> QED
          BY <2>1, <4>1 DEF Renaming
      <3>4. Renaming' \/ lib'.dsgtimezone = Renamed(lib'.dsgtimezone, lib'.dstOffset)
        BY <3>1, <3>2, <3>3, <1>1, NamesFact
      <3>5. Free(bus', "tz") => lib'.dsgtimezone \in Names(sys.tz)
        BY <2>4, <2>5, <3>1, <3>2, <1>1, NamesFact
      <3>6. "dst" \in stale' => "dst" \in stale /\ ("zone" \in stale => "zone" \in stale')
        BY <2>1, <2>5 DEF StaleAfter
      <3> QED
        BY <2>1, <2>2, <2>4, <3>4, <3>5, <3>6 DEF ZoneInv
    <2>6. CASE f = "dst"
      <3>1. lib'.dsgtimezone = lib.dsgtimezone
        BY <1>1, <2>1, <2>6 DEF Assigned, Lib
      <3>2. Renaming' \/ lib.dsgtimezone = None
        <4>1. lib.dsgtimezone # None => Rest(f, v) = <<"rename", "TimeZone">>
          BY <2>6 DEF Rest
        <4> QED
          BY <2>1, <4>1 DEF Renaming
      <3>3. Renaming' \/ lib'.dsgtimezone = Renamed(lib'.dsgtimezone, lib'.dstOffset)
        BY <3>1, <3>2, <1>1, NamesFact
      <3>4. "tz" \in stale => "tz" \in stale'
        BY <2>1, <2>6 DEF StaleAfter
      <3> QED
        BY <2>1, <2>2, <2>4, <2>6, <3>1, <3>3, <3>4 DEF ZoneInv, Field
    <2>7. CASE f \notin {"tz", "dst"}
      <3>1. lib'.dsgtimezone = lib.dsgtimezone /\ lib'.dstOffset = lib.dstOffset
        BY <1>1, <2>1, <2>3, <2>7 DEF Assigned, Lib, Field
      <3>2. \A x \in {"tz", "dst", "zone"} : x \in stale <=> x \in stale'
        BY <2>1, <2>3, <2>7 DEF StaleAfter, Field
      <3> QED
        BY <2>1, <2>2, <2>4, <2>7, <3>1, <3>2 DEF ZoneInv, Field
    <2> QED
      BY <2>5, <2>6, <2>7
  <1>3. CASE HandleStep
    <2>1. UNCHANGED <<bus, sys, stale, main>>
      BY <1>3 DEF HandleStep, env
    <2>2. CASE Renaming
      <3>1. lib'.dsgtimezone = Renamed(lib.dsgtimezone, lib.dstOffset)
            /\ lib'.dstOffset = lib.dstOffset
        BY <1>1, <1>3, <2>2 DEF HandleStep, Renaming, Lib, Var
      <3>2. main # "register"
        BY <2>2 DEF FlowInv, Renaming
      <3>3. sys.tz \in Zone \cup {None}
        BY <1>1 DEF Values
      <3> QED
        BY <1>1, <2>1, <3>1, <3>2, <3>3, NamesFact DEF ZoneInv
    <2>3. CASE ~Renaming
      <3>1. lib'.dsgtimezone = lib.dsgtimezone /\ lib'.dstOffset = lib.dstOffset
        BY <1>1, <1>3, <2>3 DEF HandleStep, BeginPrint, EndPrint, Renaming, Lib
      <3> QED
        BY <2>1, <2>3, <3>1, ZoneSame
    <2> QED
      BY <2>2, <2>3
  <1> QED
    BY <1>2, <1>3 DEF BusThread

\* The answer, assigned by the start, gives the zone the name that goes with the offset.
LEMMA ZoneMain ==
    ASSUME Typed, FlowInv, ZoneInv, ~conf.client, conf.useGliDiag,
           Start \/ GetSystemIds \/ Answer \/ GetTimeZone \/ Subscribe
    PROVE  ZoneInv'
  <1>1. lib \in Lib /\ sys \in Values /\ lib.dsgtimezone \in Zones /\ main \in Places
        /\ sys.tz \in Zone \cup {None}
    BY DEF Typed, Lib, Values
  <1>2. UNCHANGED <<bus, busy, sys>> /\ (Renaming => Renaming') /\ main' # "register"
    BY DEF Start, Register, Call, AssignId, AssignTz, AssignDst, AssignTune, AssignSerial,
           PrintUrls, EndUrls, SerialNumber, CallRoute, AssignRoute, UpdateXml, RootDevice,
           TuneReady, PrefixFile, Prefix, Announce, Connect, Fail, GetSystemIds, Answer, GetTimeZone,
           Subscribe, AssignedAs, At, env, Renaming
  <1>3. CASE Register \/ Call
    <2>1. /\ main \in {"register", "call"} /\ main' \in {"call", "assign_id"} /\ UNCHANGED lib
          /\ stale \subseteq stale' /\ ("dst" \in stale' => "dst" \in stale \/ "zone" \in stale')
      BY <1>3 DEF Register, Call, Same, At
    <2> QED
      BY <1>2, <2>1, ZoneSame DEF Before
  <1>4. CASE AssignId \/ AssignTune \/ AssignSerial
    <2>1. /\ lib'.dsgtimezone = lib.dsgtimezone /\ lib'.dstOffset = lib.dstOffset /\ stale' = stale
      BY <1>1, <1>4 DEF AssignId, AssignTune, AssignSerial, AssignedAs, Assigned, Lib
    <2>2. main' \in Before("tz") <=> main \in Before("tz")
      BY <1>4 DEF AssignId, AssignTune, AssignSerial, AssignedAs, At, Before
    <2> QED
      BY <1>2, <2>1, <2>2, ZoneSame
  <1>5. CASE AssignTz
    <2>1. /\ main = "assign_tz" /\ main' = "assign_dst" /\ UNCHANGED <<param, stale>>
          /\ lib' = IF param.tz = None THEN lib
                    ELSE [lib EXCEPT !.dsgtimezone = Renamed(javaTZ(param.tz), lib.dstOffset)]
      BY <1>5 DEF AssignTz, AssignedAs, At
    <2>2. param.tz \in Zone \cup {None} /\ ("tz" \notin stale => param.tz = sys.tz)
      BY <2>1 DEF Typed, Holding, Values, FlowInv, AnswerInv, Window
    <2>3. /\ lib'.dstOffset = lib.dstOffset
          /\ lib'.dsgtimezone = (IF param.tz = None THEN lib.dsgtimezone
                                 ELSE Renamed(javaTZ(param.tz), lib.dstOffset))
      BY <1>1, <2>1 DEF Lib
    <2>4. Renaming \/ lib'.dsgtimezone = Renamed(lib'.dsgtimezone, lib'.dstOffset)
      BY <1>1, <2>2, <2>3, NamesFact DEF ZoneInv
    <2>5. Free(bus, "tz") => lib'.dsgtimezone \in Names(sys.tz) \/ "tz" \in stale
      BY <1>1, <2>1, <2>2, <2>3, NamesFact DEF ZoneInv
    <2> QED
      BY <1>2, <2>1, <2>4, <2>5 DEF ZoneInv, Before, Renaming
  <1>6. CASE AssignDst
    <2>1. /\ main = "assign_dst" /\ main' = "assign_tune" /\ UNCHANGED <<param, stale>>
          /\ lib' = IF param.dst = NoDst THEN lib
                    ELSE [lib EXCEPT !.dstOffset = param.dst,
                                     !.dsgtimezone = Renamed(lib.dsgtimezone, param.dst)]
      BY <1>6 DEF AssignDst, AssignedAs, At
    <2>2. CASE param.dst = NoDst
      BY <1>2, <2>1, <2>2, ZoneSame DEF Before
    <2>3. CASE param.dst # NoDst
      <3>1. /\ lib'.dstOffset = param.dst
            /\ lib'.dsgtimezone = Renamed(lib.dsgtimezone, param.dst)
        BY <1>1, <2>1, <2>3 DEF Lib
      <3> QED
        BY <1>1, <1>2, <2>1, <3>1, NamesFact DEF ZoneInv, Before
    <2> QED
      BY <2>2, <2>3
  <1>7. CASE PrintUrls \/ EndUrls \/ GetSystemIds \/ Answer \/ GetTimeZone \/ Subscribe
    <2>1. /\ lib'.dsgtimezone = lib.dsgtimezone /\ lib'.dstOffset = lib.dstOffset /\ stale' = stale
      BY <1>1, <1>7
      DEF PrintUrls, EndUrls, GetSystemIds, Answer, BeginPrint, EndPrint, GetTimeZone, Subscribe,
          DsgZone, Lib
    <2>2. main' \in Before("tz") <=> main \in Before("tz")
      BY <1>7 DEF PrintUrls, EndUrls, GetSystemIds, Answer, GetTimeZone, Subscribe, At, Before
    <2> QED
      BY <1>2, <2>1, <2>2, ZoneSame
  <1>8. CASE \/ SerialNumber \/ CallRoute \/ AssignRoute \/ UpdateXml \/ RootDevice
             \/ TuneReady \/ PrefixFile \/ Prefix \/ Announce \/ Connect \/ Fail
    <2>1. /\ lib'.dsgtimezone = lib.dsgtimezone /\ lib'.dstOffset = lib.dstOffset
          /\ stale \subseteq stale' /\ ("dst" \in stale' => "dst" \in stale)
      <3>1. CASE SerialNumber
        BY <1>1, <3>1 DEF SerialNumber, getserialnum, Lib
      <3>4. CASE CallRoute \/ AssignRoute
        BY <1>1, <3>4 DEF CallRoute, AssignRoute, AssignedAs, Assigned, Lib
      <3>2. CASE UpdateXml \/ RootDevice \/ PrefixFile \/ Connect \/ Fail
        BY <3>2 DEF UpdateXml, RootDevice, PrefixFile, Connect, Fail, Same
      <3>3. CASE Prefix \/ Announce
        BY <1>1, <3>3 DEF Prefix, Announce, Lib
      <3>5. CASE TuneReady
        BY <1>1, <3>5 DEF TuneReady, Lib
      <3> QED
        BY <1>8, <3>1, <3>2, <3>3, <3>4, <3>5
    <2>2. main' \in Before("tz") <=> main \in Before("tz")
      BY <1>8 DEF SerialNumber, CallRoute, AssignRoute, AssignedAs, UpdateXml, RootDevice,
                  TuneReady, PrefixFile, Prefix, Announce, Connect, Fail, At, Before
    <2> QED
      BY <1>2, <2>1, <2>2, ZoneSame
  <1> QED
    BY <1>3, <1>4, <1>5, <1>6, <1>7, <1>8 DEF Start

\* A step that leaves the zone, the offset and the events alone.
LEMMA PlainSame ==
    ASSUME PlainInv, UNCHANGED <<bus, sys, was0>>,
           lib'.dsgtimezone = lib.dsgtimezone, lib'.dstOffset = lib.dstOffset,
           main' \in Before("tz") <=> main \in Before("tz"),
           main' \in Before("dst") <=> main \in Before("dst"),
           main' \in Window("dst") => main \in Window("dst") /\ param' = param,
           \A x \in {"tz", "dst", "zone"} : x \in stale' <=> x \in stale
    PROVE  PlainInv'
  BY DEF PlainInv, OffsetKept, Keeping

\* While the zone keeps its name, no offset of 0 can rename it.
LEMMA KeepingFact ==
    ASSUME Typed, PlainInv, ~was0, Keeping
    PROVE  lib.dstOffset # 0
  <1>1. bus \in Seq(Event)
    BY DEF Typed
  <1>2. AllInTail(bus) /\ (~Free(bus, "dst") => HasTail(bus))
    BY <1>1, FreeTail DEF Keeping
  <1> QED
    BY <1>2 DEF PlainInv, Keeping, DstUnset

\* A change of the managers names no zone.
LEMMA PlainPublish ==
    ASSUME Typed, FlowInv, ZoneInv, PlainInv, NEW g, NEW v, Publish(g, v), <<g, v>> \in Event
    PROVE  PlainInv'
  <1> SUFFICES ASSUME ~was0' PROVE PlainInv'
    BY DEF PlainInv
  <1>1. /\ sys' = [sys EXCEPT ![g] = v] /\ g \in Field /\ v # sys[g]
        /\ bus' = (IF main = "register" THEN bus ELSE Append(bus, <<g, v>>))
        /\ stale' = (IF main \in Window(g) THEN stale \cup {g} ELSE stale)
        /\ UNCHANGED <<conf, busy, main, param, lib>>
        /\ sys \in Values /\ bus \in Seq(Event) /\ lib \in Lib
    BY EventFact DEF Publish, Typed
  <1>2. /\ sys'.tz = (IF g = "tz" THEN v ELSE sys.tz)
        /\ sys'.dst = (IF g = "dst" THEN v ELSE sys.dst)
    BY <1>1 DEF Values, Field
  <1>3. /\ \A f \in Field : Concerns(<<g, v>>, f) <=> g = f
        /\ <<g, v>>[1] = g
    BY EventFact
  <1>4. main # "register" =>
          \A f \in {"tz", "dst"} : Free(bus', f) <=> (g # f /\ Free(bus, f))
    BY <1>1, <1>3, FlowAppend DEF Field
  <1>5. main = "register" =>
          /\ bus' = <<>> /\ stale' = stale
          /\ lib.dstOffset = DstUnset /\ lib.dsgtimezone = None
          /\ main \in Before("tz") /\ main \notin Window("dst")
    BY <1>1 DEF FlowInv, Reached, ZoneInv, Window, Before, Field
  <1>6. ASSUME main = "register", sys'.dst # 0 PROVE PlainInv'
    <2>1. First(<<>>) /\ Met(<<>>) /\ ~HasTail(<<>>)
      BY DEF First, Met, HasTail
    <2> QED
      BY <1>1, <1>5, <1>6, <2>1 DEF PlainInv, DstUnset
  <1>7. CASE g \notin {"tz", "dst"}
    <2>1. ~was0 /\ sys'.dst = sys.dst /\ sys'.tz = sys.tz /\ sys.dst # 0
      BY <1>2, <1>7 DEF Publish, PlainInv
    <2>2. CASE main # "register"
      <3>1. /\ First(bus') /\ Met(bus')
            /\ AllInTail(bus') => AllInTail(bus)
            /\ HasTail(bus') => HasTail(bus)
        BY <1>1, <1>3, <1>7, <2>1, <2>2, MetAppend DEF PlainInv
      <3>2. \A x \in {"tz", "dst", "zone"} : x \in stale' <=> x \in stale
        BY <1>1, <1>7 DEF Field
      <3>3. (OffsetKept' <=> OffsetKept) /\ (Keeping' <=> Keeping)
        BY <1>1, <1>4, <1>7, <2>2, <3>2 DEF OffsetKept, Keeping
      <3> QED
        BY <1>1, <2>1, <3>1, <3>2, <3>3 DEF PlainInv
    <2> QED
      BY <1>6, <2>1, <2>2
  <1>8. CASE g = "tz"
    <2>1. sys.dst # 0 /\ sys'.dst = sys.dst
      BY <1>2, <1>8 DEF Publish
    <2>2. CASE main # "register"
      <3>1. LastIs(bus, "dst", 60)
        <4>1. LastIs(bus, "dst", sys.dst) /\ sys.dst \in {60, NoDst}
          BY <1>1, <2>1 DEF FlowInv, Field, Values
        <4>2. sys.dst = NoDst => Free(bus, "dst")
          BY DEF ZoneInv
        <4> QED
          BY <4>1, <4>2 DEF LastIs, Free
      <3>2. /\ First(bus') /\ Met(bus') /\ ~HasTail(bus')
            /\ AllInTail(bus') => Free(bus, "dst")
        BY <1>1, <1>3, <1>8, <2>2, <3>1, MetAppend
      <3>3. Offset(sys.dst) # 0
        BY <2>1 DEF Offset, DstUnset
      <3>4. OffsetKept' => OffsetKept
        BY <1>1 DEF OffsetKept
      <3>5. Free(bus, "dst") /\ OffsetKept => lib.dstOffset # 0
        BY <3>3 DEF FlowInv, Reached, OffsetKept, DstUnset
      <3>6. ~Keeping'
        BY <1>4, <1>8, <2>2 DEF Keeping
      <3> QED
        BY <1>1, <2>1, <3>2, <3>4, <3>5, <3>6 DEF PlainInv
    <2> QED
      BY <1>6, <2>1, <2>2
  <1>9. CASE g = "dst"
    <2>1. ~was0 /\ v # 0
      BY <1>9 DEF Publish
    <2>2. v = 60 /\ sys'.dst = 60 /\ sys.dst = NoDst
      BY <1>1, <1>2, <1>9, <2>1 DEF Event, Values, PlainInv
    <2>3. Free(bus, "dst") /\ ("dst" \in stale => "zone" \in stale)
      BY <2>2 DEF ZoneInv
    <2>4. CASE main # "register"
      <3>1. First(bus') /\ Met(bus')
        BY <1>1, <1>9, <2>2, <2>3, <2>4, MetAppend
      <3>2. OffsetKept => lib.dstOffset = DstUnset
        BY <2>2, <2>3 DEF FlowInv, Reached, OffsetKept, Offset
      <3>3. OffsetKept' => OffsetKept
        BY <1>1 DEF OffsetKept
      <3>4. \/ {"zone", "dst"} \subseteq stale'
            \/ /\ lib.dstOffset \in {60, DstUnset}
               /\ main \in Window("dst") => param.dst \in {60, NoDst}
        <4>1. CASE "dst" \in stale
          BY <1>1, <2>3, <4>1
        <4>2. CASE "dst" \notin stale
          BY <2>2, <3>2, <4>2 DEF FlowInv, AnswerInv, OffsetKept
        <4> QED
          BY <4>1, <4>2
      <3>5. Keeping' => Keeping
        BY <1>1, <1>4, <1>9, <2>3, <2>4 DEF Keeping, OffsetKept
      <3>6. sys'.tz = sys.tz
        BY <1>2, <1>9
      <3> QED
        BY <1>1, <2>1, <2>2, <3>1, <3>2, <3>3, <3>4, <3>5, <3>6 DEF PlainInv, DstUnset
    <2> QED
      BY <1>6, <2>2, <2>4
  <1> QED
    BY <1>7, <1>8, <1>9

\* A handler takes the own name of the zone away only for want of an offset.
LEMMA PlainBus ==
    ASSUME Typed, FlowInv, ZoneInv, PlainInv, BusThread
    PROVE  PlainInv'
  <1>1. lib \in Lib /\ sys \in Values /\ lib.dsgtimezone \in Zones
    BY DEF Typed, Lib
  <1> SUFFICES ASSUME ~was0 PROVE PlainInv'
    <2>1. UNCHANGED was0
      BY DEF BusThread, Handle, HandleStep, env
    <2> QED
      BY <2>1 DEF PlainInv
  <1>2. CASE Handle
    <2> DEFINE f == Head(bus)[1]
               v == Head(bus)[2]
    <2>1. /\ bus # <<>> /\ bus' = Tail(bus) /\ lib' = Assigned(lib, f, v)
          /\ stale' = StaleAfter(f, v) /\ UNCHANGED <<conf, main, param, sys>>
      BY <1>2 DEF Handle, env
    <2>2. /\ bus \in Seq(Event) /\ Head(bus) \in Event
      BY <2>1, TailFact DEF Typed
    <2>3. <<f, v>> \in Event /\ f \in Field
      BY <2>2, EventFact
    <2>4. /\ \A g \in Field : f # g => (Free(bus', g) <=> Free(bus, g))
          /\ f = "tz" /\ Free(bus', "tz") => v = sys.tz
          /\ f = "dst" => ~Free(bus, "dst")
      <3>1. \A g \in Field : Concerns(Head(bus), g) <=> f = g
        BY <2>2, EventFact
      <3>2. Carried(Head(bus), f) = v
        BY <2>2, EventFact
      <3>3. LastIs(bus, "tz", sys.tz) /\ "tz" \in Field /\ "dst" \in Field
        BY DEF FlowInv, Field
      <3> QED
        BY <2>1, <2>2, <3>1, <3>2, <3>3, FlowTail DEF ZoneInv
    <2>5. /\ First(bus') /\ Met(bus')
          /\ HasTail(bus') => HasTail(bus)
          /\ f # "dst" /\ AllInTail(bus') => AllInTail(bus)
          /\ f = "dst" /\ AllInTail(bus') => v = 60
          /\ f = "dst" => ~HasTail(bus')
      BY <2>1, <2>2, MetTail DEF PlainInv
    <2> HIDE DEF f, v
    <2>6. CASE f = "tz"
      <3>1. lib'.dsgtimezone = javaTZ(v) /\ lib'.dstOffset = lib.dstOffset /\ v \in Zone
        BY <1>1, <2>1, <2>3, <2>6 DEF Assigned, Lib, Event
      <3>2. Keeping' => lib'.dsgtimezone = Plain(sys.tz)
        BY <1>1, <2>4, <2>6, <3>1, NamesFact DEF Keeping
      <3>3. ("dst" \in stale' <=> "dst" \in stale)
            /\ ("dst" \in stale /\ "zone" \in stale => "zone" \in stale')
        BY <2>1, <2>6 DEF StaleAfter
      <3>4. OffsetKept' => OffsetKept
        BY <2>1, <3>3 DEF OffsetKept
      <3> QED
        BY <2>1, <2>5, <2>6, <3>1, <3>2, <3>3, <3>4 DEF PlainInv
    <2>7. CASE f = "dst"
      <3>1. lib'.dsgtimezone = lib.dsgtimezone /\ lib'.dstOffset = v
        BY <1>1, <2>1, <2>7 DEF Assigned, Lib
      <3>2. ("tz" \in stale' <=> "tz" \in stale) /\ ("zone" \in stale' <=> "zone" \in stale)
        BY <2>1, <2>7 DEF StaleAfter
      <3>3. Keeping' => Keeping
        BY <2>1, <2>4, <2>7, <3>2 DEF Keeping, Field
      <3> QED
        BY <2>1, <2>5, <2>7, <3>1, <3>3 DEF PlainInv
    <2>8. CASE f \notin {"tz", "dst"}
      <3>1. lib'.dsgtimezone = lib.dsgtimezone /\ lib'.dstOffset = lib.dstOffset
        BY <1>1, <2>1, <2>3, <2>8 DEF Assigned, Lib, Field
      <3>2. \A x \in {"tz", "dst", "zone"} : x \in stale' <=> x \in stale
        BY <2>1, <2>3, <2>8 DEF StaleAfter, Field
      <3>3. (OffsetKept' <=> OffsetKept) /\ (Keeping' <=> Keeping)
        BY <2>1, <2>4, <2>8, <3>2 DEF OffsetKept, Keeping, Field
      <3> QED
        BY <2>1, <2>5, <2>8, <3>1, <3>2, <3>3 DEF PlainInv
    <2> QED
      BY <2>6, <2>7, <2>8
  <1>3. CASE HandleStep
    <2>1. UNCHANGED <<bus, sys, stale, main, param, was0>>
      BY <1>3 DEF HandleStep, env
    <2>2. CASE Renaming
      <3>1. lib'.dsgtimezone = Renamed(lib.dsgtimezone, lib.dstOffset)
            /\ lib'.dstOffset = lib.dstOffset
        BY <1>1, <1>3, <2>2 DEF HandleStep, Renaming, Lib, Var
      <3>2. Keeping => lib.dstOffset # 0
        BY <2>2, KeepingFact
      <3>3. Keeping => lib'.dsgtimezone = lib.dsgtimezone
        BY <1>1, <3>1, <3>2, NamesFact
      <3> QED
        BY <2>1, <3>1, <3>3 DEF PlainInv, Keeping, OffsetKept
    <2>3. CASE ~Renaming
      <3>1. lib'.dsgtimezone = lib.dsgtimezone /\ lib'.dstOffset = lib.dstOffset
        BY <1>1, <1>3, <2>3 DEF HandleStep, BeginPrint, EndPrint, Renaming, Lib
      <3> QED
        BY <2>1, <3>1, PlainSame
    <2> QED
      BY <2>2, <2>3
  <1> QED
    BY <1>2, <1>3 DEF BusThread

\* So does the start.
LEMMA PlainMain ==
    ASSUME Typed, FlowInv, PathInv, ZoneInv, PlainInv, ~conf.client, conf.useGliDiag,
           Start \/ GetSystemIds \/ Answer \/ GetTimeZone \/ Subscribe
    PROVE  PlainInv'
  <1>1. lib \in Lib /\ sys \in Values /\ lib.dsgtimezone \in Zones /\ main \in Places
        /\ sys.tz \in Zone \cup {None} /\ bus \in Seq(Event)
    BY DEF Typed, Lib, Values
  <1>2. UNCHANGED <<bus, busy, sys, was0>>
    BY DEF Start, Register, Call, AssignId, AssignTz, AssignDst, AssignTune, AssignSerial,
           PrintUrls, EndUrls, SerialNumber, CallRoute, AssignRoute, UpdateXml, RootDevice,
           TuneReady, PrefixFile, Prefix, Announce, Connect, Fail, GetSystemIds, Answer, GetTimeZone,
           Subscribe, AssignedAs, At, env
  <1> SUFFICES ASSUME ~was0 PROVE PlainInv'
    BY <1>2 DEF PlainInv
  <1>3. CASE Register
    <2>1. main = "register" /\ main' = "call" /\ UNCHANGED <<lib, stale, param>>
      BY <1>3 DEF Register, Same, At
    <2> QED
      BY <1>2, <2>1, PlainSame DEF Before, Window
  <1>4. CASE Call
    <2>1. main = "call" /\ main' = "assign_id" /\ UNCHANGED lib
      BY <1>4 DEF Call, At
    <2>2. \/ param' = sys /\ stale' = stale
          \/ stale' = stale \cup (Field \ {"route"}) \cup {"zone"}
      BY <1>4 DEF Call
    <2>3. HasTail(bus) =>
            {"zone", "dst"} \subseteq stale' \/ (stale' = stale /\ param'.dst = 60)
      BY <2>2 DEF PlainInv, Field
    <2>4. Keeping' => Keeping
      BY <1>2, <2>1, <2>2 DEF Keeping, OffsetKept, Before
    <2> QED
      BY <1>2, <2>1, <2>2, <2>3, <2>4 DEF PlainInv, OffsetKept, Before
  <1>5. CASE AssignId \/ AssignTune \/ AssignSerial
    <2>1. /\ lib'.dsgtimezone = lib.dsgtimezone /\ lib'.dstOffset = lib.dstOffset /\ stale' = stale
      BY <1>1, <1>5 DEF AssignId, AssignTune, AssignSerial, AssignedAs, Assigned, Lib
    <2>2. \/ main = "assign_id" /\ main' = "assign_tz" /\ param' = param
          \/ main = "assign_tune" /\ main' = "assign_serial"
          \/ main = "assign_serial" /\ main' = "print"
      BY <1>5 DEF AssignId, AssignTune, AssignSerial, AssignedAs, At
    <2> QED
      BY <1>2, <2>1, <2>2, PlainSame DEF Before, Window
  <1>6. CASE AssignTz
    <2>1. /\ main = "assign_tz" /\ main' = "assign_dst" /\ UNCHANGED <<param, stale>>
          /\ lib' = IF param.tz = None THEN lib
                    ELSE [lib EXCEPT !.dsgtimezone = Renamed(javaTZ(param.tz), lib.dstOffset)]
      BY <1>6 DEF AssignTz, AssignedAs, At
    <2>2. param.tz \in Zone \cup {None} /\ ("tz" \notin stale => param.tz = sys.tz)
      BY <2>1 DEF Typed, Holding, Values, FlowInv, AnswerInv, Window
    <2>3. /\ lib'.dstOffset = lib.dstOffset
          /\ lib'.dsgtimezone = (IF param.tz = None THEN lib.dsgtimezone
                                 ELSE Renamed(javaTZ(param.tz), lib.dstOffset))
      BY <1>1, <2>1 DEF Lib
    <2>4. (Keeping' <=> Keeping) /\ OffsetKept /\ OffsetKept'
      BY <1>2, <2>1 DEF Keeping, OffsetKept, Before
    <2>5. ASSUME Keeping PROVE lib'.dsgtimezone = Plain(sys.tz)
      <3>1. lib.dstOffset # 0 /\ param.tz = sys.tz
        BY <2>2, <2>4, <2>5, KeepingFact DEF Keeping
      <3>2. CASE sys.tz = None
        <4>1. lib.dsgtimezone = Plain(sys.tz) \/ lib.dsgtimezone = None
          BY <2>5 DEF PlainInv
        <4>2. Plain(sys.tz) = None
          BY <3>2 DEF Plain
        <4> QED
          BY <2>3, <3>1, <3>2, <4>1, <4>2
      <3>3. CASE sys.tz # None
        <4>1. sys.tz \in Zone
          BY <1>1, <3>3
        <4>2. javaTZ(sys.tz) \in Zones /\ Plain(sys.tz) = javaTZ(sys.tz)
          BY <1>1, <4>1, NamesFact
        <4>3. Renamed(javaTZ(sys.tz), lib.dstOffset) = javaTZ(sys.tz)
          BY <3>1, <4>2, NamesFact
        <4> QED
          BY <2>3, <3>1, <3>3, <4>2, <4>3
      <3> QED
        BY <3>2, <3>3
    <2>6. main' \in Window("dst") => main \in Window("dst")
      BY <2>1 DEF Window
    <2> QED
      BY <1>2, <2>1, <2>3, <2>4, <2>5, <2>6 DEF PlainInv
  <1>7. CASE AssignDst
    <2>1. /\ main = "assign_dst" /\ main' = "assign_tune" /\ UNCHANGED <<param, stale>>
          /\ lib' = IF param.dst = NoDst THEN lib
                    ELSE [lib EXCEPT !.dstOffset = param.dst,
                                     !.dsgtimezone = Renamed(lib.dsgtimezone, param.dst)]
      BY <1>7 DEF AssignDst, AssignedAs, At
    <2>2. /\ lib'.dstOffset = (IF param.dst = NoDst THEN lib.dstOffset ELSE param.dst)
          /\ lib'.dsgtimezone = (IF param.dst = NoDst THEN lib.dsgtimezone
                                 ELSE Renamed(lib.dsgtimezone, param.dst))
      BY <1>1, <2>1 DEF Lib
    <2>3. OffsetKept /\ (OffsetKept' <=> "dst" \notin stale)
          /\ main \in Window("dst") /\ main' \notin Window("dst") /\ main' \notin Before("tz")
          /\ main \notin Before("tz")
      BY <2>1 DEF OffsetKept, Before, Window
    <2>4. "dst" \notin stale => param.dst # 0
      BY <2>3 DEF FlowInv, AnswerInv, PlainInv
    <2>5. OffsetKept' /\ AllInTail(bus) => lib'.dstOffset # 0
      BY <2>2, <2>3, <2>4 DEF PlainInv
    <2>6. HasTail(bus) =>
            {"zone", "dst"} \subseteq stale
            \/ (lib'.dstOffset \in {60, DstUnset} /\ param.dst \in {60, NoDst})
      BY <2>2, <2>3 DEF PlainInv
    <2>7. Keeping' => Keeping
      BY <1>2, <2>1, <2>3 DEF Keeping
    <2>8. ASSUME Keeping' PROVE lib'.dsgtimezone = lib.dsgtimezone
      <3>1. OffsetKept' \/ HasTail(bus)
        BY <1>1, <1>2, <2>8, FreeTail DEF Keeping
      <3>2. param.dst # 0
        BY <2>1, <2>3, <2>4, <2>6, <2>8, <3>1 DEF Keeping, NoDst
      <3> QED
        BY <1>1, <2>2, <3>2, NamesFact
    <2> QED
      BY <1>2, <2>1, <2>3, <2>5, <2>6, <2>7, <2>8 DEF PlainInv
  <1>8. CASE PrintUrls \/ EndUrls \/ GetSystemIds \/ Answer \/ GetTimeZone \/ Subscribe
    <2>1. /\ lib'.dsgtimezone = lib.dsgtimezone /\ lib'.dstOffset = lib.dstOffset /\ stale' = stale
      BY <1>1, <1>8
      DEF PrintUrls, EndUrls, GetSystemIds, Answer, BeginPrint, EndPrint, GetTimeZone, Subscribe,
          DsgZone, Lib
    <2>2. /\ main \in {"print", "printed", "up", "answer"}
          /\ main' \in {"printed", "serial", "up", "answer"}
      BY <1>8 DEF PrintUrls, EndUrls, GetSystemIds, Answer, GetTimeZone, Subscribe, At
    <2> QED
      BY <1>2, <2>1, <2>2, PlainSame DEF Before, Window
  <1>9. CASE \/ SerialNumber \/ UpdateXml \/ RootDevice
             \/ TuneReady \/ PrefixFile \/ Prefix \/ Announce \/ Connect \/ Fail
    <2>1. /\ lib'.dsgtimezone = lib.dsgtimezone /\ lib'.dstOffset = lib.dstOffset
          /\ \A x \in {"tz", "dst", "zone"} : x \in stale' <=> x \in stale
      <3>1. CASE SerialNumber
        BY <1>1, <3>1 DEF SerialNumber, getserialnum, Lib
      <3>2. CASE UpdateXml \/ RootDevice \/ PrefixFile \/ Connect \/ Fail
        BY <3>2 DEF UpdateXml, RootDevice, PrefixFile, Connect, Fail, Same
      <3>3. CASE Prefix \/ Announce
        BY <1>1, <3>3 DEF Prefix, Announce, Lib
      <3>5. CASE TuneReady
        BY <1>1, <3>5 DEF TuneReady, Lib
      <3> QED
        BY <1>9, <3>1, <3>2, <3>3, <3>5
    <2>2. /\ main \in {"serial", "xml", "device", "tune", "prefix_file", "prefix", "publish",
                       "connect"}
          /\ main' \in {"xml", "device", "tune", "prefix_file", "prefix", "publish",
                        "connect", "up", "ended"}
      BY <1>9 DEF SerialNumber, UpdateXml, RootDevice,
                  TuneReady, PrefixFile, Prefix, Announce, Connect, Fail, At
    <2> QED
      BY <1>2, <2>1, <2>2, PlainSame DEF Before, Window
  <1>10. ~CallRoute /\ ~AssignRoute
    BY DEF PathInv, CallRoute, AssignRoute, AssignedAs, At
  <1> QED
    BY <1>3, <1>4, <1>5, <1>6, <1>7, <1>8, <1>9, <1>10 DEF Start

\* For a gateway whose zone comes from the system manager.
ZoneSafe == ~conf.client /\ conf.useGliDiag => ZoneInv /\ PlainInv

\* At first there is no zone to name.
LEMMA ZoneInit == Init => PathInv /\ FlowInv /\ ZoneSafe
  <1> SUFFICES ASSUME Init PROVE PathInv /\ FlowInv /\ ZoneSafe
    OBVIOUS
  <1>1. /\ sys \in Sys /\ bus = <<>> /\ busy = <<>> /\ main = "register" /\ stale = {}
        /\ was0 = (sys.dst = 0)
        /\ lib.dsgtimezone = None /\ lib.dstOffset = DstUnset
    BY DEF Init
  <1>2. PathInv
    BY <1>1 DEF PathInv
  <1>3. ZoneInv
    BY <1>1 DEF ZoneInv, Free, Before, Renamed, None
  <1>4. First(<<>>) /\ Met(<<>>) /\ ~HasTail(<<>>)
    BY DEF First, Met, HasTail
  <1>5. ~was0 => sys.dst # 0
    BY Zenon, <1>1
  <1>6. PlainInv
    <2>1. lib.dstOffset # 0 /\ main \in Before("tz")
      BY <1>1 DEF Before, DstUnset
    <2>2. First(bus) /\ Met(bus) /\ ~HasTail(bus)
      BY <1>1, <1>4
    <2> QED
      BY Zenon, <1>1, <1>5, <2>1, <2>2 DEF PlainInv
  <1> QED
    BY <1>2, <1>3, <1>6, FlowInit DEF ZoneSafe

\* The configuration is never changed.
LEMMA ConfKept == [Next]_vars => UNCHANGED conf
  <1> SUFFICES ASSUME [Next]_vars PROVE UNCHANGED conf
    OBVIOUS
  <1>1. CASE Managers
    BY <1>1
    DEF Managers, NewTune, NewId, NewZone, NewDst, NewSerial, NewRoute, NewFile, Publish
  <1>2. CASE BusThread \/ Deliver \/ UNCHANGED vars
    BY <1>2 DEF BusThread, Handle, HandleStep, Deliver, vars, env
  <1>3. CASE Register \/ Call \/ PrintUrls \/ EndUrls \/ SerialNumber
    BY <1>3 DEF Register, Call, PrintUrls, EndUrls, SerialNumber, At, env
  <1>4. CASE AssignId \/ AssignTz \/ AssignDst \/ AssignTune \/ AssignSerial
    BY <1>4
    DEF AssignId, AssignTz, AssignDst, AssignTune, AssignSerial, AssignedAs, At, env
  <1>5. CASE CallRoute \/ AssignRoute \/ UpdateXml
    BY <1>5 DEF CallRoute, AssignRoute, UpdateXml, AssignedAs, At, env
  <1>6. CASE RootDevice \/ TuneReady \/ PrefixFile \/ Prefix \/ Announce \/ Connect \/ Fail
    BY <1>6 DEF RootDevice, TuneReady, PrefixFile, Prefix, Announce, Connect, Fail, At, env
  <1>7. CASE GetSystemIds \/ Answer \/ GetTimeZone \/ Subscribe
    BY <1>7 DEF GetSystemIds, Answer, GetTimeZone, Subscribe, At, env
  <1> QED
    BY <1>1, <1>2, <1>3, <1>4, <1>5, <1>6, <1>7 DEF Next, Start

\* Every step keeps the name of the zone.
LEMMA ZoneNext == Typed /\ PathInv /\ FlowInv /\ ZoneSafe /\ [Next]_vars => ZoneSafe'
  <1> SUFFICES ASSUME Typed, PathInv, FlowInv, ZoneSafe, [Next]_vars PROVE ZoneSafe'
    OBVIOUS
  <1> SUFFICES ASSUME ZoneInv, PlainInv, ~conf.client, conf.useGliDiag
               PROVE  ZoneInv' /\ PlainInv'
    BY ConfKept DEF ZoneSafe
  <1>1. ASSUME UNCHANGED <<bus, busy, sys, stale, main, param, lib, was0>>
        PROVE  ZoneInv' /\ PlainInv'
    BY <1>1, ZoneSame, PlainSame DEF Renaming
  <1>2. CASE Managers
    BY <1>1, <1>2, ManagersPublish, ZonePublish, PlainPublish DEF NewFile
  <1>3. CASE Deliver \/ UNCHANGED vars
    BY <1>1, <1>3 DEF Deliver, vars, env
  <1> QED
    BY <1>2, <1>3, ZoneBus, ZoneMain, PlainBus, PlainMain DEF Next

\* The zone and the DST offset reach the library by the events and by the answer, in
\* any order: without DST the zone gets the name of the one that never has it, and with
\* DST it keeps its own, however many of either are on their way.
THEOREM ZoneAlways == Spec => []ZoneNamed
  <1>1. Typed /\ FlowInv /\ ZoneSafe => ZoneNamed
    <2> SUFFICES ASSUME Typed, FlowInv, ZoneInv, PlainInv, Settled, ~conf.client,
                        main \notin {"register", "call"} \cup Window("dst"),
                        sys.tz # None, stale \cap {"tz", "dst", "zone"} = {}
                 PROVE  /\ sys.dst = 0 =>
                             lib.dsgtimezone = CASE sys.tz = "MST" -> "US/Arizona"
                                                 [] sys.tz = "CST" -> "Canada/Saskatchewan"
                                                 [] sys.tz = "EST" -> "US/Eastern"
                        /\ sys.dst # 0 /\ ~was0 => lib.dsgtimezone = javaTZ(sys.tz)
      BY DEF ZoneNamed, ZoneSafe
    <2>1. sys.tz \in Zone /\ sys.tz \in {"MST", "CST", "EST"}
      BY ConfAssumption DEF Typed, Values
    <2>2. Free(bus, "tz") /\ Free(bus, "dst") /\ ~Renaming
      BY DEF Settled, Free, Renaming
    <2>3. main \notin Before("tz") /\ main \notin Before("dst") /\ Asked("dst")
      BY DEF Before, Window, Asked
    <2>4. lib.dsgtimezone \in {javaTZ(sys.tz), Renamed(javaTZ(sys.tz), 0)}
      BY <2>1, <2>2, <2>3 DEF ZoneInv, Names
    <2>5. sys.dst = 0 => lib.dstOffset = 0
      BY <2>2, <2>3 DEF FlowInv, Reached, Offset, NoDst
    <2>6. lib.dsgtimezone = Renamed(lib.dsgtimezone, lib.dstOffset)
      BY <2>2 DEF ZoneInv
    <2>7. sys.dst = 0 => lib.dsgtimezone = Renamed(javaTZ(sys.tz), 0)
      BY <2>1, <2>4, <2>5, <2>6 DEF Renamed, javaTZ
    <2>8. Renamed(javaTZ(sys.tz), 0) = CASE sys.tz = "MST" -> "US/Arizona"
                                         [] sys.tz = "CST" -> "Canada/Saskatchewan"
                                         [] sys.tz = "EST" -> "US/Eastern"
      BY <2>1 DEF Renamed, javaTZ
    <2>9. ~was0 => lib.dsgtimezone = javaTZ(sys.tz)
      BY <2>1, <2>2, <2>3 DEF PlainInv, Keeping, OffsetKept, Plain
    <2> QED
      BY <2>7, <2>8, <2>9
  <1> QED
    BY <1>1, TypedInit, ZoneInit, TypedNext, PathNext, FlowNext, ZoneNext, PTL DEF Spec

-----------------------------------------------------------------------------
(* The ids are printed. *)

\* The steps of a handler are a sequence.
LEMMA LeftTail ==
    ASSUME NEW b \in Busies, b # <<>>, NEW x
    PROVE  /\ Left(b, x) /\ Head(b) # x => Left(Tail(b), x)
           /\ Left(b, Head(b))
  <1> DEFINE S == Steps
  <1>1. b \in Seq(S)
    <2>1. /\ <<>> \in Seq(S) /\ <<"test">> \in Seq(S) /\ <<"announce">> \in Seq(S)
          /\ <<"hide">> \in Seq(S)
          /\ <<"PlaybackUrl">> \in Seq(S) /\ <<"rename", "TimeZone">> \in Seq(S)
          /\ <<"TimeZone">> \in Seq(S) /\ <<"DataGatewayIPaddress">> \in Seq(S)
      BY DEF Steps, Var
    <2>2. /\ <<"begin", "end", "SystemIds">> \in Seq(S) /\ <<"end", "SystemIds">> \in Seq(S)
          /\ <<"SystemIds">> \in Seq(S) /\ <<"SystemIds", "PlaybackUrl">> \in Seq(S)
          /\ <<"end", "SystemIds", "PlaybackUrl">> \in Seq(S)
      BY DEF Steps, Var
    <2>3. <<"begin", "end", "SystemIds", "PlaybackUrl">> \in Seq(S)
      BY DEF Steps, Var
    <2> QED
      BY Zenon, <2>1, <2>2, <2>3 DEF Busies
  <1> HIDE DEF S
  <1>2. /\ Head(b) = b[1] /\ Len(b) \in Nat /\ Len(b) >= 1
        /\ Len(Tail(b)) = Len(b) - 1
        /\ \A i \in 1 .. Len(b) - 1 : Tail(b)[i] = b[i + 1]
    BY <1>1, TailFact
  <1> DEFINE t == Tail(b)
  <1> HIDE DEF t
  <1>3. \A i \in 2 .. Len(b) : b[i] = t[i - 1] /\ i - 1 \in 1 .. Len(t)
    BY <1>2 DEF t
  <1>4. ASSUME Left(b, x), Head(b) # x PROVE Left(t, x)
    BY <1>2, <1>3, <1>4 DEF Left
  <1>5. Left(b, Head(b))
    BY <1>2 DEF Left
  <1> QED
    BY <1>4, <1>5 DEF t

\* A step of the handler is done, the others are left.
LEMMA LeftNext ==
    ASSUME busy \in Busies, busy # <<>>
    PROVE  \A x : Left(busy, x) /\ Head(busy) # x => Left(Following, x)
  <1>1. CASE Head(busy) \in {"test", "announce"}
    <2>1. \A x : Left(busy, x) => x = Head(busy)
      BY <1>1, BusyTail
    <2> QED
      BY <2>1
  <1>2. CASE Head(busy) \notin {"test", "announce"}
    <2>1. Following = Tail(busy)
      BY <1>2 DEF Following
    <2> QED
      BY <2>1, LeftTail
  <1> QED
    BY <1>1, <1>2

\* Whoever prints tells the clients.
LEMMA BusyLeft ==
    ASSUME NEW b \in Busies
    PROVE  /\ Left(b, "begin") => Left(b, "SystemIds")
           /\ b # <<>> /\ Head(b) = "end" => Left(b, "SystemIds")
           /\ b # <<>> /\ Head(b) = "SystemIds" => ~Left(b, "begin")
           /\ b = <<>> => \A x : ~Left(b, x)
  <1>1. CASE b \in { <<>>, <<"test">>, <<"announce">>, <<"hide">>, <<"PlaybackUrl">>,
                     <<"rename", "TimeZone">>, <<"TimeZone">>, <<"DataGatewayIPaddress">> }
    BY <1>1 DEF Left
  <1>2. CASE b \in { <<"begin", "end", "SystemIds">>, <<"end", "SystemIds">>, <<"SystemIds">> }
    BY <1>2 DEF Left
  <1>4. CASE b = <<"begin", "end", "SystemIds", "PlaybackUrl">>
    BY <1>4 DEF Left
  <1>5. CASE b = <<"end", "SystemIds", "PlaybackUrl">>
    BY <1>5 DEF Left
  <1>6. CASE b = <<"SystemIds", "PlaybackUrl">>
    BY <1>6 DEF Left
  <1> QED
    BY Zenon, <1>1, <1>2, <1>4, <1>5, <1>6 DEF Busies

Unprinted == {"register", "call", "assign_id", "assign_tz", "assign_dst", "assign_tune",
              "assign_serial", "print"}

\* Two threads that print at once both know; and the text that one of them will leave
\* there, or has, is the id, unless a handler is about to print it again.
PrintInv ==
    /\ printing["main"].on <=> main \in {"printed", "answer"}
    /\ printing["bus"].on <=> busy # <<>> /\ Head(busy) = "end"
    /\ printing["bus"].on /\ printing["main"].on => printing["bus"].raced
    /\ conf.useGliDiag /\ main \notin Unprinted =>
        /\ printing["bus"].on /\ ~printing["bus"].raced => printing["bus"].text = lib.id
        /\ (printing["main"].on /\ ~printing["main"].raced /\ lib.id # 0 /\ ~Left(busy, "begin"))
             => printing["main"].text = lib.id
        /\ ~spoilt /\ lib.id # 0 =>
             \/ Left(busy, "begin") \/ printing["bus"].on \/ printing["main"].on
             \/ lib.systemids = lib.id

\* Steps that print nothing and change no id.
LEMMA PrintSame ==
    ASSUME PrintInv, UNCHANGED <<conf, printing, busy, spoilt>>,
           main' \in {"printed", "answer"} <=> main \in {"printed", "answer"},
           \/ main' \in Unprinted
           \/ /\ main \notin Unprinted /\ lib'.id = lib.id /\ lib'.systemids = lib.systemids
    PROVE  PrintInv'
  BY DEF PrintInv

\* What the steps of printing do.
LEMMA BeginFact ==
    ASSUME Typed, NEW t \in Thread, BeginPrint(t)
    PROVE  /\ printing'[t].on /\ printing'[t].text = Printed
           /\ printing'[t].raced <=> printing[Other(t)].on
           /\ printing'[Other(t)].on <=> printing[Other(t)].on
           /\ printing'[Other(t)].raced <=> printing[Other(t)].on
           /\ printing'[Other(t)].text = printing[Other(t)].text
           /\ lib' = [lib EXCEPT !.systemids = Fill] /\ lib'.id = lib.id
           /\ spoilt' = spoilt
  <1>1. /\ printing \in [Thread -> [on : BOOLEAN, raced : BOOLEAN, text : Nat]]
        /\ lib \in Lib
    BY DEF Typed
  <1>2. Other(t) \in Thread /\ Other(t) # t
    BY DEF Thread, Other
  <1> QED
    BY <1>1, <1>2 DEF BeginPrint, Lib

\* A thread that was alone with the string leaves the text it printed.
LEMMA EndFact ==
    ASSUME Typed, NEW t \in Thread, EndPrint(t)
    PROVE  /\ ~printing'[t].on /\ ~printing'[t].raced
           /\ printing'[Other(t)] = printing[Other(t)]
           /\ ~printing[t].raced => lib'.systemids = printing[t].text
           /\ lib'.id = lib.id
           /\ ~spoilt' => ~printing[t].raced /\ (t = "bus" \/ ~spoilt)
  <1>1. /\ printing \in [Thread -> [on : BOOLEAN, raced : BOOLEAN, text : Nat]]
        /\ lib \in Lib
    BY DEF Typed
  <1>2. Other(t) \in Thread /\ Other(t) # t
    BY DEF Thread, Other
  <1>3. ~printing'[t].on /\ ~printing'[t].raced /\ printing'[Other(t)] = printing[Other(t)]
    BY <1>1, <1>2 DEF EndPrint, Idle
  <1>4. PICK text \in {printing[t].text} \cup (IF printing[t].raced THEN {Junk} ELSE {}) :
          lib' = [lib EXCEPT !.systemids = text]
    BY DEF EndPrint
  <1>5. lib'.systemids = text /\ lib'.id = lib.id
    BY <1>1, <1>4 DEF Lib
  <1>6. spoilt' = IF printing[t].raced THEN TRUE ELSE spoilt /\ t = "main"
    BY DEF EndPrint
  <1>7. ~spoilt' => ~printing[t].raced /\ (t = "bus" \/ ~spoilt)
    <2>1. t \in {"bus", "main"}
      BY DEF Thread
    <2> QED
      BY <1>6, <2>1
  <1> QED
    BY <1>3, <1>4, <1>5, <1>7

\* A handler that prints the ids knows of the main loop, when that prints them too.
LEMMA PrintBus ==
    ASSUME Typed, FlowInv, PrintInv, BusThread
    PROVE  PrintInv'
  <1>1. /\ lib \in Lib /\ busy \in Busies /\ conf.rmfCrshSupp \in BOOLEAN
        /\ printing \in [Thread -> [on : BOOLEAN, raced : BOOLEAN, text : Nat]]
    BY ConfAssumption DEF Typed
  <1>2. Thread = {"bus", "main"} /\ Other("bus") = "main" /\ Other("main") = "bus"
    BY DEF Thread, Other
  <1>3. CASE Handle
    <2> DEFINE f == Head(bus)[1]
               v == Head(bus)[2]
    <2>1. /\ busy = <<>> /\ busy' = Rest(f, v) /\ lib' = Assigned(lib, f, v)
          /\ UNCHANGED <<conf, main, printing, spoilt>>
      BY <1>3 DEF Handle, env, ids
    <2>2. <<f, v>> \in Event
      <3>1. Head(bus) \in Event
        BY <1>3, TailFact DEF Handle, Typed
      <3> QED
        BY <3>1, EventFact
    <2> HIDE DEF f, v
    <2>3. ~printing["bus"].on /\ \A x : ~Left(busy, x)
      BY <1>1, <2>1, BusyLeft DEF PrintInv
    <2>4. busy' # <<>> => Head(busy') # "end"
      BY <1>1, <2>1, RestTyped
    <2>5. CASE f = "id"
      <3>1. lib'.id = v
        BY <1>1, <2>1, <2>5 DEF Assigned, Lib
      <3>2. v # 0 => Left(busy', "begin")
        <4>1. v # 0 => Rest(f, v) = <<"begin", "end", "SystemIds">>
          BY <2>5 DEF Rest
        <4>2. Left(<<"begin", "end", "SystemIds">>, "begin")
          BY DEF Left
        <4> QED
          BY <2>1, <4>1, <4>2
      <3> QED
        BY <2>1, <2>3, <2>4, <3>1, <3>2 DEF PrintInv
    <2>6. CASE f # "id"
      <3>1. lib'.id = lib.id /\ lib'.systemids = lib.systemids
        BY <1>1, <2>1, <2>2, <2>6 DEF Assigned, Lib, Event
      <3> QED
        BY <2>1, <2>3, <2>4, <3>1 DEF PrintInv
    <2> QED
      BY <2>5, <2>6
  <1>4. CASE HandleStep
    <2>1. /\ busy # <<>> /\ busy' = Following /\ UNCHANGED <<conf, main>>
          /\ Head(busy) \in Steps
      BY <1>1, <1>4, BusyNext DEF HandleStep, env
    <2>2. CASE Head(busy) = "begin"
      <3>1. BeginPrint("bus")
        <4>1. /\ Head(busy) # "test" /\ Head(busy) # "announce" /\ Head(busy) # "hide"
              /\ Head(busy) # "end" /\ Head(busy) # "rename" /\ Head(busy) \notin Var
          BY <2>2 DEF Var
        <4> QED
          BY Zenon, <1>4, <4>1 DEF HandleStep
      <3>2. busy' # <<>> /\ Head(busy') = "end" /\ ~Left(busy', "begin")
        BY <1>1, <2>1, <2>2, BusyNext
      <3>3. /\ printing'["bus"].on /\ printing'["bus"].text = Printed
            /\ printing'["bus"].raced <=> printing["main"].on
            /\ printing'["main"].on <=> printing["main"].on
            /\ printing'["main"].raced <=> printing["main"].on
            /\ lib'.id = lib.id
        BY <1>2, <3>1, BeginFact
      <3>4. conf.useGliDiag => Printed = lib.id
        BY DEF Printed
      <3> QED
        BY <2>1, <3>2, <3>3, <3>4 DEF PrintInv
    <2>3. CASE Head(busy) = "end"
      <3>1. EndPrint("bus")
        <4>1. /\ Head(busy) # "test" /\ Head(busy) # "announce" /\ Head(busy) # "hide"
              /\ Head(busy) # "begin" /\ Head(busy) # "rename" /\ Head(busy) \notin Var
          BY <2>3 DEF Var
        <4> QED
          BY Zenon, <1>4, <4>1 DEF HandleStep
      <3>2. ~Left(busy', "begin") /\ ~(busy' # <<>> /\ Head(busy') = "end")
        BY <1>1, <2>1, <2>3, BusyNext
      <3>3. /\ ~printing'["bus"].on
            /\ printing'["main"] = printing["main"]
            /\ ~printing["bus"].raced => lib'.systemids = printing["bus"].text
            /\ lib'.id = lib.id
            /\ ~spoilt' => ~printing["bus"].raced
        BY <1>2, <3>1, EndFact
      <3>4. ~Left(busy, "begin")
        <4>1. Left(busy, "begin") => Left(Following, "begin")
          BY <1>1, <2>1, <2>3, LeftNext
        <4> QED
          BY <2>1, <3>2, <4>1
      <3> QED
        BY <2>1, <2>3, <3>2, <3>3, <3>4 DEF PrintInv
    <2>4. CASE Head(busy) \notin {"begin", "end"}
      <3>1. /\ UNCHANGED printing /\ lib'.id = lib.id /\ lib'.systemids = lib.systemids
        BY <1>1, <1>4, <2>4 DEF HandleStep, Lib, ids
      <3>2. ~spoilt' => ~spoilt
        <4>1. CASE Head(busy) \in Var
          <5>1. Head(busy) \notin {"test", "announce", "hide", "rename"}
            BY <4>1 DEF Var
          <5>2. spoilt' = (spoilt \/ (Head(busy) = "SystemIds" /\ printing["main"].on))
            BY <1>4, <2>4, <5>1 DEF HandleStep
          <5> QED
            BY Zenon, <5>2
        <4>2. CASE Head(busy) \notin Var
          <5>1. spoilt' = spoilt
            BY <1>4, <2>4, <4>2 DEF HandleStep, ids
          <5> QED
            BY <5>1
        <4> QED
          BY <4>1, <4>2
      <3>3. Left(busy, "begin") => Left(busy', "begin")
        BY <1>1, <2>1, <2>4, LeftNext
      <3>4. ~(busy' # <<>> /\ Head(busy') = "end") /\ ~printing["bus"].on
        BY <1>1, <2>1, <2>4, BusyNext DEF PrintInv
      <3> QED
        BY <2>1, <3>1, <3>2, <3>3, <3>4 DEF PrintInv
    <2> QED
      BY <2>2, <2>3, <2>4
  <1> QED
    BY <1>3, <1>4 DEF BusThread

\* The main loop that prints the ids knows of a handler that prints them too.
LEMMA PrintMain ==
    ASSUME Typed, FlowInv, PrintInv, Start \/ GetSystemIds \/ Answer \/ GetTimeZone \/ Subscribe
    PROVE  PrintInv'
  <1>1. lib \in Lib
    BY DEF Typed
  <1>2. "main" \in Thread /\ Other("main") = "bus"
    BY DEF Thread, Other
  <1>3. CASE PrintUrls \/ GetSystemIds
    <2>1. /\ BeginPrint("main") /\ UNCHANGED <<conf, busy>>
          /\ main \notin {"printed", "answer"} /\ main' \in {"printed", "answer"}
      BY <1>3 DEF PrintUrls, GetSystemIds, At, env
    <2>2. /\ printing'["main"].on /\ printing'["main"].text = Printed
          /\ printing'["main"].raced <=> printing["bus"].on
          /\ printing'["bus"].on <=> printing["bus"].on
          /\ printing'["bus"].raced <=> printing["bus"].on
          /\ lib'.id = lib.id
      BY <1>2, <2>1, BeginFact
    <2>3. conf.useGliDiag => Printed = lib.id
      BY DEF Printed
    <2> QED
      BY <2>1, <2>2, <2>3 DEF PrintInv
  <1>4. CASE EndUrls \/ Answer
    <2>1. /\ EndPrint("main") /\ UNCHANGED <<conf, busy>>
          /\ main \in {"printed", "answer"} /\ main' \in {"serial", "up"}
      BY <1>4 DEF EndUrls, Answer, At, env
    <2>2. /\ ~printing'["main"].on
          /\ printing'["bus"] = printing["bus"]
          /\ ~printing["main"].raced => lib'.systemids = printing["main"].text
          /\ lib'.id = lib.id
          /\ ~spoilt' => ~printing["main"].raced /\ ~spoilt
      BY <1>2, <2>1, EndFact
    <2>3. main \notin Unprinted /\ main' \notin {"printed", "answer"}
      BY <2>1 DEF Unprinted
    <2> QED
      BY <2>1, <2>2, <2>3 DEF PrintInv
  <1>5. CASE Register
    <2>1. /\ main = "register" /\ busy = <<>> /\ lib.id = 0 /\ main' \in {"call", "serial"}
          /\ UNCHANGED <<conf, busy, lib, printing, spoilt>>
      BY <1>5 DEF Register, Same, At, env, ids, FlowInv, Reached
    <2> QED
      BY <2>1 DEF PrintInv
  <1>6. CASE Call \/ AssignId \/ AssignTz \/ AssignDst \/ AssignTune \/ AssignSerial
    <2>1. /\ UNCHANGED <<conf, printing, busy, spoilt>> /\ main \in Unprinted /\ main' \in Unprinted
      BY <1>6
      DEF Call, AssignId, AssignTz, AssignDst, AssignTune, AssignSerial, AssignedAs, At, env, ids,
          Unprinted
    <2> QED
      BY <2>1, PrintSame DEF Unprinted
  <1>7. CASE SerialNumber \/ CallRoute \/ AssignRoute \/ UpdateXml \/ RootDevice
    <2>1. /\ UNCHANGED <<conf, printing, busy, spoilt>>
          /\ lib'.id = lib.id /\ lib'.systemids = lib.systemids
      BY <1>1, <1>7
      DEF SerialNumber, getserialnum, CallRoute, AssignRoute, AssignedAs, Assigned, UpdateXml,
          RootDevice, At, env, ids, Lib
    <2>2. main \in {"serial", "route", "assign_route", "xml", "device"}
          /\ main' \in {"route", "assign_route", "xml", "device", "publish", "tune"}
      BY <1>7 DEF SerialNumber, CallRoute, AssignRoute, AssignedAs, UpdateXml, RootDevice, At
    <2> QED
      BY <2>1, <2>2, PrintSame DEF Unprinted
  <1>8. CASE TuneReady \/ PrefixFile \/ Prefix \/ Announce \/ Connect \/ Fail \/ GetTimeZone \/ Subscribe
    <2>1. /\ UNCHANGED <<conf, printing, busy, spoilt>>
          /\ lib'.id = lib.id /\ lib'.systemids = lib.systemids
      BY <1>1, <1>8
      DEF TuneReady, PrefixFile, Prefix, Announce, Connect, Fail, GetTimeZone, Subscribe, DsgZone, Same,
          At, env, ids, Lib
    <2>2. /\ main \in {"xml", "device", "tune", "prefix_file", "prefix", "publish", "connect", "up"}
          /\ main' \in {"prefix_file", "prefix", "publish", "connect", "up", "ended"}
      BY <1>8 DEF TuneReady, PrefixFile, Prefix, Announce, Connect, Fail, GetTimeZone, Subscribe, At
    <2> QED
      BY <2>1, <2>2, PrintSame DEF Unprinted
  <1> QED
    BY <1>3, <1>4, <1>5, <1>6, <1>7, <1>8 DEF Start

\* Every step keeps what is known of the printed ids.
LEMMA PrintNext == Typed /\ FlowInv /\ PrintInv /\ [Next]_vars => PrintInv'
  <1> SUFFICES ASSUME Typed, FlowInv, PrintInv, [Next]_vars PROVE PrintInv'
    OBVIOUS
  <1>1. ASSUME UNCHANGED <<conf, busy, main, lib, printing, spoilt>> PROVE PrintInv'
    BY <1>1, PrintSame
  <1>2. CASE Managers
    BY <1>1, <1>2, ManagersPublish DEF NewFile, Publish, ids
  <1>3. CASE Deliver \/ UNCHANGED vars
    BY <1>1, <1>3 DEF Deliver, vars, env, ids
  <1> QED
    BY <1>2, <1>3, PrintBus, PrintMain DEF Next

-----------------------------------------------------------------------------
(* The client. *)

\* The client will be told u for x, or is about to be told anew.
Told(b, c, x, u) ==
    \/ Left(b, x)
    \/ LastIs(c.wire, x, u) /\ (Free(c.wire, x) => c.value[x] = u)

Retuned == busy # <<>> /\ Head(busy) \in {"test", "announce"}

\* What a subscribed client has been told, or will be.
ClientInv ==
    client.subscribed =>
        /\ main \in {"up", "answer"}
        /\ conf.useGliDiag /\ (lib.dstOffset # DstUnset \/ lib.dsgtimezone = None) =>
             Told(busy, client, "TimeZone", lib.dsgtimezone)
        /\ Told(busy, client, "DataGatewayIPaddress", lib.dataGatewayIPaddress)
        /\ lib.tune_ready => Retuned \/ Told(busy, client, "PlaybackUrl", "url")
        /\ conf.useGliDiag /\ ~spoilt /\ lib.id # 0 => Told(busy, client, "SystemIds", lib.id)

\* An event of the service is about one variable, or about all.
LEMMA EntryFact ==
    ASSUME NEW e \in Entry
    PROVE  /\ e[1] = "all" => e[2] \in [Var -> Shows]
           /\ e[1] # "all" => e[1] \in Var /\ e[2] \in Shows
  BY DEF Entry, Var

\* A handler that has ended has told all; one that notifies x tells what it must.
LEMMA ToldBusy ==
    ASSUME NEW c, NEW x, NEW u, NEW b, NEW d,
           Told(b, c, x, u), Left(b, x) => Left(d, x)
    PROVE  Told(d, c, x, u)
  BY DEF Told

\* The client is told v for y.
LEMMA ToldNotify ==
    ASSUME NEW c, c.wire \in Seq(Entry), NEW y \in Var, NEW v \in Shows, NEW d, NEW e,
           d.wire = Append(c.wire, <<y, v>>), d.value = c.value
    PROVE  /\ Told(e, d, y, v)
           /\ \A b, x, u : x # y /\ (Left(b, x) => Left(e, x)) /\ Told(b, c, x, u) => Told(e, d, x, u)
  <1>1. <<y, v>> \in Entry
    BY DEF Entry
  <1>2. \A x : x # y => ~Concerns(<<y, v>>, x)
    BY DEF Concerns, Var
  <1>3. Concerns(<<y, v>>, y) /\ Carried(<<y, v>>, y) = v
    BY DEF Concerns, Carried, Var
  <1>4. LastIs(d.wire, y, v) /\ ~Free(d.wire, y)
    BY <1>1, <1>3, FlowAppend
  <1>5. ASSUME NEW x, x # y
        PROVE  /\ \A u : LastIs(c.wire, x, u) => LastIs(d.wire, x, u)
               /\ Free(d.wire, x) <=> Free(c.wire, x)
    BY <1>1, <1>2, <1>5, FlowAppend
  <1> QED
    BY <1>4, <1>5 DEF Told

\* The first event of a subscription has all the values.
LEMMA ToldAll ==
    ASSUME NEW c, c.wire \in Seq(Entry), NEW g \in [Var -> Shows], NEW d, NEW b,
           d.wire = Append(c.wire, <<"all", g>>), NEW x
    PROVE  Told(b, d, x, g[x])
  <1>1. <<"all", g>> \in Entry
    BY DEF Entry
  <1>2. Concerns(<<"all", g>>, x) /\ Carried(<<"all", g>>, x) = g[x]
    BY DEF Concerns, Carried
  <1> QED
    BY <1>1, <1>2, FlowAppend DEF Told

\* An event reaches the client.
LEMMA ToldDeliver ==
    ASSUME NEW c, c.wire \in Seq(Entry), c.wire # <<>>, c.value \in [Var -> Shows], NEW d, NEW b,
           d.wire = Tail(c.wire),
           d.value = IF Head(c.wire)[1] = "all" THEN Head(c.wire)[2]
                     ELSE [c.value EXCEPT ![Head(c.wire)[1]] = Head(c.wire)[2]],
           NEW x \in Var, NEW u, Told(b, c, x, u)
    PROVE  Told(b, d, x, u)
  <1> DEFINE h == Head(c.wire)
  <1>1. h \in Entry
    BY TailFact
  <1>2. LastIs(c.wire, x, u) => LastIs(d.wire, x, u)
    <2>1. \A w : LastIs(c.wire, x, w) => LastIs(Tail(c.wire), x, w)
      BY FlowTail
    <2> QED
      BY <2>1
  <1>3. LastIs(c.wire, x, u) /\ Concerns(h, x) /\ Free(d.wire, x) => Carried(h, x) = u
    BY FlowTail
  <1>4. ~Concerns(h, x) /\ Free(d.wire, x) => Free(c.wire, x)
    BY FlowTail
  <1> HIDE DEF h
  <1>5. d.value = IF h[1] = "all" THEN h[2] ELSE [c.value EXCEPT ![h[1]] = h[2]]
    BY DEF h
  <1>6. x # "all"
    BY DEF Var
  <1>7. Concerns(h, x) => d.value[x] = Carried(h, x)
    BY <1>1, <1>5, EntryFact DEF Concerns, Carried
  <1>8. ~Concerns(h, x) => d.value[x] = c.value[x]
    BY <1>1, <1>5, EntryFact DEF Concerns
  <1> QED
    BY <1>2, <1>3, <1>4, <1>7, <1>8 DEF Told

\* A step that leaves the client alone.
LEMMA ClientSame ==
    ASSUME ClientInv, UNCHANGED <<conf, client, busy>>,
           main \in {"up", "answer"} => main' \in {"up", "answer"},
           client.subscribed =>
             /\ conf.useGliDiag => lib'.dsgtimezone = lib.dsgtimezone
             /\ lib'.dstOffset = lib.dstOffset /\ lib'.tune_ready = lib.tune_ready
             /\ lib'.dataGatewayIPaddress = lib.dataGatewayIPaddress
             /\ lib'.id = lib.id
             /\ ~spoilt' => ~spoilt
    PROVE  ClientInv'
  BY DEF ClientInv, Retuned

\* What a query answers.
LEMMA ShownTyped ==
    ASSUME lib \in Lib
    PROVE  \A x \in Var : Shown(x) \in Shows
  <1>1. Shown("PlaybackUrl") \in Shows
    <2>1. Shown("PlaybackUrl") \in {"url", "NULL"}
      BY DEF Shown
    <2> QED
      BY <2>1 DEF Shows
  <1>2. Shown("SystemIds") \in Shows
    <2>1. Shown("SystemIds") = lib.systemids
      BY DEF Shown
    <2> QED
      BY <2>1 DEF Shows, Lib
  <1>3. Shown("TimeZone") \in Shows
    <2>1. Shown("TimeZone") = lib.dsgtimezone
      BY DEF Shown
    <2> QED
      BY <2>1 DEF Shows, Lib
  <1>4. Shown("DataGatewayIPaddress") \in Shows
    <2>1. Shown("DataGatewayIPaddress") = lib.dataGatewayIPaddress
      BY DEF Shown
    <2> QED
      BY <2>1 DEF Shows, Lib, Zones, None
  <1> QED
    BY <1>1, <1>2, <1>3, <1>4 DEF Var

\* Every step keeps the client and its wire typed.
LEMMA ClientTypedNext == Typed /\ ClientTyped /\ [Next]_vars => ClientTyped'
  <1> SUFFICES ASSUME Typed, ClientTyped, [Next]_vars PROVE ClientTyped'
    OBVIOUS
  <1> DEFINE C == [subscribed : BOOLEAN, value : [Var -> Shows], wire : Seq(Entry)]
  <1>1. client \in C /\ client.wire \in Seq(Entry)
    BY DEF ClientTyped
  <1>2. ASSUME UNCHANGED client PROVE ClientTyped'
    BY <1>2 DEF ClientTyped
  <1>3. CASE HandleStep
    <2>1. CASE Head(busy) \in Var
      <3> DEFINE v == IF Head(busy) = "PlaybackUrl" THEN "url" ELSE Shown(Head(busy))
      <3>1. client' \in {client, [client EXCEPT !.wire = Append(@, <<Head(busy), v>>)]}
        BY <1>3, <2>1 DEF HandleStep, Notified, Var
      <3>2. v \in Shows
        <4>1. "url" \in Shows
          BY DEF Shows
        <4> QED
          BY <2>1, <4>1, ShownTyped DEF Typed
      <3>3. <<Head(busy), v>> \in Entry
        BY <2>1, <3>2 DEF Entry
      <3> HIDE DEF v
      <3>4. Append(client.wire, <<Head(busy), v>>) \in Seq(Entry)
        BY <1>1, <3>3, AppendFact
      <3> QED
        BY <1>1, <3>1, <3>4 DEF ClientTyped
    <2>2. CASE Head(busy) \notin Var
      BY <1>2, <1>3, <2>2 DEF HandleStep
    <2> QED
      BY <2>1, <2>2
  <1>4. CASE Subscribe
    <2> DEFINE g == [x \in Var |-> Shown(x)']
    <2>1. client' = [client EXCEPT !.subscribed = TRUE, !.wire = Append(@, <<"all", g>>)]
      BY <1>4 DEF Subscribe
    <2>2. lib' \in Lib
      BY TypedNext DEF Typed
    <2>3. g \in [Var -> Shows]
      <3>1. (lib \in Lib => \A x \in Var : Shown(x) \in Shows)'
        BY ShownTyped, PTL
      <3> QED
        BY <2>2, <3>1
    <2>4. <<"all", g>> \in Entry
      BY <2>3 DEF Entry
    <2> HIDE DEF g
    <2>5. Append(client.wire, <<"all", g>>) \in Seq(Entry)
      BY <1>1, <2>4, AppendFact
    <2> QED
      BY <1>1, <2>1, <2>5 DEF ClientTyped
  <1>5. CASE Deliver
    <2> DEFINE h == Head(client.wire)
    <2>1. client' = [client EXCEPT !.wire = Tail(@),
                       !.value = IF h[1] = "all" THEN h[2] ELSE [@ EXCEPT ![h[1]] = h[2]]]
      BY <1>5 DEF Deliver
    <2>2. h \in Entry /\ Tail(client.wire) \in Seq(Entry)
      BY <1>1, <1>5, TailFact DEF Deliver
    <2> HIDE DEF h
    <2>3. (IF h[1] = "all" THEN h[2] ELSE [client.value EXCEPT ![h[1]] = h[2]]) \in [Var -> Shows]
      BY <1>1, <2>2, EntryFact
    <2> QED
      BY <1>1, <2>1, <2>2, <2>3 DEF ClientTyped
  <1>6. CASE Managers \/ Handle \/ UNCHANGED vars
    BY <1>2, <1>6, ManagersPublish DEF NewFile, Publish, Handle, vars
  <1>7. CASE Start
    <2>1. CASE Register \/ Call \/ PrintUrls \/ EndUrls \/ SerialNumber
      BY <1>2, <2>1 DEF Register, Same, Call, PrintUrls, EndUrls, SerialNumber
    <2>2. CASE AssignId \/ AssignTz \/ AssignDst \/ AssignTune \/ AssignSerial
      BY <1>2, <2>2 DEF AssignId, AssignTz, AssignDst, AssignTune, AssignSerial, AssignedAs
    <2>3. CASE CallRoute \/ AssignRoute \/ UpdateXml
      BY <1>2, <2>3 DEF CallRoute, AssignRoute, UpdateXml, AssignedAs
    <2>4. CASE RootDevice \/ TuneReady \/ PrefixFile \/ Prefix \/ Announce \/ Connect \/ Fail
      BY <1>2, <2>4 DEF RootDevice, TuneReady, PrefixFile, Prefix, Same, Announce, Connect, Fail
    <2> QED
      BY <1>7, <2>1, <2>2, <2>3, <2>4 DEF Start
  <1>8. CASE GetSystemIds \/ Answer \/ GetTimeZone
    BY <1>2, <1>8 DEF GetSystemIds, Answer, GetTimeZone
  <1> QED
    BY <1>3, <1>4, <1>5, <1>6, <1>7, <1>8 DEF Next, BusThread

\* A handler that assigns a new value has yet to notify the client of it.
LEMMA ClientHandle ==
    ASSUME Typed, ClientInv, Handle
    PROVE  ClientInv'
  <1> SUFFICES ASSUME client.subscribed PROVE ClientInv'
    BY DEF ClientInv, Handle
  <1> DEFINE f == Head(bus)[1]
             v == Head(bus)[2]
  <1>1. /\ busy = <<>> /\ busy' = Rest(f, v) /\ lib' = Assigned(lib, f, v)
        /\ UNCHANGED <<conf, main, client, spoilt>>
    BY DEF Handle, env, ids
  <1>2. /\ lib \in Lib /\ busy \in Busies /\ conf.rmfCrshSupp \in BOOLEAN
    BY ConfAssumption DEF Typed
  <1>3. <<f, v>> \in Event
    <2>1. Head(bus) \in Event
      BY TailFact DEF Handle, Typed
    <2> QED
      BY <2>1, EventFact
  <1> HIDE DEF f, v
  <1>4. \A x, u : Told(busy, client, x, u) => Told(busy', client, x, u)
    <2>1. \A x : ~Left(busy, x)
      BY <1>1, <1>2, BusyLeft
    <2> QED
      BY <2>1 DEF Told
  <1>5. \A x, u : Left(busy', x) => Told(busy', client, x, u)
    BY DEF Told
  <1>6. lib.tune_ready \in BOOLEAN /\ DstUnset \notin {0, 60}
    BY <1>2 DEF Lib, DstUnset
  <1>7. lib'.tune_ready => lib.tune_ready \/ Retuned' \/ Left(busy', "PlaybackUrl")
    <2>1. f = "tune" => lib'.tune_ready = v /\ v \in BOOLEAN
      BY <1>1, <1>2, <1>3 DEF Assigned, Lib, Event
    <2>2. f # "tune" => lib'.tune_ready = lib.tune_ready
      BY <1>1, <1>2, <1>3 DEF Assigned, Lib, Event
    <2>3. f = "tune" /\ lib.tune_ready # v =>
            Rest(f, v) = <<"test">> \/ Left(Rest(f, v), "PlaybackUrl")
      BY RestTyped
    <2>4. Rest(f, v) = <<"test">> => Retuned'
      BY <1>1 DEF Retuned
    <2> QED
      BY <1>1, <1>6, <2>1, <2>2, <2>3, <2>4
  <1>8. lib'.id # 0 => lib'.id = lib.id \/ Left(busy', "SystemIds")
    <2>1. f = "id" => lib'.id = v
      BY <1>1, <1>2 DEF Assigned, Lib
    <2>2. f # "id" => lib'.id = lib.id
      BY <1>1, <1>2, <1>3 DEF Assigned, Lib, Event
    <2>3. f = "id" /\ v # 0 => Rest(f, v) = <<"begin", "end", "SystemIds">>
      BY DEF Rest
    <2>4. Left(<<"begin", "end", "SystemIds">>, "SystemIds")
      BY DEF Left
    <2> QED
      BY <1>1, <2>1, <2>2, <2>3, <2>4
  <1>9. \/ lib'.dataGatewayIPaddress = lib.dataGatewayIPaddress
        \/ Left(busy', "DataGatewayIPaddress")
    <2>1. f = "route" => lib'.dataGatewayIPaddress = v
      BY <1>1, <1>2 DEF Assigned, Lib
    <2>2. f # "route" => lib'.dataGatewayIPaddress = lib.dataGatewayIPaddress
      BY <1>1, <1>2, <1>3 DEF Assigned, Lib, Event
    <2>3. f = "route" /\ lib.dataGatewayIPaddress # v => Rest(f, v) = <<"DataGatewayIPaddress">>
      BY DEF Rest
    <2>4. Left(<<"DataGatewayIPaddress">>, "DataGatewayIPaddress")
      BY DEF Left
    <2> QED
      BY <1>1, <2>1, <2>2, <2>3, <2>4
  <1>10. lib'.dstOffset # DstUnset \/ lib'.dsgtimezone = None =>
           \/ /\ lib'.dsgtimezone = lib.dsgtimezone
              /\ lib.dstOffset # DstUnset \/ lib.dsgtimezone = None
           \/ Left(busy', "TimeZone")
    <2>1. Left(<<"rename", "TimeZone">>, "TimeZone")
      BY DEF Left
    <2>2. CASE f = "tz"
      <3>1. /\ lib'.dsgtimezone = javaTZ(v) /\ lib'.dstOffset = lib.dstOffset
            /\ javaTZ(v) # None
        BY <1>1, <1>2, <1>3, <2>2, ConfAssumption DEF Assigned, Lib, Event, javaTZ, None
      <3>2. lib.dstOffset # DstUnset => Rest(f, v) = <<"rename", "TimeZone">>
        BY <2>2 DEF Rest
      <3> QED
        BY <1>1, <2>1, <3>1, <3>2
    <2>3. CASE f = "dst"
      <3>1. lib'.dsgtimezone = lib.dsgtimezone
        BY <1>1, <1>2, <2>3 DEF Assigned, Lib
      <3>2. lib.dsgtimezone # None => Rest(f, v) = <<"rename", "TimeZone">>
        BY <2>3 DEF Rest
      <3> QED
        BY <1>1, <2>1, <3>1, <3>2
    <2>4. CASE f \notin {"tz", "dst"}
      <3>1. lib'.dsgtimezone = lib.dsgtimezone /\ lib'.dstOffset = lib.dstOffset
        BY <1>1, <1>2, <1>3, <2>4 DEF Assigned, Lib, Event
      <3> QED
        BY <3>1
    <2> QED
      BY <2>2, <2>3, <2>4
  <1>11. ~Retuned
    BY <1>1 DEF Retuned
  <1> QED
    BY <1>1, <1>4, <1>5, <1>7, <1>8, <1>9, <1>10, <1>11 DEF ClientInv

\* A notification carries the value that the string has.
LEMMA ClientHandleStep ==
    ASSUME Typed, ClientTyped, PrintInv, ClientInv, HandleStep
    PROVE  ClientInv'
  <1>1. /\ busy # <<>> /\ busy' = Following /\ UNCHANGED <<conf, main>>
        /\ lib \in Lib /\ busy \in Busies
        /\ Head(busy) \in Steps
    BY BusyNext DEF HandleStep, env, Typed
  <1>2. client'.subscribed = client.subscribed
    BY DEF HandleStep, Notified, ClientTyped
  <1> SUFFICES ASSUME client.subscribed PROVE ClientInv'
    BY <1>2 DEF ClientInv
  <1>3. \A x : x # Head(busy) /\ Left(busy, x) => Left(busy', x)
    BY <1>1, LeftNext
  <1>4. CASE Head(busy) \notin Var
    <2>1. /\ client' = client
          /\ lib'.dstOffset = lib.dstOffset /\ lib'.tune_ready = lib.tune_ready
          /\ lib'.dataGatewayIPaddress = lib.dataGatewayIPaddress /\ lib'.id = lib.id
      BY <1>1, <1>4 DEF HandleStep, BeginPrint, EndPrint, Lib
    <2>2. \A x \in Var : \A u : Told(busy, client, x, u) => Told(busy', client, x, u)
      BY <1>3, <1>4 DEF Told
    <2>3. lib'.dsgtimezone = lib.dsgtimezone \/ Left(busy', "TimeZone")
      <3>1. CASE Head(busy) = "rename"
        <4>1. Following = <<"TimeZone">>
          BY <1>1, <3>1, BusyNext
        <4>2. Left(<<"TimeZone">>, "TimeZone")
          BY DEF Left
        <4> QED
          BY <1>1, <4>1, <4>2
      <3>2. CASE Head(busy) # "rename"
        BY <1>1, <1>4, <3>2 DEF HandleStep, BeginPrint, EndPrint, Lib
      <3> QED
        BY <3>1, <3>2
    <2>6. spoilt' = spoilt \/ Left(busy', "SystemIds")
      <3>1. CASE Head(busy) \in {"begin", "end"}
        BY <1>1, <3>1, BusyNext
      <3>2. CASE Head(busy) \notin {"begin", "end"}
        BY <1>4, <3>2 DEF HandleStep, ids
      <3> QED
        BY <3>1, <3>2
    <2>7. \A x, u : Left(busy', x) => Told(busy', client, x, u)
      BY DEF Told
    <2>8. {"TimeZone", "DataGatewayIPaddress", "PlaybackUrl", "SystemIds"} \subseteq Var
      BY DEF Var
    <2>9. conf.useGliDiag /\ (lib.dstOffset # DstUnset \/ lib'.dsgtimezone = None) =>
            Told(busy', client, "TimeZone", lib'.dsgtimezone)
      BY <2>2, <2>3, <2>7, <2>8 DEF ClientInv
    <2>10. conf.useGliDiag /\ ~spoilt' /\ lib.id # 0 => Told(busy', client, "SystemIds", lib.id)
      BY <2>2, <2>6, <2>7, <2>8 DEF ClientInv
    <2>11. lib.tune_ready => Retuned' \/ Told(busy', client, "PlaybackUrl", "url")
      <3>1. CASE Head(busy) = "test"
        <4>1. lib.tune_ready => Following = <<"announce">>
          BY <3>1 DEF Following
        <4>2. Following = <<"announce">> => Retuned'
          BY <1>1 DEF Retuned
        <4> QED
          BY <4>1, <4>2
      <3>2. CASE Head(busy) = "announce"
        BY <1>1, <2>7, <3>2, BusyNext
      <3>3. CASE ~Retuned
        BY <2>2, <2>8, <3>3 DEF ClientInv
      <3> QED
        BY <3>1, <3>2, <3>3 DEF Retuned
    <2> QED
      BY <1>1, <2>1, <2>2, <2>8, <2>9, <2>10, <2>11 DEF ClientInv
  <1>5. CASE Head(busy) \in Var
    <2> DEFINE y == Head(busy)
               v == IF y = "PlaybackUrl" THEN "url" ELSE Shown(y)
    <2>1. /\ client' = [client EXCEPT !.wire = Append(@, <<y, v>>)]
          /\ spoilt' = (spoilt \/ (y = "SystemIds" /\ printing["main"].on))
          /\ UNCHANGED <<lib, printing>>
      BY <1>5 DEF HandleStep, Notified, ClientInv, Var
    <2>2. v \in Shows
      <3>1. "url" \in Shows
        BY DEF Shows
      <3> QED
        BY <1>5, <3>1, ShownTyped DEF Typed
    <2>3. /\ client.wire \in Seq(Entry)
          /\ client'.wire = Append(client.wire, <<y, v>>) /\ client'.value = client.value
      BY <2>1 DEF ClientTyped
    <2>4. ~spoilt' => ~spoilt /\ (y = "SystemIds" => ~printing["main"].on)
      BY Zenon, <2>1
    <2>5. y = "SystemIds" /\ conf.useGliDiag /\ ~spoilt' /\ lib.id # 0 => v = lib.id
      <3>1. y = "SystemIds" => v = lib.systemids
        BY DEF Shown
      <3>2. y = "SystemIds" => ~printing["bus"].on /\ ~Left(busy, "begin")
        BY <1>1, BusyLeft DEF PrintInv
      <3>3. main \notin Unprinted
        BY DEF ClientInv, Unprinted
      <3> QED
        BY <2>4, <3>1, <3>2, <3>3 DEF PrintInv
    <2>6. /\ y = "TimeZone" => v = lib.dsgtimezone
          /\ y = "DataGatewayIPaddress" => v = lib.dataGatewayIPaddress
          /\ y = "PlaybackUrl" => v = "url"
      BY DEF Shown
    <2> HIDE DEF y, v
    <2>7. y \in Var
      BY <1>5 DEF y
    <2>8. /\ Told(busy', client', y, v)
          /\ \A x, u : x # y /\ (Left(busy, x) => Left(busy', x)) /\ Told(busy, client, x, u)
                         => Told(busy', client', x, u)
      BY <2>2, <2>3, <2>7, ToldNotify
    <2>9. \A x, u : x # y /\ Told(busy, client, x, u) => Told(busy', client', x, u)
      BY <1>3, <2>8 DEF y
    <2>10. conf.useGliDiag /\ (lib.dstOffset # DstUnset \/ lib.dsgtimezone = None) =>
             Told(busy', client', "TimeZone", lib.dsgtimezone)
      BY <2>6, <2>8, <2>9 DEF ClientInv
    <2>11. Told(busy', client', "DataGatewayIPaddress", lib.dataGatewayIPaddress)
      BY <2>6, <2>8, <2>9 DEF ClientInv
    <2>12. lib.tune_ready => Told(busy', client', "PlaybackUrl", "url")
      <3>1. ~Retuned
        BY <1>5 DEF Retuned, Var
      <3> QED
        BY <2>6, <2>8, <2>9, <3>1 DEF ClientInv
    <2>13. conf.useGliDiag /\ ~spoilt' /\ lib.id # 0 => Told(busy', client', "SystemIds", lib.id)
      BY <2>4, <2>5, <2>8, <2>9 DEF ClientInv
    <2> QED
      BY <1>1, <2>1, <2>10, <2>11, <2>12, <2>13 DEF ClientInv
  <1> QED
    BY <1>4, <1>5

\* Nobody is subscribed before the service is there.
LEMMA ClientStart ==
    ASSUME Typed, ClientInv, Start
    PROVE  ClientInv'
  <1>1. CASE Connect
    BY <1>1, ClientSame DEF Connect, Same, At, env, ids
  <1>2. CASE ~Connect
    <2>1. main \notin {"up", "answer"} /\ client' = client
      <3>1. CASE Register \/ Call \/ PrintUrls \/ EndUrls \/ SerialNumber
        BY <3>1 DEF Register, Same, Call, PrintUrls, EndUrls, SerialNumber, At
      <3>2. CASE AssignId \/ AssignTz \/ AssignDst \/ AssignTune \/ AssignSerial
        BY <3>2 DEF AssignId, AssignTz, AssignDst, AssignTune, AssignSerial, AssignedAs, At
      <3>3. CASE CallRoute \/ AssignRoute \/ UpdateXml
        BY <3>3 DEF CallRoute, AssignRoute, UpdateXml, AssignedAs, At
      <3>4. CASE RootDevice \/ TuneReady \/ PrefixFile \/ Prefix \/ Announce \/ Fail
        BY <3>4 DEF RootDevice, TuneReady, PrefixFile, Prefix, Same, Announce, Fail, At
      <3> QED
        BY <1>2, <3>1, <3>2, <3>3, <3>4 DEF Start
    <2> QED
      BY <2>1 DEF ClientInv
  <1> QED
    BY <1>1, <1>2

\* The main loop.
LEMMA ClientLoop ==
    ASSUME Typed, ClientTyped, PrintInv, ClientInv, GetSystemIds \/ Answer \/ GetTimeZone \/ Subscribe
    PROVE  ClientInv'
  <1>1. lib \in Lib /\ busy \in Busies
    BY DEF Typed
  <1>2. "main" \in Thread
    BY DEF Thread
  <1>3. CASE GetSystemIds \/ Answer
    <2>1. /\ UNCHANGED <<conf, client, busy>> /\ main' \in {"up", "answer"}
          /\ BeginPrint("main") \/ EndPrint("main")
      BY <1>3 DEF GetSystemIds, Answer, At, env
    <2>2. /\ lib'.dsgtimezone = lib.dsgtimezone
          /\ lib'.dstOffset = lib.dstOffset /\ lib'.tune_ready = lib.tune_ready
          /\ lib'.dataGatewayIPaddress = lib.dataGatewayIPaddress
          /\ lib'.id = lib.id
      BY <1>1, <2>1 DEF BeginPrint, EndPrint, Lib
    <2>3. ~spoilt' => ~spoilt
      <3>1. CASE BeginPrint("main")
        BY <3>1 DEF BeginPrint
      <3>2. CASE EndPrint("main")
        <4>1. ~spoilt' => ("main" = "bus" \/ ~spoilt)
          BY <1>2, <3>2, EndFact
        <4> QED
          BY <4>1
      <3> QED
        BY <2>1, <3>1, <3>2
    <2> QED
      BY <2>1, <2>2, <2>3, ClientSame
  <1>4. CASE GetTimeZone
    <2>1. /\ UNCHANGED <<conf, client, busy, spoilt>> /\ main' \in {"up", "answer"}
          /\ lib'.dstOffset = lib.dstOffset /\ lib'.tune_ready = lib.tune_ready
          /\ lib'.dataGatewayIPaddress = lib.dataGatewayIPaddress
          /\ lib'.id = lib.id
          /\ conf.useGliDiag => lib'.dsgtimezone = lib.dsgtimezone
      BY <1>1, <1>4 DEF GetTimeZone, DsgZone, At, env, ids, Lib
    <2> QED
      BY <2>1, ClientSame
  <1>5. CASE Subscribe
    <2> DEFINE g == [x \in Var |-> Shown(x)']
    <2>1. /\ UNCHANGED <<conf, busy, printing, spoilt>> /\ main = "up" /\ main' = "up"
          /\ client' = [client EXCEPT !.subscribed = TRUE, !.wire = Append(@, <<"all", g>>)]
          /\ lib'.systemids = lib.systemids /\ lib'.id = lib.id
      BY <1>1, <1>5 DEF Subscribe, DsgZone, At, env, ids, Lib
    <2>2. g \in [Var -> Shows]
      <3>1. (lib \in Lib => \A x \in Var : Shown(x) \in Shows)'
        BY ShownTyped, PTL
      <3>2. lib' \in Lib
        BY <1>5, TypedMain DEF Typed
      <3> QED
        BY <3>1, <3>2
    <2>3. /\ g["TimeZone"] = lib'.dsgtimezone
          /\ g["DataGatewayIPaddress"] = lib'.dataGatewayIPaddress
          /\ g["SystemIds"] = lib'.systemids
          /\ lib'.tune_ready => g["PlaybackUrl"] = "url"
      BY DEF Shown, Var
    <2> HIDE DEF g
    <2>4. client'.wire = Append(client.wire, <<"all", g>>) /\ client.wire \in Seq(Entry)
      BY <2>1 DEF ClientTyped
    <2>5. \A b, x : Told(b, client', x, g[x])
      BY <2>2, <2>4, ToldAll
    <2>6. conf.useGliDiag /\ ~spoilt /\ lib.id # 0 =>
            lib.systemids = lib.id \/ Left(busy, "SystemIds")
      <3>1. ~printing["main"].on /\ main \notin Unprinted
        BY <2>1 DEF PrintInv, Unprinted
      <3>2. Left(busy, "begin") \/ printing["bus"].on => Left(busy, "SystemIds")
        BY <1>1, BusyLeft DEF PrintInv
      <3> QED
        BY <3>1, <3>2 DEF PrintInv
    <2>7. conf.useGliDiag /\ ~spoilt /\ lib.id # 0 => Told(busy, client', "SystemIds", lib.id)
      <3>1. Told(busy, client', "SystemIds", lib.systemids)
        BY <2>1, <2>3, <2>5
      <3>2. Left(busy, "SystemIds") => Told(busy, client', "SystemIds", lib.id)
        BY DEF Told
      <3> QED
        BY <2>6, <3>1, <3>2
    <2>8. /\ Told(busy, client', "TimeZone", lib'.dsgtimezone)
          /\ Told(busy, client', "DataGatewayIPaddress", lib'.dataGatewayIPaddress)
          /\ lib'.tune_ready => Told(busy, client', "PlaybackUrl", "url")
      BY <2>3, <2>5
    <2> QED
      BY <2>1, <2>7, <2>8 DEF ClientInv
  <1> QED
    BY <1>3, <1>4, <1>5

\* A client that takes the last event of a variable has its value.
LEMMA ClientDeliver ==
    ASSUME ClientTyped, ClientInv, Deliver
    PROVE  ClientInv'
  <1> DEFINE h == Head(client.wire)
  <1>1. /\ client.wire # <<>>
        /\ client' = [client EXCEPT !.wire = Tail(@),
                        !.value = IF h[1] = "all" THEN h[2] ELSE [@ EXCEPT ![h[1]] = h[2]]]
        /\ UNCHANGED <<conf, busy, main, lib, spoilt>>
    BY DEF Deliver, env, ids
  <1>2. /\ client.wire \in Seq(Entry) /\ client.value \in [Var -> Shows]
        /\ client'.wire = Tail(client.wire) /\ client'.subscribed = client.subscribed
        /\ client'.value = IF h[1] = "all" THEN h[2] ELSE [client.value EXCEPT ![h[1]] = h[2]]
    BY <1>1 DEF ClientTyped
  <1>3. \A x \in Var : \A u : Told(busy, client, x, u) => Told(busy, client', x, u)
    BY <1>1, <1>2, ToldDeliver
  <1>4. {"TimeZone", "DataGatewayIPaddress", "PlaybackUrl", "SystemIds"} \subseteq Var
    BY DEF Var
  <1> HIDE DEF h
  <1> QED
    BY <1>1, <1>2, <1>3, <1>4 DEF ClientInv, Retuned

\* Every step keeps what the client has been told, or will be.
LEMMA ClientNext ==
    Typed /\ ClientTyped /\ PrintInv /\ ClientInv /\ [Next]_vars => ClientInv'
  <1> SUFFICES ASSUME Typed, ClientTyped, PrintInv, ClientInv, [Next]_vars PROVE ClientInv'
    OBVIOUS
  <1>1. ASSUME UNCHANGED <<conf, client, busy, main, lib, spoilt>> PROVE ClientInv'
    BY <1>1, ClientSame
  <1>2. CASE Managers
    BY <1>1, <1>2, ManagersPublish DEF NewFile, Publish, ids
  <1>3. CASE UNCHANGED vars
    BY <1>1, <1>3 DEF vars, env, ids
  <1> QED
    BY <1>2, <1>3, ClientHandle, ClientHandleStep, ClientStart, ClientLoop, ClientDeliver
    DEF Next, BusThread

\* Once all is handled and delivered, a subscribed client has the values the managers
\* have (notify_value_change, and the query callbacks that answer a subscription from the
\* strings that the bus thread assigns): through any number of changes, before,
\* during and after the start, and between any two steps of a handler.
THEOREM CurrentAlways == Spec => []CurrentWhenQuiet
  <1>1. Init => PathInv /\ FlowInv /\ PrintInv /\ ClientTyped /\ ClientInv
    <2> SUFFICES ASSUME Init PROVE PrintInv /\ ClientTyped /\ ClientInv
      BY ZoneInit
    <2>1. /\ busy = <<>> /\ main = "register"
          /\ ~printing["bus"].on /\ ~printing["main"].on
          /\ client = [subscribed |-> FALSE, value |-> [x \in Var |-> None], wire |-> <<>>]
      BY DEF Init, Idle, Thread
    <2>2. ClientTyped
      <3>1. None \in Shows
        BY DEF Shows, Zones
      <3> QED
        BY <2>1, <3>1 DEF ClientTyped
    <2> QED
      BY <2>1, <2>2 DEF PrintInv, ClientInv, Unprinted
  <1>2. Typed /\ PathInv /\ FlowInv /\ ClientInv => CurrentWhenQuiet
    <2> SUFFICES ASSUME Typed, FlowInv, ClientInv, Quiet
                 PROVE  /\ (/\ conf.useGliDiag /\ sys.id # 0 /\ (conf.client => lib.id # 0)
                            /\ "id" \notin stale /\ ~spoilt) => client.value["SystemIds"] = sys.id
                        /\ conf.useGliDiag /\ lib.dstOffset # DstUnset =>
                             client.value["TimeZone"] = lib.dsgtimezone
                        /\ (/\ conf.client \/ lib.dataGatewayIPaddress # None
                            /\ sys.route # None /\ "route" \notin stale)
                               => client.value["DataGatewayIPaddress"] = sys.route
                        /\ lib.tune_ready => client.value["PlaybackUrl"] = "url"
      BY DEF CurrentWhenQuiet
    <2>1. /\ busy = <<>> /\ bus = <<>> /\ main = "up" /\ client.subscribed /\ client.wire = <<>>
      BY DEF Quiet, Settled
    <2>2. \A x, u : Told(busy, client, x, u) => client.value[x] = u
      <3>1. \A x : ~Left(busy, x)
        BY <2>1, BusyLeft DEF Typed
      <3>2. \A x : Free(client.wire, x)
        BY <2>1 DEF Free
      <3> QED
        BY <3>1, <3>2 DEF Told
    <2>3. \A x : Free(bus, x)
      BY <2>1 DEF Free
    <2>4. /\ main \notin Before("id") /\ main \notin Before("route")
          /\ Asked("id") <=> ~conf.client
          /\ Asked("route") <=> conf.client
      BY <2>1 DEF Before, Asked
    <2>5. (sys.id # 0 /\ (conf.client => lib.id # 0) /\ "id" \notin stale) => lib.id = sys.id
      BY <2>3, <2>4 DEF FlowInv, Reached
    <2>6. (/\ conf.client \/ lib.dataGatewayIPaddress # None
           /\ "route" \notin stale) => lib.dataGatewayIPaddress = sys.route
      BY <2>3, <2>4 DEF FlowInv, Reached
    <2> QED
      BY <2>1, <2>2, <2>5, <2>6 DEF ClientInv, Retuned
  <1> QED
    BY <1>1, <1>2, TypedInit, TypedNext, PathNext, FlowNext, PrintNext, ClientTypedNext,
       ClientNext, PTL DEF Spec

=============================================================================
