--------------------------- MODULE XcalDeviceProofs ----------------------------
(***************************************************************************)
(* The name of the time zone that xcal-device reports, and the order in    *)
(* which its clients see the system ids: for any number of changes of the  *)
(* system manager's values, of clients and of events on their way.         *)
(***************************************************************************)
EXTENDS XcalDevice, TLAPS

-----------------------------------------------------------------------------
(* Types. *)

Event ==
    ({"tune"} \X BOOLEAN) \cup ({"id"} \X Nat) \cup ({"tz"} \X (Payload \cup {NoMatch}))
    \cup ({"dst"} \X {0, 60}) \cup ({"route"} \X Nat)

Sys == [tune : BOOLEAN, id : Nat, diag : Nat, tz : Payload \cup {NoTz, NoMatch},
        dst : {0, 60, NoDst}, route : Nat, prefix : {"absent", "empty", "prefix"}]

Zones == {"", "US/Mountain", "US/Central", "US/Eastern", "US/Arizona", "Canada/Saskatchewan"}

Lib == [tune_ready : BOOLEAN, id : Nat, systemids : Nat \cup {Unprinted},
        dsgtimezone : Zones, dstOffset : {0, DstUnset, 60}, dataGatewayIPaddress : Nat]

Steps == {"register", "call", "assign_id", "assign_tz", "assign_dst", "assign_tune",
          "urls", "wait", "prefix_file", "prefix", "serve", "cvp", "up", "ended"}

Typed ==
    /\ sys \in Sys
    /\ changes \in Nat
    /\ late \in BOOLEAN
    /\ was0 \in BOOLEAN
    /\ bus \in Seq(Event)
    /\ main \in Steps
    /\ param \in Sys
    /\ lib \in Lib

-----------------------------------------------------------------------------
(* The events on their way. *)

\* The offset is 0 once the first n - 1 of the events s are handled, given that it
\* is o now.
Zero(s, o, n) ==
    \/ o = 0 /\ \A j \in 1 .. n - 1 : s[j][1] # "dst"
    \/ \E i \in 1 .. n - 1 :
         s[i][1] = "dst" /\ s[i][2] = 0 /\ \A j \in i + 1 .. n - 1 : s[j][1] # "dst"

\* An offset of 0 comes after the first n events.
ZeroAfter(s, n) == \E i \in n + 1 .. Len(s) : s[i][1] = "dst" /\ s[i][2] = 0

\* The name of the zone p, with or without an offset of 0 since it is known.
Name(p, b) ==
    IF p = NoTz THEN "" ELSE IF b THEN WithoutDst(javaTZ(p)) ELSE javaTZ(p)

\* s holds no time zone.
NoZone(s) == \A i \in 1 .. Len(s) : s[i][1] # "tz"

\* The last time zone in s is p, and w says whether it will have met an offset of 0.
LastZone(s, o, p, w) ==
    \E k \in 1 .. Len(s) :
        /\ s[k][1] = "tz" /\ s[k][2] = p
        /\ \A i \in k + 1 .. Len(s) : s[i][1] # "tz"
        /\ w = (Zero(s, o, k) \/ ZeroAfter(s, k))

\* The zone z is p already, and w says whether it will have met an offset of 0.
Known(z, s, o, p, w) ==
    \E b \in BOOLEAN :
        z = Name(p, b) /\ (o = 0 => b) /\ w = (b \/ ZeroAfter(s, 0))

\* Name z and offset o become what the system manager's zone p, offset d and the
\* history w say, when the events s are handled; a zone without a name says nothing.
Pending(z, o, s, p, d, w) ==
    /\ (d = 0) = Zero(s, o, Len(s) + 1)
    /\ p = NoMatch \/ (NoZone(s) /\ Known(z, s, o, p, w)) \/ LastZone(s, o, p, w)

\* One more event.
LEMMA AppendFact ==
    ASSUME NEW s \in Seq(Event), NEW e \in Event
    PROVE  /\ Append(s, e) \in Seq(Event)
           /\ Len(Append(s, e)) = Len(s) + 1
           /\ Append(s, e)[Len(s) + 1] = e
           /\ \A i \in 1 .. Len(s) : Append(s, e)[i] = s[i]
           /\ Len(s) \in Nat
  OBVIOUS

\* One event less.
LEMMA TailFact ==
    ASSUME NEW s \in Seq(Event), s # <<>>
    PROVE  /\ Tail(s) \in Seq(Event)
           /\ Head(s) = s[1] /\ s[1] \in Event
           /\ Len(s) \in Nat /\ Len(s) >= 1
           /\ Len(Tail(s)) = Len(s) - 1
           /\ \A i \in 1 .. Len(s) - 1 : Tail(s)[i] = s[i + 1]
  OBVIOUS

\* Events that come later change nothing for the first ones.
LEMMA ZeroAppend ==
    ASSUME NEW s \in Seq(Event), NEW e \in Event, NEW o, NEW n \in 1 .. Len(s) + 1
    PROVE  Zero(Append(s, e), o, n) = Zero(s, o, n)
  <1>1. \A i \in 1 .. n - 1 : Append(s, e)[i] = s[i]
    BY AppendFact
  <1> QED
    BY <1>1 DEF Zero

\* The last event decides if it is an offset.
LEMMA ZeroLast ==
    ASSUME NEW s \in Seq(Event), NEW e \in Event, NEW o
    PROVE  Zero(Append(s, e), o, Len(s) + 2)
             = IF e[1] = "dst" THEN e[2] = 0 ELSE Zero(s, o, Len(s) + 1)
  <1> DEFINE t == Append(s, e)
  <1>1. /\ Len(s) \in Nat /\ t[Len(s) + 1] = e
        /\ \A i \in 1 .. Len(s) : t[i] = s[i]
    BY AppendFact
  <1> HIDE DEF t
  <1>2. CASE e[1] = "dst"
    <2>1. ASSUME e[2] = 0 PROVE Zero(t, o, Len(s) + 2)
      BY <1>1, <1>2, <2>1 DEF Zero
    <2>2. ASSUME Zero(t, o, Len(s) + 2) PROVE e[2] = 0
      BY <1>1, <1>2, <2>2 DEF Zero
    <2>3. Zero(t, o, Len(s) + 2) \in BOOLEAN /\ (e[2] = 0) \in BOOLEAN
      BY DEF Zero
    <2> QED
      BY <1>2, <2>1, <2>2, <2>3 DEF t
  <1>3. CASE e[1] # "dst"
    <2>1. ASSUME Zero(t, o, Len(s) + 2) PROVE Zero(s, o, Len(s) + 1)
      BY <1>1, <1>3, <2>1 DEF Zero
    <2>2. ASSUME Zero(s, o, Len(s) + 1) PROVE Zero(t, o, Len(s) + 2)
      <3>1. CASE o = 0 /\ \A j \in 1 .. Len(s) : s[j][1] # "dst"
        BY <1>1, <1>3, <3>1 DEF Zero
      <3>2. ASSUME NEW i \in 1 .. Len(s), s[i][1] = "dst", s[i][2] = 0,
                   \A j \in i + 1 .. Len(s) : s[j][1] # "dst"
            PROVE  Zero(t, o, Len(s) + 2)
        <4>1. i \in 1 .. Len(s) + 1 /\ t[i][1] = "dst" /\ t[i][2] = 0
          BY <1>1, <3>2
        <4>2. \A j \in i + 1 .. Len(s) + 1 : t[j][1] # "dst"
          BY <1>1, <1>3, <3>2
        <4>3. Len(s) + 2 - 1 = Len(s) + 1
          BY <1>1
        <4> QED
          BY <4>1, <4>2, <4>3 DEF Zero
      <3>3. Len(s) + 1 - 1 = Len(s)
        BY <1>1
      <3> QED
        BY <2>2, <3>1, <3>2, <3>3 DEF Zero
    <2>3. Zero(t, o, Len(s) + 2) \in BOOLEAN /\ Zero(s, o, Len(s) + 1) \in BOOLEAN
      BY DEF Zero
    <2> QED
      BY <1>3, <2>1, <2>2, <2>3 DEF t
  <1> QED
    BY <1>2, <1>3

\* Handling the first event: the others count from the offset it leaves.
LEMMA ZeroTail ==
    ASSUME NEW s \in Seq(Event), s # <<>>, NEW o, NEW n \in 2 .. Len(s) + 1
    PROVE  Zero(s, o, n) = Zero(Tail(s), IF s[1][1] = "dst" THEN s[1][2] ELSE o, n - 1)
  <1> DEFINE t == Tail(s)
             r == IF s[1][1] = "dst" THEN s[1][2] ELSE o
  <1>1. /\ Len(s) \in Nat /\ Len(s) >= 1
        /\ \A i \in 1 .. Len(s) - 1 : t[i] = s[i + 1]
    BY TailFact
  <1> HIDE DEF t
  <1>2. n \in Nat /\ n >= 2 /\ n - 1 <= Len(s) /\ n - 1 - 1 = n - 2
    BY <1>1
  <1>3. ASSUME Zero(s, o, n) PROVE Zero(t, r, n - 1)
    <2>1. CASE o = 0 /\ \A j \in 1 .. n - 1 : s[j][1] # "dst"
      <3>1. r = 0
        BY <1>2, <2>1
      <3>2. \A j \in 1 .. n - 2 : t[j][1] # "dst"
        BY <1>1, <1>2, <2>1
      <3> QED
        BY <1>2, <3>1, <3>2 DEF Zero
    <2>2. ASSUME NEW i \in 1 .. n - 1, s[i][1] = "dst", s[i][2] = 0,
                 \A j \in i + 1 .. n - 1 : s[j][1] # "dst"
          PROVE  Zero(t, r, n - 1)
      <3>1. \A j \in 1 .. n - 2 : j >= i => t[j][1] # "dst"
        BY <1>1, <1>2, <2>2
      <3>2. CASE i = 1
        BY <1>2, <2>2, <3>1, <3>2 DEF Zero
      <3>3. CASE i # 1
        <4>1. i - 1 \in 1 .. n - 2 /\ t[i - 1] = s[i]
          BY <1>1, <1>2, <3>3
        <4>2. \A j \in (i - 1) + 1 .. n - 2 : t[j][1] # "dst"
          BY <1>2, <3>1
        <4> QED
          BY <1>2, <2>2, <4>1, <4>2 DEF Zero
      <3> QED
        BY <3>2, <3>3
    <2> QED
      BY <1>3, <2>1, <2>2 DEF Zero
  <1>4. ASSUME Zero(t, r, n - 1) PROVE Zero(s, o, n)
    <2>1. CASE r = 0 /\ \A j \in 1 .. n - 2 : t[j][1] # "dst"
      <3>1. \A j \in 2 .. n - 1 : s[j][1] # "dst"
        <4>1. ASSUME NEW j \in 2 .. n - 1 PROVE s[j][1] # "dst"
          <5>1. j - 1 \in 1 .. n - 2 /\ t[j - 1] = s[j]
            BY <1>1, <1>2
          <5> QED
            BY <2>1, <5>1
        <4> QED
          BY <4>1
      <3>2. CASE s[1][1] = "dst"
        <4>1. 1 \in 1 .. n - 1 /\ \A j \in 1 + 1 .. n - 1 : s[j][1] # "dst"
          BY <1>2, <3>1
        <4> QED
          BY <2>1, <3>2, <4>1 DEF Zero
      <3>3. CASE s[1][1] # "dst"
        <4>1. \A j \in 1 .. n - 1 : s[j][1] # "dst"
          BY <1>2, <3>1, <3>3
        <4> QED
          BY <2>1, <3>3, <4>1 DEF Zero
      <3> QED
        BY <3>2, <3>3
    <2>2. ASSUME NEW i \in 1 .. n - 2, t[i][1] = "dst", t[i][2] = 0,
                 \A j \in i + 1 .. n - 2 : t[j][1] # "dst"
          PROVE  Zero(s, o, n)
      <3>1. i + 1 \in 1 .. n - 1 /\ s[i + 1] = t[i]
        BY <1>1, <1>2
      <3>2. ASSUME NEW j \in (i + 1) + 1 .. n - 1 PROVE s[j][1] # "dst"
        <4>1. j - 1 \in i + 1 .. n - 2 /\ t[j - 1] = s[j]
          BY <1>1, <1>2
        <4> QED
          BY <2>2, <4>1
      <3> QED
        BY <2>2, <3>1, <3>2 DEF Zero
    <2> QED
      BY <1>2, <1>4, <2>1, <2>2 DEF Zero
  <1>5. Zero(s, o, n) \in BOOLEAN /\ Zero(t, r, n - 1) \in BOOLEAN
    BY DEF Zero
  <1> QED
    BY <1>3, <1>4, <1>5 DEF t

\* An offset of 0 that comes after the first n events comes after all but one of
\* them when the first is handled.
LEMMA AfterTail ==
    ASSUME NEW s \in Seq(Event), s # <<>>, NEW n \in 1 .. Len(s)
    PROVE  ZeroAfter(s, n) = ZeroAfter(Tail(s), n - 1)
  <1> DEFINE t == Tail(s)
  <1>1. /\ Len(s) \in Nat /\ Len(s) >= 1 /\ Len(t) = Len(s) - 1
        /\ \A i \in 1 .. Len(s) - 1 : t[i] = s[i + 1]
    BY TailFact
  <1> HIDE DEF t
  <1>2. n \in Nat /\ n >= 1
    BY <1>1
  <1>3. ASSUME ZeroAfter(s, n) PROVE ZeroAfter(t, n - 1)
    <2>1. PICK i \in n + 1 .. Len(s) : s[i][1] = "dst" /\ s[i][2] = 0
      BY <1>3 DEF ZeroAfter
    <2>2. i - 1 \in (n - 1) + 1 .. Len(t) /\ t[i - 1] = s[i]
      BY <1>1, <1>2
    <2> QED
      BY <2>1, <2>2 DEF ZeroAfter
  <1>4. ASSUME ZeroAfter(t, n - 1) PROVE ZeroAfter(s, n)
    <2>1. PICK i \in (n - 1) + 1 .. Len(t) : t[i][1] = "dst" /\ t[i][2] = 0
      BY <1>4 DEF ZeroAfter
    <2>2. i + 1 \in n + 1 .. Len(s) /\ s[i + 1] = t[i]
      BY <1>1, <1>2
    <2> QED
      BY <2>1, <2>2 DEF ZeroAfter
  <1>5. ZeroAfter(s, n) \in BOOLEAN /\ ZeroAfter(t, n - 1) \in BOOLEAN
    BY DEF ZeroAfter
  <1> QED
    BY <1>3, <1>4, <1>5 DEF t

\* The first event, and those after it.
LEMMA AfterFirst ==
    ASSUME NEW s \in Seq(Event), s # <<>>
    PROVE  ZeroAfter(s, 0) = ((s[1][1] = "dst" /\ s[1][2] = 0) \/ ZeroAfter(Tail(s), 0))
  <1>1. Len(s) \in Nat /\ Len(s) >= 1
    BY TailFact
  <1>2. ZeroAfter(s, 1) = ZeroAfter(Tail(s), 1 - 1)
    BY <1>1, AfterTail
  <1>3. ZeroAfter(s, 0) = ((s[1][1] = "dst" /\ s[1][2] = 0) \/ ZeroAfter(s, 1))
    <2>1. ASSUME ZeroAfter(s, 0) PROVE (s[1][1] = "dst" /\ s[1][2] = 0) \/ ZeroAfter(s, 1)
      <3>1. PICK i \in 1 .. Len(s) : s[i][1] = "dst" /\ s[i][2] = 0
        BY <2>1 DEF ZeroAfter
      <3>2. i = 1 \/ i \in 1 + 1 .. Len(s)
        BY <1>1
      <3> QED
        BY <3>1, <3>2 DEF ZeroAfter
    <2>2. ASSUME (s[1][1] = "dst" /\ s[1][2] = 0) \/ ZeroAfter(s, 1) PROVE ZeroAfter(s, 0)
      BY <1>1, <2>2 DEF ZeroAfter
    <2>3. ZeroAfter(s, 0) \in BOOLEAN /\ ZeroAfter(s, 1) \in BOOLEAN
      BY DEF ZeroAfter
    <2> QED
      BY <2>1, <2>2, <2>3
  <1> QED
    BY <1>2, <1>3

\* One more event comes after all the others.
LEMMA AfterAppend ==
    ASSUME NEW s \in Seq(Event), NEW e \in Event, NEW n \in 0 .. Len(s)
    PROVE  ZeroAfter(Append(s, e), n) = (ZeroAfter(s, n) \/ (e[1] = "dst" /\ e[2] = 0))
  <1> DEFINE t == Append(s, e)
  <1>1. /\ Len(s) \in Nat /\ Len(t) = Len(s) + 1 /\ t[Len(s) + 1] = e
        /\ \A i \in 1 .. Len(s) : t[i] = s[i]
    BY AppendFact
  <1> HIDE DEF t
  <1>2. ASSUME ZeroAfter(t, n) PROVE ZeroAfter(s, n) \/ (e[1] = "dst" /\ e[2] = 0)
    <2>1. PICK i \in n + 1 .. Len(t) : t[i][1] = "dst" /\ t[i][2] = 0
      BY <1>2 DEF ZeroAfter
    <2>2. i = Len(s) + 1 \/ (i \in n + 1 .. Len(s) /\ t[i] = s[i])
      BY <1>1
    <2> QED
      BY <1>1, <2>1, <2>2 DEF ZeroAfter
  <1>3. ASSUME ZeroAfter(s, n) \/ (e[1] = "dst" /\ e[2] = 0) PROVE ZeroAfter(t, n)
    <2>1. CASE ZeroAfter(s, n)
      <3>1. PICK i \in n + 1 .. Len(s) : s[i][1] = "dst" /\ s[i][2] = 0
        BY <2>1 DEF ZeroAfter
      <3>2. i \in n + 1 .. Len(t) /\ t[i] = s[i]
        BY <1>1
      <3> QED
        BY <3>1, <3>2 DEF ZeroAfter
    <2>2. CASE e[1] = "dst" /\ e[2] = 0
      <3>1. Len(s) + 1 \in n + 1 .. Len(t)
        BY <1>1
      <3> QED
        BY <1>1, <2>2, <3>1 DEF ZeroAfter
    <2> QED
      BY <1>3, <2>1, <2>2
  <1>4. ZeroAfter(t, n) \in BOOLEAN /\ ZeroAfter(s, n) \in BOOLEAN
    BY DEF ZeroAfter
  <1> QED
    BY <1>2, <1>3, <1>4 DEF t

\* The names there are, and that a name is adjusted once.
LEMMA NameOnce ==
    /\ \A p \in Payload : javaTZ(p) \in Zones
    /\ \A z \in Zones : WithoutDst(z) \in Zones
    /\ \A p \in Payload \cup {NoTz} : WithoutDst(Name(p, TRUE)) = Name(p, TRUE)
    /\ \A p \in Payload \cup {NoTz} : WithoutDst(Name(p, FALSE)) = Name(p, TRUE)
  <1>1. /\ javaTZ("MST") = "US/Mountain" /\ javaTZ("CST") = "US/Central"
        /\ javaTZ("EST") = "US/Eastern"
    BY DEF javaTZ
  <1>2. /\ WithoutDst("US/Mountain") = "US/Arizona"
        /\ WithoutDst("US/Central") = "Canada/Saskatchewan"
        /\ WithoutDst("US/Eastern") = "US/Eastern"
        /\ WithoutDst("US/Arizona") = "US/Arizona"
        /\ WithoutDst("Canada/Saskatchewan") = "Canada/Saskatchewan"
        /\ WithoutDst("") = ""
    BY DEF WithoutDst
  <1>3. \A p \in Payload : p \in {"MST", "CST", "EST"}
    BY PayloadAssumption
  <1>4. ASSUME NEW p \in Payload \cup {NoTz}
        PROVE  /\ WithoutDst(Name(p, TRUE)) = Name(p, TRUE)
               /\ WithoutDst(Name(p, FALSE)) = Name(p, TRUE)
    <2>1. CASE p = NoTz
      <3>1. Name(p, TRUE) = "" /\ Name(p, FALSE) = ""
        BY <2>1 DEF Name
      <3> QED
        BY <1>2, <3>1
    <2>2. CASE p # NoTz
      <3>1. Name(p, TRUE) = WithoutDst(javaTZ(p)) /\ Name(p, FALSE) = javaTZ(p)
        BY <2>2 DEF Name
      <3>2. p \in {"MST", "CST", "EST"}
        BY <1>3, <2>2
      <3> QED
        BY <1>1, <1>2, <3>1, <3>2
    <2> QED
      BY <2>1, <2>2
  <1>5. \A p \in Payload : javaTZ(p) \in Zones
    BY <1>1, <1>3 DEF Zones
  <1>6. \A z \in Zones : WithoutDst(z) \in Zones
    BY <1>2 DEF Zones
  <1> QED
    BY <1>4, <1>5, <1>6

-----------------------------------------------------------------------------
(* What events do. *)

\* The zone and the offset after the event h.
ZoneAfter(z, o, h) ==
    CASE h[1] = "tz" /\ h[2] # NoMatch -> Name(h[2], o = 0)
      [] h[1] = "dst" /\ h[2] = 0 -> WithoutDst(z)
      [] OTHER -> z

OffsetAfter(o, h) == IF h[1] = "dst" THEN h[2] ELSE o

\* Handling the first event on its way keeps what is pending.
LEMMA Handled ==
    ASSUME NEW s \in Seq(Event), s # <<>>, NEW z, NEW o,
           NEW p \in Payload \cup {NoTz, NoMatch}, NEW d, NEW w \in BOOLEAN,
           Pending(z, o, s, p, d, w)
    PROVE  Pending(ZoneAfter(z, o, s[1]), OffsetAfter(o, s[1]), Tail(s), p, d, w)
  <1> DEFINE t == Tail(s)
             z1 == ZoneAfter(z, o, s[1])
             o1 == OffsetAfter(o, s[1])
  <1>0. /\ o1 = IF s[1][1] = "dst" THEN s[1][2] ELSE o
        /\ s[1][1] = "tz" /\ s[1][2] # NoMatch => z1 = Name(s[1][2], o = 0)
        /\ s[1][1] = "dst" => z1 = IF s[1][2] = 0 THEN WithoutDst(z) ELSE z
        /\ s[1][1] \notin {"tz", "dst"} => z1 = z
    BY DEF ZoneAfter, OffsetAfter
  <1> SUFFICES Pending(z1, o1, t, p, d, w)
    OBVIOUS
  <1> HIDE DEF z1, o1
  <1>1. /\ Len(s) \in Nat /\ Len(s) >= 1 /\ Len(t) = Len(s) - 1
        /\ \A i \in 1 .. Len(s) - 1 : t[i] = s[i + 1]
    BY TailFact
  <1>2. (d = 0) = Zero(t, o1, Len(t) + 1)
    <2>1. Len(s) + 1 \in 2 .. Len(s) + 1
      BY <1>1
    <2>2. Zero(s, o, Len(s) + 1) = Zero(t, o1, Len(s) + 1 - 1)
      BY <1>0, <2>1, ZeroTail
    <2>3. Len(s) + 1 - 1 = Len(t) + 1
      BY <1>1
    <2> QED
      BY <2>2, <2>3 DEF Pending
  <1>3. CASE p # NoMatch /\ NoZone(s) /\ Known(z, s, o, p, w)
    <2>0. p \in Payload \cup {NoTz}
      BY <1>3
    <2>1. s[1][1] # "tz"
      BY <1>1, <1>3 DEF NoZone
    <2>2. NoZone(t)
      <3>1. \A i \in 1 .. Len(t) : i + 1 \in 1 .. Len(s) /\ t[i] = s[i + 1]
        BY <1>1
      <3> QED
        BY <1>3, <3>1 DEF NoZone
    <2>3. PICK b \in BOOLEAN : z = Name(p, b) /\ (o = 0 => b) /\ w = (b \/ ZeroAfter(s, 0))
      BY <1>3 DEF Known
    <2>4. ZeroAfter(s, 0) = ((s[1][1] = "dst" /\ s[1][2] = 0) \/ ZeroAfter(t, 0))
      BY AfterFirst
    <2>5. CASE s[1][1] = "dst" /\ s[1][2] = 0
      <3>1. z1 = Name(p, TRUE)
        <4>1. CASE b = TRUE
          BY <1>0, <2>0, <2>3, <2>5, <4>1, NameOnce
        <4>2. CASE b = FALSE
          BY <1>0, <2>0, <2>3, <2>5, <4>2, NameOnce
        <4> QED
          BY <4>1, <4>2
      <3>2. w = TRUE
        BY <2>3, <2>4, <2>5
      <3>3. Known(z1, t, o1, p, w)
        BY <3>1, <3>2 DEF Known
      <3> QED
        BY <1>2, <2>2, <3>3 DEF Pending
    <2>6. CASE ~(s[1][1] = "dst" /\ s[1][2] = 0)
      <3>1. z1 = z /\ (o1 = 0 => o = 0)
        BY <1>0, <2>1, <2>6
      <3>2. w = (b \/ ZeroAfter(t, 0))
        BY <2>3, <2>4, <2>6
      <3>3. Known(z1, t, o1, p, w)
        BY <2>3, <3>1, <3>2 DEF Known
      <3> QED
        BY <1>2, <2>2, <3>3 DEF Pending
    <2> QED
      BY <2>5, <2>6
  <1>4. CASE p # NoMatch /\ LastZone(s, o, p, w)
    <2>1. PICK k \in 1 .. Len(s) :
            /\ s[k][1] = "tz" /\ s[k][2] = p
            /\ \A i \in k + 1 .. Len(s) : s[i][1] # "tz"
            /\ w = (Zero(s, o, k) \/ ZeroAfter(s, k))
      BY <1>4 DEF LastZone
    <2>2. k \in Nat /\ k >= 1 /\ ZeroAfter(s, k) = ZeroAfter(t, k - 1)
      BY <1>1, AfterTail
    <2>3. \A i \in k .. Len(t) : t[i][1] # "tz"
      <3>1. \A i \in k .. Len(t) : i + 1 \in k + 1 .. Len(s) /\ t[i] = s[i + 1]
        BY <1>1, <2>2
      <3> QED
        BY <2>1, <3>1
    <2>4. CASE k = 1
      <3>1. Zero(s, o, 1) <=> o = 0
        <4>1. \A j \in 1 .. 1 - 1 : FALSE
          OBVIOUS
        <4> QED
          BY <4>1 DEF Zero
      <3>2. /\ o = 0 => w = TRUE
            /\ o # 0 => w = ZeroAfter(t, 0)
        <4>1. w = (Zero(s, o, 1) \/ ZeroAfter(t, 1 - 1))
          BY <2>1, <2>2, <2>4
        <4>2. 1 - 1 = 0
          OBVIOUS
        <4>3. w = (Zero(s, o, 1) \/ ZeroAfter(t, 0))
          BY <4>1, <4>2
        <4>4. CASE o = 0
          BY <3>1, <4>3, <4>4
        <4>5. CASE o # 0
          <5>1. Zero(s, o, 1) = FALSE
            BY <3>1, <4>5 DEF Zero
          <5>2. ZeroAfter(t, 0) \in BOOLEAN
            BY DEF ZeroAfter
          <5> QED
            BY <4>3, <4>5, <5>1, <5>2
        <4> QED
          BY <4>4, <4>5
      <3>3. z1 = Name(p, o = 0) /\ o1 = o
        BY <1>0, <1>4, <2>1, <2>4
      <3>4. Known(z1, t, o1, p, w)
        <4>1. CASE o = 0
          <5>1. z1 = Name(p, TRUE) /\ w = (TRUE \/ ZeroAfter(t, 0))
            BY <3>2, <3>3, <4>1
          <5> QED
            BY <5>1 DEF Known
        <4>2. CASE o # 0
          <5>1. z1 = Name(p, FALSE) /\ w = (FALSE \/ ZeroAfter(t, 0)) /\ ~(o1 = 0)
            BY <3>2, <3>3, <4>2
          <5> QED
            BY <5>1 DEF Known
        <4> QED
          BY <4>1, <4>2
      <3>5. NoZone(t)
        BY <2>3, <2>4 DEF NoZone
      <3> QED
        BY <1>2, <3>4, <3>5 DEF Pending
    <2>5. CASE k # 1
      <3>1. /\ k \in 2 .. Len(s) + 1 /\ k - 1 \in 1 .. Len(t)
            /\ t[k - 1] = s[k] /\ (k - 1) + 1 = k
        BY <1>1, <2>2, <2>5
      <3>2. Zero(s, o, k) = Zero(t, o1, k - 1)
        BY <1>0, <3>1, ZeroTail
      <3>3. LastZone(t, o1, p, w)
        BY <2>1, <2>2, <2>3, <3>1, <3>2 DEF LastZone
      <3> QED
        BY <1>2, <3>3 DEF Pending
    <2> QED
      BY <2>4, <2>5
  <1>5. CASE p = NoMatch
    BY <1>2, <1>5 DEF Pending
  <1> QED
    BY <1>3, <1>4, <1>5 DEF Pending

\* A value that is published becomes pending.
LEMMA Published ==
    ASSUME NEW s \in Seq(Event), NEW e \in Event, NEW z, NEW o,
           NEW p, NEW d, NEW w \in BOOLEAN,
           Pending(z, o, s, p, d, w),
           NEW p1, NEW d1, NEW w1 \in BOOLEAN,
           p1 = IF e[1] = "tz" THEN e[2] ELSE p,
           d1 = IF e[1] = "dst" THEN e[2] ELSE d,
           e[1] = "tz" => w1 = (d = 0),
           e[1] = "dst" => w1 = (w \/ e[2] = 0),
           e[1] \notin {"tz", "dst"} => w1 = w
    PROVE  Pending(z, o, Append(s, e), p1, d1, w1)
  <1> DEFINE t == Append(s, e)
  <1>1. /\ Len(s) \in Nat /\ Len(t) = Len(s) + 1 /\ t[Len(s) + 1] = e
        /\ \A i \in 1 .. Len(s) : t[i] = s[i]
    BY AppendFact
  <1>2. (d1 = 0) = Zero(t, o, Len(t) + 1)
    <2>1. Zero(t, o, Len(s) + 2)
             = IF e[1] = "dst" THEN e[2] = 0 ELSE Zero(s, o, Len(s) + 1)
      BY ZeroLast
    <2>2. Len(t) + 1 = Len(s) + 2
      BY <1>1
    <2>3. (d = 0) = Zero(s, o, Len(s) + 1)
      BY DEF Pending
    <2> QED
      BY <2>1, <2>2, <2>3
  <1>3. CASE e[1] = "tz"
    <2>1. Len(s) + 1 \in 1 .. Len(s) + 1 /\ Len(s) + 1 \in 1 .. Len(t)
      BY <1>1
    <2>2. Zero(t, o, Len(s) + 1) = (d = 0)
      BY <2>1, ZeroAppend DEF Pending
    <2>3. ~ZeroAfter(t, Len(s) + 1)
      BY <1>1 DEF ZeroAfter
    <2>4. w1 = (Zero(t, o, Len(s) + 1) \/ ZeroAfter(t, Len(s) + 1))
      BY <1>3, <2>2, <2>3
    <2>5. \A i \in (Len(s) + 1) + 1 .. Len(t) : t[i][1] # "tz"
      BY <1>1
    <2>6. LastZone(t, o, p1, w1)
      BY <1>1, <1>3, <2>1, <2>4, <2>5 DEF LastZone
    <2> QED
      BY <1>2, <2>6 DEF Pending
  <1>4. CASE e[1] # "tz"
    <2>1. p1 = p /\ w1 = (w \/ (e[1] = "dst" /\ e[2] = 0))
      BY <1>4
    <2>2. CASE NoZone(s) /\ Known(z, s, o, p, w)
      <3>1. NoZone(t)
        BY <1>1, <1>4, <2>2 DEF NoZone
      <3>2. PICK b \in BOOLEAN : z = Name(p, b) /\ (o = 0 => b) /\ w = (b \/ ZeroAfter(s, 0))
        BY <2>2 DEF Known
      <3>3. ZeroAfter(t, 0) = (ZeroAfter(s, 0) \/ (e[1] = "dst" /\ e[2] = 0))
        BY <1>1, AfterAppend
      <3>4. w1 = (b \/ ZeroAfter(t, 0))
        BY <2>1, <3>2, <3>3
      <3>5. Known(z, t, o, p1, w1)
        BY <2>1, <3>2, <3>4 DEF Known
      <3> QED
        BY <1>2, <3>1, <3>5 DEF Pending
    <2>3. CASE LastZone(s, o, p, w)
      <3>1. PICK k \in 1 .. Len(s) :
              /\ s[k][1] = "tz" /\ s[k][2] = p
              /\ \A i \in k + 1 .. Len(s) : s[i][1] # "tz"
              /\ w = (Zero(s, o, k) \/ ZeroAfter(s, k))
        BY <2>3 DEF LastZone
      <3>2. k \in 1 .. Len(t) /\ k \in 1 .. Len(s) + 1 /\ k \in 0 .. Len(s) /\ t[k] = s[k]
        BY <1>1
      <3>3. \A i \in k + 1 .. Len(t) : t[i][1] # "tz"
        BY <1>1, <1>4, <3>1
      <3>4. Zero(t, o, k) = Zero(s, o, k)
        BY <3>2, ZeroAppend
      <3>5. ZeroAfter(t, k) = (ZeroAfter(s, k) \/ (e[1] = "dst" /\ e[2] = 0))
        BY <3>2, AfterAppend
      <3>6. w1 = (Zero(t, o, k) \/ ZeroAfter(t, k))
        BY <2>1, <3>1, <3>4, <3>5
      <3>7. LastZone(t, o, p1, w1)
        BY <2>1, <3>1, <3>2, <3>3, <3>6 DEF LastZone
      <3> QED
        BY <1>2, <3>7 DEF Pending
    <2>4. CASE p = NoMatch
      BY <1>2, <2>1, <2>4 DEF Pending
    <2> QED
      BY <2>2, <2>3, <2>4 DEF Pending
  <1> QED
    BY <1>3, <1>4
-----------------------------------------------------------------------------
(* What the handlers do to the library's variables.                          *)

\* l is of the library's type, and has zone z and offset o.
IsLib(l, z, o) == l \in Lib /\ l.dsgtimezone = z /\ l.dstOffset = o

\* The ids are printed.
LEMMA IdsPrinted ==
    ASSUME NEW l \in Lib, sys \in Sys
    PROVE  IsLib(updatesystemids(l), l.dsgtimezone, l.dstOffset)
  <1>1. SystemIds(l) \in Nat
    BY DEF SystemIds, Lib, Sys
  <1> QED
    BY <1>1 DEF IsLib, updatesystemids, Lib

\* The tuner's event.
LEMMA TuneHandled ==
    ASSUME NEW l \in Lib, NEW b \in BOOLEAN, sys \in Sys
    PROVE  IsLib(TuneChanged(l, b).lib, l.dsgtimezone, l.dstOffset)
  <1> DEFINE m == [l EXCEPT !.tune_ready = b]
  <1>1. IsLib(m, l.dsgtimezone, l.dstOffset) /\ IsLib(l, l.dsgtimezone, l.dstOffset)
    BY DEF IsLib, Lib
  <1>2. IsLib(updatesystemids(m), l.dsgtimezone, l.dstOffset)
    BY <1>1, IdsPrinted DEF IsLib
  <1>3. \/ TuneChanged(l, b).lib = l
        \/ TuneChanged(l, b).lib = m
        \/ TuneChanged(l, b).lib = updatesystemids(m)
    BY DEF TuneChanged, Effect
  <1> QED
    BY <1>1, <1>2, <1>3

\* An id's event.
LEMMA IdHandled ==
    ASSUME NEW l \in Lib, NEW v \in Nat, sys \in Sys
    PROVE  IsLib(IdChanged(l, v).lib, l.dsgtimezone, l.dstOffset)
  <1> DEFINE m == [l EXCEPT !.id = v]
  <1>1. IsLib(m, l.dsgtimezone, l.dstOffset)
    BY DEF IsLib, Lib
  <1>2. IsLib(updatesystemids(m), l.dsgtimezone, l.dstOffset)
    BY <1>1, IdsPrinted DEF IsLib
  <1>3. IdChanged(l, v).lib = m \/ IdChanged(l, v).lib = updatesystemids(m)
    BY DEF IdChanged, Effect
  <1> QED
    BY <1>1, <1>2, <1>3

\* The route's event.
LEMMA RouteHandled ==
    ASSUME NEW l \in Lib, NEW v \in Nat
    PROVE  IsLib(RouteChanged(l, v).lib, l.dsgtimezone, l.dstOffset)
  BY DEF RouteChanged, Effect, IsLib, Lib

\* The zone's event: the name depends on the offset so far.
LEMMA ZoneHandled ==
    ASSUME NEW l \in Lib, NEW p \in Payload
    PROVE  IsLib(mapTimeZoneToJavaFormat(l, p).lib, Name(p, l.dstOffset = 0), l.dstOffset)
  <1> DEFINE m == [l EXCEPT !.dsgtimezone = javaTZ(p)]
  <1>1. IsLib(m, javaTZ(p), l.dstOffset)
    BY NameOnce DEF IsLib, Lib
  <1>2. p # NoTz /\ p # NoMatch
    BY PayloadAssumption DEF NoTz, NoMatch
  <1>3. CASE l.dstOffset = 0
    <2>1. mapTimeZoneToJavaFormat(l, p).lib = [m EXCEPT !.dsgtimezone = WithoutDst(@)]
      <3>1. m.dstOffset = 0 /\ m.dstOffset # DstUnset
        BY <1>1, <1>3 DEF IsLib, DstUnset
      <3> QED
        BY <1>2, <3>1 DEF mapTimeZoneToJavaFormat, notify_timezone, Effect
    <2>2. IsLib([m EXCEPT !.dsgtimezone = WithoutDst(@)], WithoutDst(javaTZ(p)), l.dstOffset)
      BY <1>1, NameOnce DEF IsLib, Lib
    <2>3. Name(p, l.dstOffset = 0) = WithoutDst(javaTZ(p))
      BY <1>2, <1>3 DEF Name
    <2> QED
      BY <2>1, <2>2, <2>3
  <1>4. CASE l.dstOffset # 0
    <2>1. mapTimeZoneToJavaFormat(l, p).lib = m
      <3>1. m.dstOffset # 0
        BY <1>1, <1>4 DEF IsLib
      <3> QED
        BY <1>2, <3>1 DEF mapTimeZoneToJavaFormat, notify_timezone, Effect
    <2>2. Name(p, l.dstOffset = 0) = javaTZ(p)
      BY <1>2, <1>4 DEF Name
    <2> QED
      BY <1>1, <2>1, <2>2
  <1> QED
    BY <1>3, <1>4

\* A payload that has no zone.
LEMMA NoMatchHandled ==
    ASSUME NEW l
    PROVE  mapTimeZoneToJavaFormat(l, NoMatch) = Effect(l, <<>>)
  BY DEF mapTimeZoneToJavaFormat

\* The offset's event: it may rename the zone.
LEMMA DstHandled ==
    ASSUME NEW l \in Lib, NEW v \in {0, 60}
    PROVE  IsLib(DstChanged(l, v).lib,
                 IF v = 0 THEN WithoutDst(l.dsgtimezone) ELSE l.dsgtimezone, v)
  <1> DEFINE m == [l EXCEPT !.dstOffset = v]
  <1>1. IsLib(m, l.dsgtimezone, v) /\ l.dsgtimezone \in Zones
    BY DEF IsLib, Lib
  <1>2. CASE v = 0
    <2>1. DstChanged(l, v).lib = [m EXCEPT !.dsgtimezone = WithoutDst(@)]
      BY <1>1, <1>2 DEF IsLib, DstChanged, notify_timezone, Effect
    <2>2. IsLib([m EXCEPT !.dsgtimezone = WithoutDst(@)], WithoutDst(l.dsgtimezone), v)
      BY <1>1, NameOnce DEF IsLib, Lib
    <2> QED
      BY <1>2, <2>1, <2>2
  <1>3. CASE v # 0
    <2>1. DstChanged(l, v).lib = m
      BY <1>1, <1>3 DEF IsLib, DstChanged, notify_timezone, Effect
    <2> QED
      BY <1>1, <1>3, <2>1
  <1> QED
    BY <1>2, <1>3

-----------------------------------------------------------------------------
(* The inductive invariant.                                                  *)

\* No event of s changes the zone or the offset.
Quiet(s) == \A i \in 1 .. Len(s) : s[i][1] \notin {"tz", "dst"}

\* Before the answer is complete, unless a value changed meanwhile, the variables
\* are as far as the assignments are; from then on, what is pending accounts for
\* the difference.
Phases ==
    /\ main \in {"register"} \cup Answering => Quiet(bus) /\ was0 = (sys.dst = 0)
    /\ main \in Answering \ {"call"} => param.tz = sys.tz /\ param.dst = sys.dst
    /\ main \in {"register", "call", "assign_id", "assign_tz"} =>
         lib.dsgtimezone = "" /\ lib.dstOffset = DstUnset
    /\ main = "assign_dst" =>
         /\ sys.tz # NoMatch => lib.dsgtimezone = Name(sys.tz, FALSE)
         /\ lib.dstOffset = DstUnset
    /\ main = "assign_tune" =>
         /\ sys.tz # NoMatch => lib.dsgtimezone = Name(sys.tz, sys.dst = 0)
         /\ lib.dstOffset = IF sys.dst = NoDst THEN DstUnset ELSE sys.dst
    /\ Initialised => Pending(lib.dsgtimezone, lib.dstOffset, bus, sys.tz, sys.dst, was0)

Inv == Typed /\ (late \/ Phases)

\* The library's zone and offset when nothing but other fields change.
LEMMA Unmoved ==
    ASSUME Inv, Typed', UNCHANGED <<late, was0, main, param, bus>>,
           sys'.tz = sys.tz, sys'.dst = sys.dst,
           lib'.dsgtimezone = lib.dsgtimezone, lib'.dstOffset = lib.dstOffset
    PROVE  Inv'
  BY DEF Inv, Phases, Initialised

\* Once all is handled the zone is named as the history says.
LEMMA NamedWhenHandled == Inv => ZoneNamed
  <1> SUFFICES ASSUME Inv, Initialised, ~late, bus = <<>>, sys.tz \in Payload
               PROVE  lib.dsgtimezone = IF was0 THEN WithoutDst(javaTZ(sys.tz)) ELSE javaTZ(sys.tz)
    BY DEF ZoneNamed
  <1>6. sys.tz # NoTz /\ sys.tz # NoMatch
    BY PayloadAssumption DEF NoTz, NoMatch
  <1>1. /\ Pending(lib.dsgtimezone, lib.dstOffset, bus, sys.tz, sys.dst, was0)
        /\ was0 \in BOOLEAN
    BY DEF Inv, Phases, Typed
  <1>2. Len(bus) = 0
    OBVIOUS
  <1>3. ~LastZone(bus, lib.dstOffset, sys.tz, was0) /\ ~ZeroAfter(bus, 0)
    BY <1>2 DEF LastZone, ZeroAfter
  <1>4. PICK b \in BOOLEAN : lib.dsgtimezone = Name(sys.tz, b) /\ was0 = (b \/ ZeroAfter(bus, 0))
    BY <1>1, <1>3, <1>6 DEF Pending, Known
  <1>5. was0 = b
    BY <1>3, <1>4
  <1> QED
    BY <1>4, <1>5, <1>6 DEF Name

\* It holds before the main thread has done anything.
LEMMA InvInit == Init => Inv
  <1> SUFFICES ASSUME Init PROVE Inv
    OBVIOUS
  <1>1. sys \in [tune : BOOLEAN, id : {0, 1}, diag : {0, 1},
                 tz : Payload \cup {NoTz, NoMatch}, dst : {0, 60, NoDst}, route : {0, 1},
                 prefix : {"absent", "empty", "prefix"}]
    BY Zenon DEF Init
  <1>2. /\ changes = 0 /\ late = FALSE /\ bus = <<>> /\ main = "register" /\ param = sys
        /\ lib = [tune_ready |-> FALSE, id |-> 0, systemids |-> Unprinted,
                  dsgtimezone |-> "", dstOffset |-> DstUnset, dataGatewayIPaddress |-> 0]
    BY Zenon DEF Init
  <1>3. was0 = (sys.dst = 0)
    BY Zenon DEF Init
  <1>4. sys \in Sys
    <2>1. /\ sys = [tune |-> sys.tune, id |-> sys.id, diag |-> sys.diag, tz |-> sys.tz,
                    dst |-> sys.dst, route |-> sys.route, prefix |-> sys.prefix]
          /\ sys.tune \in BOOLEAN /\ sys.id \in {0, 1} /\ sys.diag \in {0, 1}
          /\ sys.tz \in Payload \cup {NoTz, NoMatch} /\ sys.dst \in {0, 60, NoDst}
          /\ sys.route \in {0, 1} /\ sys.prefix \in {"absent", "empty", "prefix"}
      BY <1>1
    <2> QED
      BY <2>1 DEF Sys
  <1>5. lib \in Lib
    BY <1>2 DEF Lib, Zones, Unprinted, DstUnset
  <1>6. was0 \in BOOLEAN
    BY Zenon, <1>3
  <1>7. bus \in Seq(Event) /\ Quiet(bus)
    <2>1. bus = <<>>
      BY <1>2
    <2> QED
      BY <2>1 DEF Quiet
  <1>8. Typed
    <2>1. changes \in Nat /\ late \in BOOLEAN /\ main \in Steps /\ param \in Sys
      BY <1>2, <1>4 DEF Steps
    <2> QED
      BY Zenon, <1>4, <1>5, <1>6, <1>7, <2>1 DEF Typed
  <1>9. Phases
    <2>1. /\ main \notin Answering \ {"call"} /\ main # "assign_dst" /\ main # "assign_tune"
          /\ ~Initialised /\ lib.dsgtimezone = "" /\ lib.dstOffset = DstUnset
      BY <1>2 DEF Answering, Initialised
    <2> QED
      BY Zenon, <1>3, <1>7, <2>1 DEF Phases
  <1> QED
    BY <1>8, <1>9 DEF Inv
-----------------------------------------------------------------------------
(* The steps.                                                                *)

\* A value that is published: nobody is told yet before the handlers are registered,
\* and one that counts comes too late while an answer is assigned.
LEMMA Announced ==
    ASSUME Inv, NEW f, NEW v, <<f, v>> \in Event,
           sys' \in Sys, changes' \in Nat,
           sys'.tz = IF f = "tz" THEN v ELSE sys.tz,
           sys'.dst = IF f = "dst" THEN v ELSE sys.dst,
           late' = (late \/ (main \in Answering /\ f # "route")),
           was0' = CASE main = "register" -> sys'.dst = 0
                     [] main # "register" /\ f = "tz" -> sys.dst = 0
                     [] main # "register" /\ f = "dst" -> was0 \/ v = 0
                     [] OTHER -> was0,
           bus' = IF main = "register" THEN bus ELSE Append(bus, <<f, v>>),
           UNCHANGED <<main, param, lib>>
    PROVE  Inv'
  <1> DEFINE e == <<f, v>>
  <1>1. e[1] = f /\ e[2] = v
    OBVIOUS
  <1>2. Typed
    BY DEF Inv
  <1>3. was0 \in BOOLEAN /\ late \in BOOLEAN /\ bus \in Seq(Event) /\ main \in Steps
    BY <1>2 DEF Typed
  <1>4. was0' \in BOOLEAN
    <2>1. CASE main = "register"
      <3>1. was0' = (sys'.dst = 0)
        BY Zenon, <2>1
      <3> QED
        BY Zenon, <3>1
    <2>2. CASE main # "register" /\ f = "tz"
      <3>1. was0' = (sys.dst = 0)
        BY <2>2
      <3> QED
        BY Zenon, <3>1
    <2>3. CASE main # "register" /\ f = "dst"
      <3>1. was0' = (was0 \/ v = 0)
        BY <2>3
      <3> QED
        BY Zenon, <3>1
    <2>4. CASE main # "register" /\ f \notin {"tz", "dst"}
      BY <1>3, <2>4
    <2> QED
      BY <2>1, <2>2, <2>3, <2>4
  <1>5. late' \in BOOLEAN
    BY Zenon
  <1>6. bus' \in Seq(Event)
    <2>1. Append(bus, e) \in Seq(Event)
      BY <1>3, AppendFact
    <2> QED
      BY <1>3, <2>1
  <1>7. Typed'
    BY Zenon, <1>2, <1>4, <1>5, <1>6 DEF Typed
  <1>8. ASSUME ~late' PROVE Phases'
    <2>1. ~late /\ (main \in Answering => f = "route")
      BY Zenon, <1>8
    <2>2. Phases
      BY <2>1 DEF Inv
    <2>3. CASE main = "register"
      <3>1. was0' = (sys'.dst = 0)
        BY Zenon, <2>3
      <3>2. bus' = bus
        BY <2>3
      <3>3. /\ main' = "register" /\ main' \notin Answering \ {"call"}
            /\ main' # "assign_dst" /\ main' # "assign_tune" /\ ~Initialised'
        BY <2>3 DEF Answering, Initialised
      <3>4. Quiet(bus)'
        BY <2>2, <2>3, <3>2 DEF Phases, Quiet
      <3>5. lib'.dsgtimezone = "" /\ lib'.dstOffset = DstUnset
        BY <2>2, <2>3 DEF Phases
      <3> QED
        BY Zenon, <3>1, <3>3, <3>4, <3>5 DEF Phases
    <2>4. CASE main \in Answering
      <3>1. f = "route"
        BY <2>1, <2>4
      <3>2. main # "register" /\ main' = main /\ ~Initialised'
        BY <2>4 DEF Answering, Initialised
      <3>3. sys'.tz = sys.tz /\ sys'.dst = sys.dst /\ was0' = was0 /\ bus' = Append(bus, e)
        BY <3>1, <3>2
      <3>4. Quiet(bus)'
        <4>1. /\ Len(bus) \in Nat /\ Len(bus') = Len(bus) + 1 /\ bus'[Len(bus) + 1] = e
              /\ \A i \in 1 .. Len(bus) : bus'[i] = bus[i]
          BY <1>3, <3>3, AppendFact
        <4>2. Quiet(bus)
          BY <2>2, <2>4 DEF Phases
        <4>3. \A i \in 1 .. Len(bus') : i = Len(bus) + 1 \/ i \in 1 .. Len(bus)
          BY <4>1
        <4>4. e[1] \notin {"tz", "dst"}
          BY <1>1, <3>1
        <4> QED
          BY <4>1, <4>2, <4>3, <4>4 DEF Quiet
      <3> HIDE DEF e
      <3>5. /\ main \in {"register"} \cup Answering => was0 = (sys.dst = 0)
            /\ main \in Answering \ {"call"} => param.tz = sys.tz /\ param.dst = sys.dst
            /\ main \in {"register", "call", "assign_id", "assign_tz"} =>
                 lib.dsgtimezone = "" /\ lib.dstOffset = DstUnset
            /\ main = "assign_dst" =>
                 /\ sys.tz # NoMatch => lib.dsgtimezone = Name(sys.tz, FALSE)
                 /\ lib.dstOffset = DstUnset
            /\ main = "assign_tune" =>
                 /\ sys.tz # NoMatch => lib.dsgtimezone = Name(sys.tz, sys.dst = 0)
                 /\ lib.dstOffset = IF sys.dst = NoDst THEN DstUnset ELSE sys.dst
        BY Zenon, <2>2 DEF Phases
      <3> QED
        BY Zenon, <3>2, <3>3, <3>4, <3>5 DEF Phases
    <2>5. CASE Initialised
      <3>1. main # "register" /\ main \notin {"register"} \cup Answering /\ Initialised'
        BY <2>5 DEF Initialised, Answering
      <3>2. Pending(lib.dsgtimezone, lib.dstOffset, bus, sys.tz, sys.dst, was0)
        BY <2>2, <2>5 DEF Phases
      <3>3. bus' = Append(bus, e)
        BY <3>1
      <3>4. /\ e[1] = "tz" => was0' = (sys.dst = 0)
            /\ e[1] = "dst" => was0' = (was0 \/ e[2] = 0)
            /\ e[1] \notin {"tz", "dst"} => was0' = was0
        BY <1>1, <3>1
      <3>5. /\ sys'.tz = IF e[1] = "tz" THEN e[2] ELSE sys.tz
            /\ sys'.dst = IF e[1] = "dst" THEN e[2] ELSE sys.dst
        BY <1>1
      <3>6. e \in Event
        OBVIOUS
      <3> HIDE DEF e
      <3>7. Pending(lib.dsgtimezone, lib.dstOffset, Append(bus, e), sys'.tz, sys'.dst, was0')
        BY SMTT(30), <1>3, <1>4, <3>2, <3>4, <3>5, <3>6, Published
      <3>8. Pending(lib.dsgtimezone, lib.dstOffset, bus, sys.tz, sys.dst, was0)'
        BY Zenon, <3>3, <3>7
      <3>9. /\ main' \notin {"register"} \cup Answering
            /\ main' \notin {"register", "call", "assign_id", "assign_tz"}
            /\ main' # "assign_dst" /\ main' # "assign_tune"
        BY <3>1 DEF Answering
      <3> QED
        BY Zenon, <3>8, <3>9 DEF Phases
    <2>6. CASE main = "ended"
      <3>1. /\ main' \notin {"register"} \cup Answering /\ ~Initialised'
            /\ main' \notin {"register", "call", "assign_id", "assign_tz"}
            /\ main' # "assign_dst" /\ main' # "assign_tune"
        BY <2>6 DEF Answering, Initialised
      <3> QED
        BY Zenon, <3>1 DEF Phases
    <2> QED
      BY <1>3, <2>3, <2>4, <2>5, <2>6 DEF Steps, Answering, Initialised
  <1> QED
    BY Zenon, <1>5, <1>7, <1>8 DEF Inv
\* What Publish does, for a value of the field's type.
LEMMA PublishStep ==
    ASSUME Inv, NEW f \in {"tune", "id", "tz", "dst", "route"}, NEW v,
           <<f, v>> \in Event, [sys EXCEPT ![f] = v] \in Sys,
           [sys EXCEPT ![f] = v].tz = IF f = "tz" THEN v ELSE sys.tz,
           [sys EXCEPT ![f] = v].dst = IF f = "dst" THEN v ELSE sys.dst,
           Publish(f, v)
    PROVE  Inv'
  <1>1. /\ sys' = [sys EXCEPT ![f] = v] /\ changes' = changes + 1
        /\ main' = main /\ param' = param /\ lib' = lib
    BY DEF Publish, MayChange
  <1>2. /\ late' = (late \/ (main \in Answering /\ f # "route"))
        /\ was0' = CASE main = "register" -> sys'.dst = 0
                     [] main # "register" /\ f = "tz" -> sys.dst = 0
                     [] main # "register" /\ f = "dst" -> was0 \/ v = 0
                     [] OTHER -> was0
        /\ bus' = IF main = "register" THEN bus ELSE Append(bus, <<f, v>>)
    BY Zenon DEF Publish
  <1>3. changes' \in Nat
    BY <1>1 DEF Inv, Typed
  <1>4. /\ sys' \in Sys
        /\ sys'.tz = IF f = "tz" THEN v ELSE sys.tz
        /\ sys'.dst = IF f = "dst" THEN v ELSE sys.dst
    BY Zenon, <1>1
  <1> QED
    BY Zenon, <1>1, <1>2, <1>3, <1>4, Announced

\* The managers' steps.
LEMMA ManagerStep ==
    ASSUME Inv, SystemManager
    PROVE  Inv'
  <1>1. sys \in Sys /\ changes \in Nat
    BY DEF Inv, Typed
  <1>2. ASSUME TuneReady PROVE Inv'
    <2>1. /\ <<"tune", ~sys.tune>> \in Event /\ [sys EXCEPT !["tune"] = ~sys.tune] \in Sys
          /\ [sys EXCEPT !["tune"] = ~sys.tune].tz = sys.tz
          /\ [sys EXCEPT !["tune"] = ~sys.tune].dst = sys.dst
      BY <1>1 DEF Event, Sys
    <2> QED
      BY <1>2, <2>1, PublishStep DEF TuneReady
  <1>3. ASSUME NewId \/ IdError PROVE Inv'
    <2>1. ASSUME NEW v \in Nat, Publish("id", v) PROVE Inv'
      <3>1. /\ <<"id", v>> \in Event /\ [sys EXCEPT !["id"] = v] \in Sys
            /\ [sys EXCEPT !["id"] = v].tz = sys.tz
            /\ [sys EXCEPT !["id"] = v].dst = sys.dst
        BY <1>1 DEF Event, Sys
      <3> QED
        BY <2>1, <3>1, PublishStep
    <2>2. changes + 2 \in Nat /\ 0 \in Nat
      BY <1>1
    <2> QED
      BY <1>3, <2>1, <2>2 DEF NewId, IdError
  <1>4. ASSUME NewRoute PROVE Inv'
    <2>1. changes + 2 \in Nat
      BY <1>1
    <2>2. ASSUME NEW v \in Nat, Publish("route", v) PROVE Inv'
      <3>1. /\ <<"route", v>> \in Event /\ [sys EXCEPT !["route"] = v] \in Sys
            /\ [sys EXCEPT !["route"] = v].tz = sys.tz
            /\ [sys EXCEPT !["route"] = v].dst = sys.dst
        BY <1>1 DEF Event, Sys
      <3> QED
        BY <2>2, <3>1, PublishStep
    <2> QED
      BY <1>4, <2>1, <2>2 DEF NewRoute
  <1>5. ASSUME NEW p \in Payload \cup {NoMatch}, TimeZone(p) PROVE Inv'
    <2>1. /\ <<"tz", p>> \in Event /\ [sys EXCEPT !["tz"] = p] \in Sys
          /\ [sys EXCEPT !["tz"] = p].tz = p
          /\ [sys EXCEPT !["tz"] = p].dst = sys.dst
      BY <1>1 DEF Event, Sys
    <2> QED
      BY <1>5, <2>1, PublishStep DEF TimeZone
  <1>6. ASSUME NEW o \in {0, 60}, DstOffset(o) PROVE Inv'
    <2>1. /\ <<"dst", o>> \in Event /\ [sys EXCEPT !["dst"] = o] \in Sys
          /\ [sys EXCEPT !["dst"] = o].tz = sys.tz
          /\ [sys EXCEPT !["dst"] = o].dst = o
      BY <1>1 DEF Event, Sys
    <2> QED
      BY <1>6, <2>1, PublishStep DEF DstOffset
  <1>7. ASSUME DiagFile PROVE Inv'
    <2>1. /\ sys' = [sys EXCEPT !["diag"] = changes + 2] /\ changes' = changes + 1
          /\ UNCHANGED <<late, was0, main, param, bus, lib>>
      BY <1>7 DEF DiagFile, MayChange
    <2>2. sys' \in Sys /\ sys'.tz = sys.tz /\ sys'.dst = sys.dst /\ changes' \in Nat
      BY <1>1, <2>1 DEF Sys
    <2>3. Typed'
      BY Zenon, <2>1, <2>2 DEF Inv, Typed
    <2> QED
      BY Zenon, <2>1, <2>2, <2>3, Unmoved
  <1>8. ASSUME NEW v \in {"empty", "prefix"}, PrefixFile(v) PROVE Inv'
    <2>1. /\ sys' = [sys EXCEPT !["prefix"] = v] /\ changes' = changes + 1
          /\ UNCHANGED <<late, was0, main, param, bus, lib>>
      BY <1>8 DEF PrefixFile, MayChange
    <2>2. sys' \in Sys /\ sys'.tz = sys.tz /\ sys'.dst = sys.dst /\ changes' \in Nat
      BY <1>1, <2>1 DEF Sys
    <2>3. Typed'
      BY Zenon, <2>1, <2>2 DEF Inv, Typed
    <2> QED
      BY Zenon, <2>1, <2>2, <2>3, Unmoved
  <1> QED
    BY <1>2, <1>3, <1>4, <1>5, <1>6, <1>7, <1>8 DEF SystemManager
\* The bus thread handles one event.
LEMMA HandlerStep ==
    ASSUME Inv, SysEventHandler
    PROVE  Inv'
  <1> DEFINE h == bus[1]
  <1>1. /\ sys \in Sys /\ bus \in Seq(Event) /\ lib \in Lib /\ main \in Steps /\ was0 \in BOOLEAN
        /\ changes \in Nat /\ late \in BOOLEAN /\ param \in Sys
    BY DEF Inv, Typed
  <1>2. /\ bus # <<>> /\ main # "ended" /\ bus' = Tail(bus)
        /\ UNCHANGED <<sys, changes, late, was0, main, param>>
    BY Zenon DEF SysEventHandler, history
  <1>3. /\ bus' \in Seq(Event) /\ Head(bus) = h /\ h \in Event
        /\ Len(bus) \in Nat /\ Len(bus) >= 1 /\ Len(bus') = Len(bus) - 1
        /\ \A i \in 1 .. Len(bus) - 1 : bus'[i] = bus[i + 1]
    BY <1>1, <1>2, TailFact
  <1>4. LET e == CASE h[1] = "tune" -> TuneChanged(lib, h[2])
                   [] h[1] = "id" -> IdChanged(lib, h[2])
                   [] h[1] = "tz" -> mapTimeZoneToJavaFormat(lib, h[2])
                   [] h[1] = "dst" -> DstChanged(lib, h[2])
                   [] h[1] = "route" -> RouteChanged(lib, h[2])
        IN  lib' = e.lib
    BY Zenon, <1>3 DEF SysEventHandler
  <1> HIDE DEF h
  <1>5. IsLib(lib', ZoneAfter(lib.dsgtimezone, lib.dstOffset, h), OffsetAfter(lib.dstOffset, h))
    <2>1. CASE h[1] = "tune" /\ h[2] \in BOOLEAN
      <3>1. lib' = TuneChanged(lib, h[2]).lib
        BY <1>4, <2>1
      <3>2. IsLib(lib', lib.dsgtimezone, lib.dstOffset)
        BY <1>1, <2>1, <3>1, TuneHandled
      <3> QED
        BY <2>1, <3>2 DEF ZoneAfter, OffsetAfter
    <2>2. CASE h[1] = "id" /\ h[2] \in Nat
      <3>1. lib' = IdChanged(lib, h[2]).lib
        BY <1>4, <2>2
      <3>2. IsLib(lib', lib.dsgtimezone, lib.dstOffset)
        BY <1>1, <2>2, <3>1, IdHandled
      <3> QED
        BY <2>2, <3>2 DEF ZoneAfter, OffsetAfter
    <2>3. CASE h[1] = "tz" /\ h[2] \in Payload
      <3>1. lib' = mapTimeZoneToJavaFormat(lib, h[2]).lib
        BY <1>4, <2>3
      <3>2. IsLib(lib', Name(h[2], lib.dstOffset = 0), lib.dstOffset)
        BY <1>1, <2>3, <3>1, ZoneHandled
      <3>3. h[2] # NoMatch
        BY <2>3, PayloadAssumption DEF NoMatch
      <3> QED
        BY <2>3, <3>2, <3>3 DEF ZoneAfter, OffsetAfter
    <2>6. CASE h[1] = "tz" /\ h[2] = NoMatch
      <3>1. lib' = mapTimeZoneToJavaFormat(lib, NoMatch).lib
        BY <1>4, <2>6
      <3>2. lib' = lib
        BY <3>1, NoMatchHandled DEF Effect
      <3> QED
        BY <1>1, <2>6, <3>2 DEF ZoneAfter, OffsetAfter, IsLib
    <2>4. CASE h[1] = "dst" /\ h[2] \in {0, 60}
      <3>1. lib' = DstChanged(lib, h[2]).lib
        BY <1>4, <2>4
      <3>2. IsLib(lib', IF h[2] = 0 THEN WithoutDst(lib.dsgtimezone) ELSE lib.dsgtimezone, h[2])
        BY <1>1, <2>4, <3>1, DstHandled
      <3> QED
        BY <2>4, <3>2 DEF ZoneAfter, OffsetAfter
    <2>5. CASE h[1] = "route" /\ h[2] \in Nat
      <3>1. lib' = RouteChanged(lib, h[2]).lib
        BY <1>4, <2>5
      <3>2. IsLib(lib', lib.dsgtimezone, lib.dstOffset)
        BY <1>1, <2>5, <3>1, RouteHandled
      <3> QED
        BY <2>5, <3>2 DEF ZoneAfter, OffsetAfter
    <2> QED
      BY <1>3, <2>1, <2>2, <2>3, <2>4, <2>5, <2>6 DEF Event
  <1>6. Typed'
    BY Zenon, <1>1, <1>2, <1>3, <1>5 DEF Typed, IsLib
  <1>7. ASSUME ~late' PROVE Phases'
    <2>1. Phases
      BY <1>2, <1>7 DEF Inv
    <2>2. CASE Quiet(bus) /\ main \in {"register"} \cup Answering
      <3>1. h[1] \notin {"tz", "dst"}
        BY <1>3, <2>2 DEF Quiet, h
      <3>2. lib'.dsgtimezone = lib.dsgtimezone /\ lib'.dstOffset = lib.dstOffset
        BY <1>5, <3>1 DEF IsLib, ZoneAfter, OffsetAfter
      <3>3. Quiet(bus)'
        <4>1. \A i \in 1 .. Len(bus') : i + 1 \in 1 .. Len(bus) /\ bus'[i] = bus[i + 1]
          BY <1>3
        <4> QED
          BY <2>2, <4>1 DEF Quiet
      <3>4. ~Initialised'
        BY <1>2, <2>2 DEF Answering, Initialised
      <3>5. /\ main \in {"register"} \cup Answering => was0 = (sys.dst = 0)
            /\ main \in Answering \ {"call"} => param.tz = sys.tz /\ param.dst = sys.dst
            /\ main \in {"register", "call", "assign_id", "assign_tz"} =>
                 lib.dsgtimezone = "" /\ lib.dstOffset = DstUnset
            /\ main = "assign_dst" =>
                 /\ sys.tz # NoMatch => lib.dsgtimezone = Name(sys.tz, FALSE)
                 /\ lib.dstOffset = DstUnset
            /\ main = "assign_tune" =>
                 /\ sys.tz # NoMatch => lib.dsgtimezone = Name(sys.tz, sys.dst = 0)
                 /\ lib.dstOffset = IF sys.dst = NoDst THEN DstUnset ELSE sys.dst
        BY Zenon, <2>1 DEF Phases
      <3> QED
        BY Zenon, <1>2, <3>2, <3>3, <3>4, <3>5 DEF Phases
    <2>3. CASE Initialised
      <3>1. Pending(lib.dsgtimezone, lib.dstOffset, bus, sys.tz, sys.dst, was0)
        BY <2>1, <2>3 DEF Phases
      <3>2. lib.dstOffset \in {0, DstUnset, 60} /\ sys.tz \in Payload \cup {NoTz, NoMatch}
        BY <1>1 DEF Lib, Sys
      <3>3. Pending(lib'.dsgtimezone, lib'.dstOffset, Tail(bus), sys.tz, sys.dst, was0)
        <4>1. Pending(ZoneAfter(lib.dsgtimezone, lib.dstOffset, bus[1]),
                      OffsetAfter(lib.dstOffset, bus[1]), Tail(bus), sys.tz, sys.dst, was0)
          BY <1>1, <1>2, <3>1, <3>2, Handled
        <4> QED
          BY Zenon, <1>5, <4>1 DEF IsLib, h
      <3>4. Pending(lib.dsgtimezone, lib.dstOffset, bus, sys.tz, sys.dst, was0)'
        BY Zenon, <1>2, <3>3
      <3>5. /\ main' \notin {"register"} \cup Answering
            /\ main' \notin {"register", "call", "assign_id", "assign_tz"}
            /\ main' # "assign_dst" /\ main' # "assign_tune"
        BY <1>2, <2>3 DEF Answering, Initialised
      <3> QED
        BY Zenon, <3>4, <3>5 DEF Phases
    <2>4. main \in {"register"} \cup Answering \/ Initialised
      BY <1>1, <1>2 DEF Steps, Answering, Initialised
    <2>5. main \in {"register"} \cup Answering => Quiet(bus)
      BY Zenon, <2>1 DEF Phases
    <2> QED
      BY <2>2, <2>3, <2>4, <2>5
  <1> QED
    BY <1>1, <1>2, <1>6, <1>7 DEF Inv
\* A step of the main thread that goes from a to b.
LEMMA MainTyped ==
    ASSUME Typed, NEW a \in Steps, NEW b \in Steps, At(a, b), param' \in Sys, lib' \in Lib
    PROVE  /\ Typed'
           /\ UNCHANGED <<sys, late, was0, bus>>
           /\ main = a /\ main' = b
  <1>1. UNCHANGED <<sys, changes, late, was0, bus>> /\ main = a /\ main' = b
    BY Zenon DEF At, history
  <1> QED
    BY Zenon, <1>1 DEF Typed

\* Once initialised, nothing of the main thread touches the zone.
LEMMA InitialisedStep ==
    ASSUME Inv, NEW a \in {"urls", "wait", "prefix_file", "prefix", "serve", "cvp"},
           NEW b \in {"wait", "prefix_file", "prefix", "serve", "cvp", "up"},
           At(a, b), param' = param, lib' \in Lib,
           lib'.dsgtimezone = lib.dsgtimezone, lib'.dstOffset = lib.dstOffset
    PROVE  Inv'
  <1>1. /\ Typed' /\ UNCHANGED <<sys, late, was0, bus>> /\ main = a /\ main' = b
    BY MainTyped DEF Inv, Typed, Steps
  <1>2. ASSUME ~late PROVE Phases'
    <2>1. Pending(lib.dsgtimezone, lib.dstOffset, bus, sys.tz, sys.dst, was0)
      BY <1>1, <1>2 DEF Inv, Phases, Initialised
    <2>2. Pending(lib.dsgtimezone, lib.dstOffset, bus, sys.tz, sys.dst, was0)'
      BY Zenon, <1>1, <2>1
    <2>3. /\ main' \notin {"register"} \cup Answering
          /\ main' \notin {"register", "call", "assign_id", "assign_tz"}
          /\ main' # "assign_dst" /\ main' # "assign_tune"
      BY <1>1 DEF Answering
    <2> QED
      BY Zenon, <2>2, <2>3 DEF Phases
  <1> QED
    BY Zenon, <1>1, <1>2 DEF Inv

\* The main thread's steps.
LEMMA MainStep ==
    ASSUME Inv, MainThread
    PROVE  Inv'
  <1>1. Typed /\ sys \in Sys /\ param \in Sys /\ lib \in Lib
    BY DEF Inv, Typed
  <1>2. ASSUME Register PROVE Inv'
    <2>1. At("register", "call") /\ param' = param /\ lib' = lib
      BY <1>2 DEF Register
    <2>2. Typed' /\ UNCHANGED <<sys, late, was0, bus>> /\ main = "register" /\ main' = "call"
      BY <1>1, <2>1, MainTyped DEF Steps
    <2>3. ASSUME ~late PROVE Phases'
      BY <2>1, <2>2, <2>3 DEF Inv, Phases, Quiet, Answering, Initialised
    <2> QED
      BY Zenon, <2>2, <2>3 DEF Inv
  <1>3. ASSUME Call PROVE Inv'
    <2>1. At("call", "assign_id") /\ param' = sys /\ lib' = lib
      BY <1>3 DEF Call
    <2>2. Typed' /\ UNCHANGED <<sys, late, was0, bus>> /\ main = "call" /\ main' = "assign_id"
      BY <1>1, <2>1, MainTyped DEF Steps
    <2>3. ASSUME ~late PROVE Phases'
      BY <2>1, <2>2, <2>3 DEF Inv, Phases, Quiet, Answering, Initialised
    <2> QED
      BY Zenon, <2>2, <2>3 DEF Inv
  <1>4. ASSUME AssignId PROVE Inv'
    <2>1. At("assign_id", "assign_tz") /\ param' = param
      BY <1>4 DEF AssignId
    <2>2. IsLib(lib', lib.dsgtimezone, lib.dstOffset)
      BY <1>1, <1>4 DEF AssignId, IsLib, Lib, Sys
    <2>3. Typed' /\ UNCHANGED <<sys, late, was0, bus>> /\ main = "assign_id" /\ main' = "assign_tz"
      BY <1>1, <2>1, <2>2, MainTyped DEF Steps, IsLib
    <2>4. ASSUME ~late PROVE Phases'
      BY <2>1, <2>2, <2>3, <2>4 DEF Inv, Phases, Quiet, Answering, Initialised, IsLib
    <2> QED
      BY Zenon, <2>3, <2>4 DEF Inv
  <1>5. ASSUME AssignTz PROVE Inv'
    <2>1. At("assign_tz", "assign_dst") /\ param' = param
      BY <1>5 DEF AssignTz
    <2>2. IsLib(lib', IF param.tz \in {NoTz, NoMatch} THEN lib.dsgtimezone
                      ELSE Name(param.tz, lib.dstOffset = 0), lib.dstOffset)
      <3>1. CASE param.tz = NoTz
        <4>1. lib' = lib
          BY <1>5, <3>1 DEF AssignTz
        <4> QED
          BY <1>1, <3>1, <4>1 DEF IsLib
      <3>3. CASE param.tz = NoMatch
        <4>1. NoMatch # NoTz
          BY DEF NoMatch, NoTz
        <4>2. lib' = mapTimeZoneToJavaFormat(lib, NoMatch).lib
          BY <1>5, <3>3, <4>1 DEF AssignTz
        <4>3. lib' = lib
          BY <4>2, NoMatchHandled DEF Effect
        <4> QED
          BY <1>1, <3>3, <4>3 DEF IsLib
      <3>2. CASE param.tz \notin {NoTz, NoMatch}
        <4>1. lib' = mapTimeZoneToJavaFormat(lib, param.tz).lib
          BY <1>5, <3>2 DEF AssignTz
        <4>2. param.tz \in Payload
          BY <1>1, <3>2 DEF Sys
        <4> QED
          BY <1>1, <3>2, <4>1, <4>2, ZoneHandled
      <3> QED
        BY <3>1, <3>2, <3>3
    <2>3. Typed' /\ UNCHANGED <<sys, late, was0, bus>> /\ main = "assign_tz" /\ main' = "assign_dst"
      BY <1>1, <2>1, <2>2, MainTyped DEF Steps, IsLib
    <2>4. ASSUME ~late PROVE Phases'
      <3>1. /\ Quiet(bus) /\ was0 = (sys.dst = 0) /\ param.tz = sys.tz /\ param.dst = sys.dst
            /\ lib.dsgtimezone = "" /\ lib.dstOffset = DstUnset
        BY <2>3, <2>4 DEF Inv, Phases, Answering
      <3>2. /\ sys.tz # NoMatch => lib'.dsgtimezone = Name(sys.tz, FALSE)
            /\ lib'.dstOffset = DstUnset
        <4>1. CASE sys.tz = NoTz
          BY <2>2, <3>1, <4>1 DEF IsLib, Name
        <4>2. CASE sys.tz \notin {NoTz, NoMatch}
          <5>1. (DstUnset = 0) = FALSE
            BY DEF DstUnset
          <5> QED
            BY <2>2, <3>1, <4>2, <5>1 DEF IsLib
        <4>3. CASE sys.tz = NoMatch
          BY <2>2, <3>1, <4>3 DEF IsLib
        <4> QED
          BY <4>1, <4>2, <4>3
      <3>3. main' = "assign_dst" /\ ~Initialised'
        BY <2>3 DEF Initialised
      <3> QED
        BY <2>1, <2>3, <3>1, <3>2, <3>3 DEF Phases, Quiet, Answering
    <2> QED
      BY Zenon, <2>3, <2>4 DEF Inv
  <1>6. ASSUME AssignDst PROVE Inv'
    <2>1. At("assign_dst", "assign_tune") /\ param' = param
      BY <1>6 DEF AssignDst
    <2>2. IsLib(lib', IF param.dst = 0 THEN WithoutDst(lib.dsgtimezone) ELSE lib.dsgtimezone,
                IF param.dst = NoDst THEN lib.dstOffset ELSE param.dst)
      <3>1. CASE param.dst = NoDst
        <4>1. lib' = lib /\ param.dst # 0
          BY <1>6, <3>1 DEF AssignDst, NoDst
        <4> QED
          BY <1>1, <3>1, <4>1 DEF IsLib
      <3>2. CASE param.dst # NoDst
        <4>1. lib' = DstChanged(lib, param.dst).lib
          BY <1>6, <3>2 DEF AssignDst
        <4>2. param.dst \in {0, 60}
          BY <1>1, <3>2 DEF Sys
        <4> QED
          BY <1>1, <3>2, <4>1, <4>2, DstHandled
      <3> QED
        BY <3>1, <3>2
    <2>3. Typed' /\ UNCHANGED <<sys, late, was0, bus>> /\ main = "assign_dst" /\ main' = "assign_tune"
      BY <1>1, <2>1, <2>2, MainTyped DEF Steps, IsLib
    <2>4. ASSUME ~late PROVE Phases'
      <3>1. /\ Quiet(bus) /\ was0 = (sys.dst = 0) /\ param.tz = sys.tz /\ param.dst = sys.dst
            /\ sys.tz # NoMatch => lib.dsgtimezone = Name(sys.tz, FALSE)
            /\ lib.dstOffset = DstUnset
        BY <2>3, <2>4 DEF Inv, Phases, Answering
      <3>2. ASSUME sys.tz # NoMatch PROVE lib'.dsgtimezone = Name(sys.tz, sys.dst = 0)
        <4>1. CASE sys.dst = 0
          <5>1. lib'.dsgtimezone = Name(sys.tz, TRUE) /\ (sys.dst = 0) = TRUE
            BY <1>1, <2>2, <3>1, <3>2, <4>1, NameOnce DEF IsLib, Sys
          <5> QED
            BY <5>1
        <4>2. CASE sys.dst # 0
          <5>1. (sys.dst = 0) = FALSE
            BY <4>2
          <5> QED
            BY <2>2, <3>1, <3>2, <4>2, <5>1 DEF IsLib
        <4> QED
          BY <4>1, <4>2
      <3>3. lib'.dstOffset = IF sys.dst = NoDst THEN DstUnset ELSE sys.dst
        BY <2>2, <3>1 DEF IsLib
      <3>4. main' = "assign_tune" /\ ~Initialised'
        BY <2>3 DEF Initialised
      <3> QED
        BY <2>1, <2>3, <3>1, <3>2, <3>3, <3>4 DEF Phases, Quiet, Answering
    <2> QED
      BY Zenon, <2>3, <2>4 DEF Inv
  <1>7. ASSUME AssignTune PROVE Inv'
    <2>1. At("assign_tune", "urls") /\ param' = param
      BY <1>7 DEF AssignTune
    <2>2. IsLib(lib', lib.dsgtimezone, lib.dstOffset)
      BY <1>1, <1>7 DEF AssignTune, IsLib, Lib, Sys
    <2>3. Typed' /\ UNCHANGED <<sys, late, was0, bus>> /\ main = "assign_tune" /\ main' = "urls"
      BY <1>1, <2>1, <2>2, MainTyped DEF Steps, IsLib
    <2>4. ASSUME ~late PROVE Phases'
      <3>1. /\ Quiet(bus) /\ was0 = (sys.dst = 0)
            /\ sys.tz # NoMatch => lib.dsgtimezone = Name(sys.tz, sys.dst = 0)
            /\ lib.dstOffset = IF sys.dst = NoDst THEN DstUnset ELSE sys.dst
        BY <2>3, <2>4 DEF Inv, Phases, Answering
      <3>2. (sys.dst = 0) <=> lib.dstOffset = 0
        BY <3>1 DEF DstUnset, NoDst
      <3>3. bus \in Seq(Event) /\ Len(bus) \in Nat
        BY <1>1 DEF Typed
      <3>4. Zero(bus, lib.dstOffset, Len(bus) + 1) <=> lib.dstOffset = 0
        <4>1. Len(bus) + 1 - 1 = Len(bus)
          BY <3>3
        <4> QED
          BY <3>1, <4>1 DEF Zero, Quiet
      <3>5. NoZone(bus) /\ ~ZeroAfter(bus, 0)
        BY <3>1, <3>3 DEF Quiet, NoZone, ZeroAfter
      <3>6. ASSUME sys.tz # NoMatch
            PROVE  Known(lib.dsgtimezone, bus, lib.dstOffset, sys.tz, was0)
        <4>1. CASE sys.dst = 0
          <5>1. lib.dsgtimezone = Name(sys.tz, TRUE) /\ was0 = (TRUE \/ ZeroAfter(bus, 0))
            <6>1. (sys.dst = 0) = TRUE
              BY <4>1
            <6> QED
              BY <3>1, <3>6, <6>1
          <5> QED
            BY <5>1 DEF Known
        <4>2. CASE sys.dst # 0
          <5>1. /\ lib.dsgtimezone = Name(sys.tz, FALSE) /\ was0 = (FALSE \/ ZeroAfter(bus, 0))
                /\ lib.dstOffset # 0
            <6>1. (sys.dst = 0) = FALSE
              BY <4>2
            <6>2. (FALSE \/ ZeroAfter(bus, 0)) = FALSE
              BY <3>5
            <6> QED
              BY <3>1, <3>2, <3>6, <4>2, <6>1, <6>2
          <5> QED
            BY <5>1 DEF Known
        <4> QED
          BY <4>1, <4>2
      <3>7. Pending(lib.dsgtimezone, lib.dstOffset, bus, sys.tz, sys.dst, was0)
        <4>1. (sys.dst = 0) = Zero(bus, lib.dstOffset, Len(bus) + 1)
          <5>1. Zero(bus, lib.dstOffset, Len(bus) + 1) \in BOOLEAN
            BY DEF Zero
          <5> QED
            BY <3>2, <3>4, <5>1
        <4> QED
          BY <3>5, <3>6, <4>1 DEF Pending
      <3>8. Pending(lib.dsgtimezone, lib.dstOffset, bus, sys.tz, sys.dst, was0)'
        BY Zenon, <2>2, <2>3, <3>7 DEF IsLib
      <3>9. /\ main' \notin {"register"} \cup Answering
            /\ main' \notin {"register", "call", "assign_id", "assign_tz"}
            /\ main' # "assign_dst" /\ main' # "assign_tune"
        BY <2>3 DEF Answering
      <3> QED
        BY Zenon, <3>8, <3>9 DEF Phases
    <2> QED
      BY Zenon, <2>3, <2>4 DEF Inv
  <1>8. ASSUME Urls PROVE Inv'
    <2>1. At("urls", "wait") /\ param' = param /\ lib' = updatesystemids(lib)
      BY <1>8 DEF Urls
    <2>2. IsLib(lib', lib.dsgtimezone, lib.dstOffset)
      BY <1>1, <2>1, IdsPrinted
    <2> QED
      BY <2>1, <2>2, InitialisedStep DEF IsLib
  <1>9. ASSUME WaitTuneReady PROVE Inv'
    <2>1. (At("wait", "serve") \/ At("wait", "prefix_file")) /\ param' = param
      BY <1>9 DEF WaitTuneReady
    <2>2. IsLib(lib', lib.dsgtimezone, lib.dstOffset)
      BY <1>1, <1>9 DEF WaitTuneReady, IsLib, Lib
    <2> QED
      BY <2>1, <2>2, InitialisedStep DEF IsLib
  <1>10. ASSUME WaitPrefixFile \/ WaitPrefix \/ Serve \/ Cvp PROVE Inv'
    <2>1. /\ \/ At("prefix_file", "prefix") \/ At("prefix", "serve")
             \/ At("serve", "cvp") \/ At("cvp", "up")
          /\ param' = param /\ lib' = lib
      BY <1>10 DEF WaitPrefixFile, WaitPrefix, Serve, Cvp
    <2> QED
      BY <1>1, <2>1, InitialisedStep
  <1>11. ASSUME Fail PROVE Inv'
    <2>1. PICK a \in {"serve", "cvp"} : At(a, "ended")
      BY <1>11 DEF Fail
    <2>2. param' = param /\ lib' = lib
      BY <1>11 DEF Fail
    <2>3. Typed' /\ UNCHANGED <<sys, late, was0, bus>> /\ main' = "ended"
      BY <1>1, <2>1, <2>2, MainTyped DEF Steps
    <2>4. Phases'
      BY <2>3 DEF Phases, Answering, Initialised
    <2> QED
      BY Zenon, <2>3, <2>4 DEF Inv
  <1> QED
    BY <1>2, <1>3, <1>4, <1>5, <1>6, <1>7, <1>8, <1>9, <1>10, <1>11 DEF MainThread

\* The clients' requests: an action may refresh the ids and the route.
LEMMA ClientStep ==
    ASSUME Inv, NEW c \in Client, Read(c) \/ Subscribe(c) \/ Deliver(c)
    PROVE  Inv'
  <1>1. Typed /\ sys \in Sys /\ lib \in Lib
    BY DEF Inv, Typed
  <1>2. ASSUME Read(c) PROVE Inv'
    <2>1. UNCHANGED <<sys, changes, late, was0, bus, main, param>>
      BY Zenon, <1>2 DEF Read
    <2>2. \/ lib' = [lib EXCEPT !.dataGatewayIPaddress = sys.route]
          \/ lib' = updatesystemids(lib)
          \/ lib' = lib
      BY Zenon, <1>2 DEF Read
    <2>3. IsLib(lib', lib.dsgtimezone, lib.dstOffset)
      <3>1. IsLib([lib EXCEPT !.dataGatewayIPaddress = sys.route], lib.dsgtimezone, lib.dstOffset)
        BY <1>1 DEF IsLib, Lib, Sys
      <3>2. IsLib(lib, lib.dsgtimezone, lib.dstOffset)
        BY <1>1 DEF IsLib
      <3> QED
        BY <1>1, <2>2, <3>1, <3>2, IdsPrinted
    <2>4. Typed'
      BY Zenon, <1>1, <2>1, <2>3 DEF Typed, IsLib
    <2> QED
      BY Zenon, <2>1, <2>3, <2>4, Unmoved DEF IsLib
  <1>3. ASSUME Subscribe(c) \/ Deliver(c) PROVE Inv'
    <2>1. UNCHANGED <<sys, changes, late, was0, bus, main, param, lib>>
      BY Zenon, <1>3 DEF Subscribe, Deliver, history
    <2>2. Typed'
      BY Zenon, <1>1, <2>1 DEF Typed
    <2> QED
      BY Zenon, <2>1, <2>2, Unmoved
  <1> QED
    BY <1>2, <1>3

-----------------------------------------------------------------------------

\* Every step keeps it.
LEMMA InvStep == Inv /\ [Next]_vars => Inv'
  <1> SUFFICES ASSUME Inv, [Next]_vars PROVE Inv'
    OBVIOUS
  <1>1. CASE SystemManager
    BY <1>1, ManagerStep
  <1>2. CASE SysEventHandler
    BY <1>2, HandlerStep
  <1>3. CASE MainThread
    BY <1>3, MainStep
  <1>4. ASSUME NEW c \in Client, Read(c) \/ Subscribe(c) \/ Deliver(c) PROVE Inv'
    BY <1>4, ClientStep
  <1>5. ASSUME UNCHANGED vars PROVE Inv'
    <2>1. UNCHANGED <<sys, changes, late, was0, bus, main, param, lib>>
      BY Zenon, <1>5 DEF vars, history
    <2>2. Typed'
      BY Zenon, <2>1 DEF Inv, Typed
    <2> QED
      BY Zenon, <2>1, <2>2, Unmoved
  <1> QED
    BY <1>1, <1>2, <1>3, <1>4, <1>5 DEF Next

\* Whatever the order of zones and offsets, of events and answers: when none is on
\* its way, the zone has the name that the changes so far call for.  (Of
\* mapTimeZoneToJavaFormat, notify_timezone and getSystemValues.)
THEOREM ZoneNamedAlways == Spec => []ZoneNamed
  <1>1. Init => Inv
    BY InvInit
  <1>2. Inv /\ [Next]_vars => Inv'
    BY InvStep
  <1>3. Inv => ZoneNamed
    BY NamedWhenHandled
  <1> QED
    BY <1>1, <1>2, <1>3, PTL DEF Spec

-----------------------------------------------------------------------------
(* The ids that clients see.                                                 *)

\* y may be seen after x: it is newer, the same, or the ids are in error.
After(x, y) == y = 0 \/ y >= x

\* The events of w that carry ids, and what the event or the value f carries.
Carrying(w) == {i \in 1 .. Len(w) : "SystemIds" \in DOMAIN w[i]}
Id(f) == f["SystemIds"]

\* A client that has v sees nothing older as the events w arrive.
Line(v, w) ==
    /\ \A i \in Carrying(w) : After(v, Id(w[i]))
    /\ \A i, j \in Carrying(w) : i < j => After(Id(w[i]), Id(w[j]))

\* n may be seen after v and after the events w.
Before(v, w, n) == After(v, n) /\ \A i \in Carrying(w) : After(Id(w[i]), n)

Content == Zones \cup {"url", "NULL", gwystbip, Unprinted} \cup Nat

Value == {f \in [Var -> Content] : Id(f) \in Int}
Note == {f \in UNION {[D -> Content] : D \in SUBSET Var} : "SystemIds" \in DOMAIN f => Id(f) \in Int}

SeenTyped ==
    /\ copy \in Value
    /\ client \in [Client -> [reads : 0 .. Len(Order), subscribed : BOOLEAN, value : Value]]
    /\ wire \in [Client -> Seq(Note)]

\* n may be seen after all that was handed out.
Seen(n) ==
    /\ After(Id(copy), n)
    /\ \A c \in Client : Before(Id(client[c].value), wire[c], n)

\* A client asks, subscribes and then hears of changes.
Requests ==
    /\ \A c \in Client :
         /\ ~client[c].subscribed => wire[c] = <<>>
         /\ client[c].subscribed => client[c].reads = Len(Order)
    /\ main # "up" =>
         /\ Id(copy) = Unprinted
         /\ \A c \in Client : ~client[c].subscribed /\ Id(client[c].value) = Unprinted

\* The ids n of an event may be seen after all that was handed out and after
\* those the library has, and are not from the future.
Newer(n) == Seen(n) /\ After(lib.id, n) /\ n <= changes + 1

\* So may those of each event on the bus, and after the events before it.
BusInOrder ==
    \A i \in 1 .. Len(bus), n \in Nat : bus[i] = <<"id", n>> =>
      /\ Newer(n)
      /\ \A j \in i + 1 .. Len(bus), m \in Nat : bus[j] = <<"id", m>> => After(n, m)

\* What a client has, the events on their way to it, what the library has, the
\* events on the bus and the ids that come next are in this order.
Ordered ==
    /\ \A c \in Client :
         /\ Line(Id(client[c].value), wire[c])
         /\ ~client[c].subscribed => After(Id(client[c].value), Id(copy))
    /\ \A n \in {SystemIds(lib), changes + 1} : Seen(n)
    /\ SystemIds(lib) <= changes + 1
    /\ sys.id <= changes + 1 /\ sys.diag <= changes + 1 /\ param.id <= changes + 1
    /\ devConf.useGliDiag => BusInOrder
    /\ main \in {"register"} \cup Answering =>
         \A i \in 1 .. Len(bus) : bus[i][1] # "id"

SeenInv == SeenTyped /\ Requests /\ (late \/ Ordered)

\* The variables there are.
LEMMA Variables ==
    /\ Var = {"PlaybackUrl", "SystemIds", "TimeZone", "DataGatewayIPaddress"}
    /\ Len(Order) = 4
    /\ \A i \in 1 .. 4 : Order[i] \in Var
  <1>1. /\ Len(Order) = 4 /\ DOMAIN Order = 1 .. 4
        /\ Order[1] = "PlaybackUrl" /\ Order[2] = "SystemIds"
        /\ Order[3] = "TimeZone" /\ Order[4] = "DataGatewayIPaddress"
    BY DEF Order
  <1>2. \A i \in 1 .. 4 : i = 1 \/ i = 2 \/ i = 3 \/ i = 4
    OBVIOUS
  <1>3. Var = {Order[i] : i \in 1 .. 4}
    BY Zenon, <1>1 DEF Var, Range
  <1>4. {Order[i] : i \in 1 .. 4} = {"PlaybackUrl", "SystemIds", "TimeZone", "DataGatewayIPaddress"}
    BY <1>1, <1>2
  <1> QED
    BY <1>1, <1>3, <1>4

\* What an event of one variable is.
LEMMA Single ==
    ASSUME NEW x \in Var, NEW v \in Content, x = "SystemIds" => v \in Int
    PROVE  Change(x, v) \in Note /\ DOMAIN Change(x, v) = {x} /\ Change(x, v)[x] = v
  <1>1. DOMAIN Change(x, v) = {x} /\ Change(x, v)[x] = v /\ Change(x, v) \in [{x} -> Content]
    BY DEF Change
  <1>2. {x} \in SUBSET Var
    OBVIOUS
  <1>3. Change(x, v) \in UNION {[D -> Content] : D \in SUBSET Var}
    BY <1>1, <1>2
  <1>4. "SystemIds" \in DOMAIN Change(x, v) => Id(Change(x, v)) \in Int
    BY <1>1 DEF Id
  <1> QED
    BY <1>1, <1>3, <1>4 DEF Note

\* What a client's value and an event of its own put together are.
LEMMA Merged ==
    ASSUME NEW f \in Note, NEW v \in Value
    PROVE  /\ Updated(v, f) \in Value
           /\ Id(Updated(v, f)) = IF "SystemIds" \in DOMAIN f THEN Id(f) ELSE Id(v)
  <1>1. PICK D \in SUBSET Var : f \in [D -> Content]
    BY DEF Note
  <1>2. DOMAIN f = D /\ DOMAIN v = Var /\ D \cup Var = Var /\ v \in [Var -> Content]
    BY <1>1 DEF Value
  <1>3. Updated(v, f) = [x \in Var |-> IF x \in D THEN f[x] ELSE v[x]]
    BY Zenon, <1>2 DEF Updated
  <1>4. "SystemIds" \in Var
    BY Variables
  <1>5. Id(Updated(v, f)) = IF "SystemIds" \in DOMAIN f THEN Id(f) ELSE Id(v)
    BY <1>2, <1>3, <1>4 DEF Id
  <1>6. Updated(v, f) \in [Var -> Content]
    BY <1>1, <1>2, <1>3
  <1>7. Id(Updated(v, f)) \in Int
    BY <1>5 DEF Note, Value
  <1> QED
    BY <1>5, <1>6, <1>7 DEF Value

\* The ids that events carry are numbers.
LEMMA CarriedFact ==
    ASSUME NEW w \in Seq(Note), NEW i \in Carrying(w)
    PROVE  i \in 1 .. Len(w) /\ Id(w[i]) \in Int /\ Len(w) \in Nat
  BY DEF Carrying, Note

\* More events, which carry the ids k if any.
LEMMA MoreEvents ==
    ASSUME NEW v \in Int, NEW w \in Seq(Note), NEW s \in Seq(Note), NEW k \in Int,
           \A i \in Carrying(s) : Id(s[i]) = k,
           Line(v, w), Before(v, w, k)
    PROVE  /\ Line(v, w \o s)
           /\ \A n \in Int : Before(v, w, n) /\ (Carrying(s) # {} => After(k, n)) => Before(v, w \o s, n)
  <1> DEFINE t == w \o s
  <1>1. /\ Len(w) \in Nat /\ Len(s) \in Nat /\ Len(t) = Len(w) + Len(s)
        /\ \A i \in 1 .. Len(t) : t[i] = IF i <= Len(w) THEN w[i] ELSE s[i - Len(w)]
    OBVIOUS
  <1>2. \A i \in Carrying(t) :
          \/ i \in Carrying(w) /\ t[i] = w[i]
          \/ /\ i > Len(w) /\ i - Len(w) \in Carrying(s) /\ t[i] = s[i - Len(w)]
             /\ Id(t[i]) = k
    <2> SUFFICES ASSUME NEW i \in Carrying(t)
                 PROVE  \/ i \in Carrying(w) /\ t[i] = w[i]
                        \/ /\ i > Len(w) /\ i - Len(w) \in Carrying(s) /\ t[i] = s[i - Len(w)]
                           /\ Id(t[i]) = k
      OBVIOUS
    <2>1. i \in 1 .. Len(t) /\ "SystemIds" \in DOMAIN t[i]
      BY DEF Carrying
    <2>2. CASE i <= Len(w)
      <3>1. i \in 1 .. Len(w) /\ t[i] = w[i]
        BY <1>1, <2>1, <2>2
      <3> QED
        BY <2>1, <3>1 DEF Carrying
    <2>3. CASE i > Len(w)
      <3>1. i - Len(w) \in 1 .. Len(s) /\ t[i] = s[i - Len(w)]
        BY <1>1, <2>1, <2>3
      <3>2. i - Len(w) \in Carrying(s)
        BY <2>1, <3>1 DEF Carrying
      <3> QED
        BY <2>3, <3>1, <3>2
    <2> QED
      BY <1>1, <2>1, <2>2, <2>3
  <1> HIDE DEF t
  <1>3. \A i \in Carrying(w) : i <= Len(w) /\ i \in Int
    BY CarriedFact
  <1>4. \A i \in Carrying(t) : After(v, Id(t[i]))
    BY <1>2 DEF Line, Before
  <1>5. ASSUME NEW i \in Carrying(t), NEW j \in Carrying(t), i < j
        PROVE  After(Id(t[i]), Id(t[j]))
    <2>1. CASE j \in Carrying(w) /\ t[j] = w[j]
      <3>1. i \in Carrying(w) /\ t[i] = w[i]
        BY <1>1, <1>2, <1>3, <1>5, <2>1 DEF Carrying
      <3> QED
        BY <1>5, <2>1, <3>1 DEF Line
    <2>2. CASE Id(t[j]) = k
      <3>1. CASE i \in Carrying(w) /\ t[i] = w[i]
        BY <2>2, <3>1 DEF Before
      <3>2. CASE Id(t[i]) = k
        BY <2>2, <3>2 DEF After
      <3> QED
        BY <1>2, <3>1, <3>2
    <2> QED
      BY <1>2, <2>1, <2>2
  <1>6. ASSUME NEW n \in Int, Before(v, w, n), Carrying(s) # {} => After(k, n)
        PROVE  Before(v, t, n)
    <2>1. \A i \in Carrying(t) : After(Id(t[i]), n)
      <3> SUFFICES ASSUME NEW i \in Carrying(t) PROVE After(Id(t[i]), n)
        OBVIOUS
      <3>1. CASE i \in Carrying(w) /\ t[i] = w[i]
        BY <1>6, <3>1 DEF Before
      <3>2. CASE i - Len(w) \in Carrying(s) /\ Id(t[i]) = k
        BY <1>6, <3>2
      <3> QED
        BY <1>2, <3>1, <3>2
    <2> QED
      BY <1>6, <2>1 DEF Before
  <1>7. Line(v, t)
    BY <1>4, <1>5 DEF Line
  <1> QED
    BY <1>6, <1>7 DEF t

\* One event less: the client has what it carried.
LEMMA EventArrives ==
    ASSUME NEW v \in Int, NEW w \in Seq(Note), w # <<>>, NEW u \in Int,
           u = IF "SystemIds" \in DOMAIN Head(w) THEN Id(Head(w)) ELSE v,
           Line(v, w)
    PROVE  /\ Line(u, Tail(w)) /\ After(v, u)
           /\ \A n \in Int : Before(v, w, n) => Before(u, Tail(w), n)
  <1> DEFINE t == Tail(w)
  <1>1. /\ Len(w) \in Nat /\ Len(w) >= 1 /\ Head(w) = w[1] /\ Len(t) = Len(w) - 1
        /\ \A i \in 1 .. Len(t) : t[i] = w[i + 1]
    OBVIOUS
  <1> HIDE DEF t
  <1>2. ASSUME NEW i \in Carrying(t)
        PROVE  i \in Int /\ i >= 1 /\ i + 1 \in Carrying(w) /\ t[i] = w[i + 1]
    BY <1>1, <1>2 DEF Carrying
  <1>3. \A i, j \in Carrying(t) : i < j => After(Id(t[i]), Id(t[j]))
    BY <1>2 DEF Line
  <1>4. CASE "SystemIds" \in DOMAIN w[1]
    <2>1. 1 \in Carrying(w) /\ u = Id(w[1])
      BY <1>1, <1>4 DEF Carrying
    <2>2. \A i \in Carrying(t) : After(u, Id(t[i]))
      BY <1>2, <2>1 DEF Line
    <2>3. After(v, u) /\ \A n \in Int : Before(v, w, n) => After(u, n)
      BY <2>1 DEF Line, Before
    <2>4. \A n \in Int : Before(v, w, n) => \A i \in Carrying(t) : After(Id(t[i]), n)
      BY <1>2 DEF Before
    <2> QED
      BY <1>3, <2>2, <2>3, <2>4 DEF Line, Before, t
  <1>5. CASE "SystemIds" \notin DOMAIN w[1]
    <2>1. u = v /\ After(v, v)
      BY <1>1, <1>5 DEF After
    <2>2. \A i \in Carrying(t) : After(v, Id(t[i]))
      BY <1>2 DEF Line
    <2>3. \A n \in Int : Before(v, w, n) => \A i \in Carrying(t) : After(Id(t[i]), n)
      BY <1>2 DEF Before
    <2>4. \A n \in Int : Before(v, w, n) => After(v, n)
      BY DEF Before
    <2> QED
      BY <1>3, <2>1, <2>2, <2>3, <2>4 DEF Line, Before, t
  <1> QED
    BY <1>4, <1>5

-----------------------------------------------------------------------------
(* What the handlers tell.                                                   *)

\* The events of e are of the clients' variables, and carry the ids k, if any,
\* which are those the library has then.
Tells(e, k) ==
    /\ e.notes \in Seq(Note)
    /\ \A i \in Carrying(e.notes) : Id(e.notes[i]) = k
    /\ SystemIds(e.lib) = k

\* No event, one event and two.
LEMMA FewEvents ==
    /\ <<>> \in Seq(Note) /\ Carrying(<<>>) = {}
    /\ \A f \in Note : <<f>> \in Seq(Note) /\ \A i \in Carrying(<<f>>) :
         "SystemIds" \in DOMAIN f /\ Id(<<f>>[i]) = Id(f)
    /\ \A f, g \in Note : "SystemIds" \notin DOMAIN g =>
         Append(<<f>>, g) \in Seq(Note) /\ \A i \in Carrying(Append(<<f>>, g)) : Id(Append(<<f>>, g)[i]) = Id(f)
  <1>1. <<>> \in Seq(Note) /\ Carrying(<<>>) = {}
    BY DEF Carrying
  <1>2. ASSUME NEW f \in Note
        PROVE  <<f>> \in Seq(Note) /\ \A i \in Carrying(<<f>>) :
                 "SystemIds" \in DOMAIN f /\ Id(<<f>>[i]) = Id(f)
    <2>1. <<f>> \in Seq(Note) /\ Len(<<f>>) = 1 /\ <<f>>[1] = f
      OBVIOUS
    <2>2. \A i \in Carrying(<<f>>) : i = 1 /\ "SystemIds" \in DOMAIN <<f>>[i]
      BY <2>1 DEF Carrying
    <2> QED
      BY Zenon, <2>1, <2>2
  <1>3. ASSUME NEW f \in Note, NEW g \in Note, "SystemIds" \notin DOMAIN g
        PROVE  Append(<<f>>, g) \in Seq(Note) /\ \A i \in Carrying(Append(<<f>>, g)) : Id(Append(<<f>>, g)[i]) = Id(f)
    <2>1. Append(<<f>>, g) \in Seq(Note) /\ Len(Append(<<f>>, g)) = 2 /\ Append(<<f>>, g)[1] = f /\ Append(<<f>>, g)[2] = g
      OBVIOUS
    <2>2. \A i \in Carrying(Append(<<f>>, g)) :
            (i = 1 \/ i = 2) /\ "SystemIds" \in DOMAIN Append(<<f>>, g)[i]
      BY <2>1 DEF Carrying
    <2>3. \A i \in Carrying(Append(<<f>>, g)) : i = 1
      BY <1>3, <2>1, <2>2
    <2> QED
      BY Zenon, <2>1, <2>3
  <1> QED
    BY <1>1, <1>2, <1>3

\* An event of another variable than the ids.
LEMMA Other ==
    ASSUME NEW x \in Var \ {"SystemIds"}, NEW v \in Content
    PROVE  /\ Change(x, v) \in Note /\ "SystemIds" \notin DOMAIN Change(x, v)
           /\ <<Change(x, v)>> \in Seq(Note) /\ Carrying(<<Change(x, v)>>) = {}
  <1>1. Change(x, v) \in Note /\ "SystemIds" \notin DOMAIN Change(x, v)
    BY Single
  <1>2. <<Change(x, v)>> \in Seq(Note)
    BY <1>1, FewEvents
  <1>3. \A i \in Carrying(<<Change(x, v)>>) : FALSE
    BY Zenon, <1>1, FewEvents
  <1> QED
    BY <1>1, <1>2, <1>3

\* The ids' event, alone and before another.
LEMMA IdsEvent ==
    ASSUME NEW k \in Nat
    PROVE  LET f == Change("SystemIds", k)
           IN  /\ f \in Note /\ Id(f) = k
               /\ <<f>> \in Seq(Note) /\ \A i \in Carrying(<<f>>) : Id(<<f>>[i]) = k
  <1> DEFINE f == Change("SystemIds", k)
  <1>1. f \in Note /\ Id(f) = k
    BY Single, Variables DEF Content, Id
  <1> HIDE DEF f
  <1>2. <<f>> \in Seq(Note) /\ \A i \in Carrying(<<f>>) : Id(<<f>>[i]) = k
    BY <1>1, FewEvents
  <1> QED
    BY <1>1, <1>2 DEF f

\* The tuner's event: the ids of the diag file are told as they are now.
LEMMA TuneTells ==
    ASSUME NEW l \in Lib, NEW b \in BOOLEAN, sys \in Sys
    PROVE  Tells(TuneChanged(l, b), SystemIds(l))
  <1> DEFINE m == [l EXCEPT !.tune_ready = b]
             n == IF devConf.useGliDiag THEN m ELSE updatesystemids(m)
             url == Change("PlaybackUrl", playbackurl)
             ids == IF devConf.useGliDiag THEN <<>> ELSE << Change("SystemIds", n.systemids) >>
             k == SystemIds(l)
  <1>1. m.id = l.id /\ SystemIds(m) = k /\ m \in Lib
    BY DEF Lib, SystemIds
  <1>2. SystemIds(updatesystemids(m)) = k /\ updatesystemids(m).systemids = k
    BY <1>1 DEF updatesystemids, SystemIds, Lib
  <1>3. k \in Nat
    BY DEF SystemIds, Lib, Sys
  <1>4. url \in Note /\ "SystemIds" \notin DOMAIN url
    <2>1. playbackurl \in Content
      BY DEF playbackurl, Content, Zones
    <2> QED
      BY <2>1, Other, Variables
  <1>5. SystemIds(n) = k
    BY <1>1, <1>2
  <1>6. /\ Append(ids, url) \in Seq(Note)
        /\ \A i \in Carrying(Append(ids, url)) : Id(Append(ids, url)[i]) = k
    <2>1. CASE devConf.useGliDiag
      <3>1. Append(ids, url) = <<url>>
        BY <2>1
      <3>2. <<url>> \in Seq(Note) /\ \A i \in Carrying(<<url>>) : "SystemIds" \in DOMAIN url
        BY Zenon, <1>4, FewEvents
      <3> QED
        BY Zenon, <1>4, <3>1, <3>2
    <2>2. CASE ~devConf.useGliDiag
      <3> DEFINE f == Change("SystemIds", k)
      <3>1. ids = <<f>>
        BY Zenon, <1>2, <2>2
      <3>2. f \in Note /\ Id(f) = k
        BY <1>3, IdsEvent
      <3> HIDE DEF f, ids, url
      <3>3. Append(ids, url) = Append(<<f>>, url)
        BY <3>1
      <3>4. /\ Append(<<f>>, url) \in Seq(Note)
            /\ \A i \in Carrying(Append(<<f>>, url)) : Id(Append(<<f>>, url)[i]) = Id(f)
        BY Zenon, <1>4, <3>2, FewEvents
      <3> QED
        BY Zenon, <3>2, <3>3, <3>4
    <2> QED
      BY <2>1, <2>2
  <1>7. \/ TuneChanged(l, b) = [lib |-> l, notes |-> <<>>]
        \/ TuneChanged(l, b) = [lib |-> m, notes |-> <<>>]
        \/ TuneChanged(l, b) = [lib |-> n, notes |-> Append(ids, url)]
    BY Zenon DEF TuneChanged, Effect
  <1> HIDE DEF m, n, url, ids, k
  <1>8. CASE TuneChanged(l, b) = [lib |-> l, notes |-> <<>>]
    BY <1>8, FewEvents DEF Tells, k
  <1>9. CASE TuneChanged(l, b) = [lib |-> m, notes |-> <<>>]
    BY <1>1, <1>9, FewEvents DEF Tells, k
  <1>10. CASE TuneChanged(l, b) = [lib |-> n, notes |-> Append(ids, url)]
    <2>1. TuneChanged(l, b).lib = n /\ TuneChanged(l, b).notes = Append(ids, url)
      BY <1>10
    <2> QED
      BY Zenon, <1>5, <1>6, <2>1 DEF Tells, k
  <1> QED
    BY <1>7, <1>8, <1>9, <1>10

\* An id's event: from then on the library has it, where ids come from the bus.
LEMMA IdTells ==
    ASSUME NEW l \in Lib, NEW v \in Nat, sys \in Sys
    PROVE  Tells(IdChanged(l, v), IF devConf.useGliDiag THEN v ELSE SystemIds(l))
  <1> DEFINE m == [l EXCEPT !.id = v]
             n == updatesystemids(m)
             k == IF devConf.useGliDiag THEN v ELSE SystemIds(l)
             f == Change("SystemIds", k)
  <1>1. m.id = v /\ SystemIds(m) = k /\ m \in Lib /\ k \in Nat
    BY DEF Lib, SystemIds, Sys
  <1>2. n.systemids = k /\ SystemIds(n) = k
    BY <1>1 DEF updatesystemids, SystemIds, Lib
  <1>3. <<f>> \in Seq(Note) /\ \A i \in Carrying(<<f>>) : Id(<<f>>[i]) = k
    BY <1>1, IdsEvent
  <1>4. CASE v = 0
    <2>1. IdChanged(l, v) = [lib |-> m, notes |-> <<>>]
      BY <1>4 DEF IdChanged, Effect
    <2> QED
      BY <1>1, <2>1, FewEvents DEF Tells
  <1>5. CASE v # 0
    <2>1. IdChanged(l, v) = [lib |-> n, notes |-> <<Change("SystemIds", n.systemids)>>]
      BY Zenon, <1>5 DEF IdChanged, Effect
    <2>2. IdChanged(l, v).lib = n /\ IdChanged(l, v).notes = <<f>>
      BY <1>2, <2>1
    <2> QED
      BY Zenon, <1>2, <1>3, <2>2 DEF Tells
  <1> QED
    BY <1>4, <1>5

\* Zone, offset and route: no ids.
LEMMA OtherTells ==
    ASSUME NEW l \in Lib, NEW m \in Lib, m.id = l.id, NEW s, sys \in Sys,
           \/ s = <<>>
           \/ \E x \in Var \ {"SystemIds"}, v \in Content : s = <<Change(x, v)>>
    PROVE  Tells([lib |-> m, notes |-> s], SystemIds(l))
  <1>1. SystemIds(m) = SystemIds(l)
    BY DEF SystemIds
  <1>2. s \in Seq(Note) /\ Carrying(s) = {}
    BY FewEvents, Other
  <1> QED
    BY <1>1, <1>2 DEF Tells

\* The zone is reported.
LEMMA NotifyTells ==
    ASSUME NEW l \in Lib, sys \in Sys
    PROVE  Tells(notify_timezone(l), SystemIds(l))
  <1> DEFINE m == IF l.dstOffset = 0 THEN [l EXCEPT !.dsgtimezone = WithoutDst(@)] ELSE l
  <1>1. m \in Lib /\ m.id = l.id /\ m.dsgtimezone \in Content
    BY NameOnce DEF Lib, Content
  <1>2. notify_timezone(l) = [lib |-> m, notes |-> <<Change("TimeZone", m.dsgtimezone)>>]
    BY Zenon DEF notify_timezone, Effect
  <1>3. "TimeZone" \in Var \ {"SystemIds"}
    BY Variables
  <1> HIDE DEF m
  <1>4. Tells([lib |-> m, notes |-> <<Change("TimeZone", m.dsgtimezone)>>], SystemIds(l))
    BY <1>1, <1>3, OtherTells
  <1> QED
    BY <1>2, <1>4

\* The zone's event.
LEMMA ZoneTells ==
    ASSUME NEW l \in Lib, NEW p \in Payload \cup {NoMatch}, sys \in Sys
    PROVE  Tells(mapTimeZoneToJavaFormat(l, p), SystemIds(l))
  <1>0. CASE p = NoMatch
    <2>1. mapTimeZoneToJavaFormat(l, p) = [lib |-> l, notes |-> <<>>]
      BY <1>0, NoMatchHandled DEF Effect
    <2> QED
      BY <2>1, OtherTells
  <1> SUFFICES ASSUME p # NoMatch PROVE Tells(mapTimeZoneToJavaFormat(l, p), SystemIds(l))
    BY <1>0
  <1> DEFINE m == [l EXCEPT !.dsgtimezone = javaTZ(p)]
  <1>1. m \in Lib /\ m.id = l.id /\ SystemIds(m) = SystemIds(l)
    BY NameOnce DEF Lib, SystemIds
  <1>2. \/ mapTimeZoneToJavaFormat(l, p) = notify_timezone(m)
        \/ mapTimeZoneToJavaFormat(l, p) = [lib |-> m, notes |-> <<>>]
    BY DEF mapTimeZoneToJavaFormat, Effect
  <1> HIDE DEF m
  <1>3. Tells(notify_timezone(m), SystemIds(l))
    BY <1>1, NotifyTells
  <1>4. Tells([lib |-> m, notes |-> <<>>], SystemIds(l))
    BY <1>1, OtherTells
  <1> QED
    BY <1>2, <1>3, <1>4

\* The offset's event.
LEMMA DstTells ==
    ASSUME NEW l \in Lib, NEW o \in {0, 60}, sys \in Sys
    PROVE  Tells(DstChanged(l, o), SystemIds(l))
  <1> DEFINE m == [l EXCEPT !.dstOffset = o]
  <1>1. m \in Lib /\ SystemIds(m) = SystemIds(l)
    BY DEF Lib, SystemIds
  <1>2. DstChanged(l, o) = notify_timezone(m)
    BY DEF DstChanged
  <1> HIDE DEF m
  <1> QED
    BY <1>1, <1>2, NotifyTells

\* The route's event.
LEMMA RouteTells ==
    ASSUME NEW l \in Lib, NEW v \in Nat, sys \in Sys
    PROVE  Tells(RouteChanged(l, v), SystemIds(l))
  <1> DEFINE m == [l EXCEPT !.dataGatewayIPaddress = v]
  <1>1. m \in Lib /\ m.id = l.id /\ v \in Content /\ "DataGatewayIPaddress" \in Var \ {"SystemIds"}
    BY Variables DEF Lib, Content
  <1>2. \/ RouteChanged(l, v) = [lib |-> l, notes |-> <<>>]
        \/ RouteChanged(l, v) = [lib |-> m, notes |-> <<Change("DataGatewayIPaddress", v)>>]
    BY Zenon DEF RouteChanged, Effect
  <1> HIDE DEF m
  <1>3. Tells([lib |-> l, notes |-> <<>>], SystemIds(l))
    BY OtherTells
  <1>4. Tells([lib |-> m, notes |-> <<Change("DataGatewayIPaddress", v)>>], SystemIds(l))
    BY <1>1, OtherTells
  <1> QED
    BY <1>2, <1>3, <1>4

-----------------------------------------------------------------------------
(* The steps keep the order.                                                 *)

\* The types of what clients have.
LEMMA SeenFact ==
    ASSUME SeenTyped
    PROVE  /\ Id(copy) \in Int
           /\ \A c \in Client : /\ client[c].value \in Value /\ Id(client[c].value) \in Int
                                /\ client[c].subscribed \in BOOLEAN
                                /\ client[c].reads \in 0 .. Len(Order)
                                /\ wire[c] \in Seq(Note)
  BY DEF SeenTyped, Value

\* Later ids may be seen too, and ids in error always.
LEMMA SeenLater ==
    ASSUME SeenTyped, NEW n \in Nat, n # 0, Seen(n), NEW m \in Nat, m >= n
    PROVE  Seen(m)
  <1>1. \A x \in Int : After(x, n) => After(x, m)
    BY DEF After
  <1>2. ASSUME NEW c \in Client PROVE Before(Id(client[c].value), wire[c], m)
    <2>1. Before(Id(client[c].value), wire[c], n) /\ Id(client[c].value) \in Int
      BY SeenFact DEF Seen
    <2>2. \A i \in Carrying(wire[c]) : Id(wire[c][i]) \in Int
      BY SeenFact, CarriedFact
    <2> QED
      BY <1>1, <2>1, <2>2 DEF Before
  <1>3. After(Id(copy), m)
    BY <1>1, SeenFact DEF Seen
  <1> QED
    BY <1>2, <1>3 DEF Seen

\* No client is ahead of the managers before the first change.
LEMMA SeenZero == Seen(0)
  BY DEF Seen, Before, After

\* A value of the managers changes: new ids are the newest of all.
LEMMA NewValue ==
    ASSUME Typed, Typed', SeenTyped, Ordered,
           UNCHANGED <<devConf, copy, client, wire, main, param, lib>>,
           changes' = changes + 1,
           sys'.id \in {sys.id, 0, changes + 2}, sys'.diag \in {sys.diag, changes + 2},
           \/ bus' = bus
           \/ /\ main # "register"
              /\ \E e \in Event : /\ bus' = Append(bus, e)
                                  /\ main \in Answering => e[1] # "id"
                                  /\ e[1] = "id" => e[2] \in {0, changes + 2}
    PROVE  Ordered'
  <1>1. /\ changes \in Nat /\ sys \in Sys /\ sys' \in Sys /\ param \in Sys /\ lib \in Lib
        /\ bus \in Seq(Event) /\ bus' \in Seq(Event)
    BY DEF Typed
  <1>2. SystemIds(lib) \in Nat /\ SystemIds(lib)' = IF devConf.useGliDiag THEN SystemIds(lib) ELSE sys'.diag
    BY <1>1 DEF SystemIds, Lib, Sys
  <1>3. \A n \in Nat : Seen(n) => Seen(n)'
    BY DEF Seen
  <1>4. Seen(changes + 2)
    BY <1>1, SeenLater DEF Ordered
  <1>5. SystemIds(lib)' \in {SystemIds(lib), changes + 2}
    <2>1. ~devConf.useGliDiag => SystemIds(lib) = sys.diag
      BY DEF SystemIds
    <2> QED
      BY <1>2, <2>1
  <1>6. (\A n \in {SystemIds(lib), changes + 1} : Seen(n))' /\ SystemIds(lib)' <= changes' + 1
    <2>1. changes + 2 \in Nat /\ changes' + 1 = changes + 2
      BY <1>1
    <2>2. ASSUME NEW n \in {SystemIds(lib), changes + 2} PROVE Seen(n)'
      <3>1. Seen(n)
        BY Zenon, <1>4, <2>2 DEF Ordered
      <3>2. n \in Nat
        BY <1>2, <2>1
      <3> QED
        BY <1>3, <3>1, <3>2
    <2>3. SystemIds(lib)' <= changes' + 1
      BY <1>1, <1>2, <1>5 DEF Ordered
    <2>4. {SystemIds(lib)', changes' + 1} \subseteq {SystemIds(lib), changes + 2}
      BY <1>5, <2>1
    <2> QED
      BY <2>2, <2>3, <2>4
  <1>7. sys'.id <= changes' + 1 /\ sys'.diag <= changes' + 1 /\ param'.id <= changes' + 1
    BY <1>1 DEF Ordered, Sys
  <1>8. \A n \in Nat : Newer(n) => Newer(n)'
    BY <1>1, <1>3 DEF Newer
  <1>9. (\A c \in Client : /\ Line(Id(client[c].value), wire[c])
                           /\ ~client[c].subscribed => After(Id(client[c].value), Id(copy)))'
    BY DEF Ordered
  <1>10. CASE bus' = bus
    <2>1. BusInOrder => BusInOrder'
      BY <1>8, <1>10 DEF BusInOrder
    <2>2. main' \in {"register"} \cup Answering => \A i \in 1 .. Len(bus') : bus'[i][1] # "id"
      BY <1>10 DEF Ordered
    <2> QED
      BY <1>6, <1>7, <1>9, <2>1, <2>2 DEF Ordered
  <1>11. ASSUME main # "register", NEW e \in Event, bus' = Append(bus, e),
                main \in Answering => e[1] # "id", e[1] = "id" => e[2] \in {0, changes + 2}
         PROVE  Ordered'
    <2>1. /\ Len(bus) \in Nat /\ Len(bus') = Len(bus) + 1 /\ bus'[Len(bus) + 1] = e
          /\ \A i \in 1 .. Len(bus) : bus'[i] = bus[i]
      BY <1>1, <1>11, AppendFact
    <2>2. ASSUME devConf.useGliDiag, NEW n \in Nat, e = <<"id", n>>
          PROVE  Newer(n)' /\ \A x \in Nat : x <= changes + 1 => After(x, n)
      <3>1. n \in {0, changes + 2}
        BY <1>11, <2>2
      <3>2. Seen(n)
        BY <1>4, <3>1, SeenZero
      <3>3. \A x \in Nat : x <= changes + 1 => After(x, n)
        BY <1>1, <3>1 DEF After
      <3>4. lib.id \in Nat /\ lib.id <= changes + 1
        BY <1>1, <2>2 DEF Ordered, SystemIds, Lib
      <3>5. Newer(n)'
        <4>1. After(lib.id, n) /\ n <= changes' + 1 /\ Seen(n)'
          BY <1>1, <1>3, <3>1, <3>2, <3>3, <3>4
        <4> QED
          BY <4>1 DEF Newer
      <3> QED
        BY <3>3, <3>5
    <2>3. ASSUME devConf.useGliDiag PROVE BusInOrder'
      <3>1. BusInOrder
        BY <2>3 DEF Ordered
      <3> SUFFICES ASSUME NEW i \in 1 .. Len(bus'), NEW n \in Nat, bus'[i] = <<"id", n>>
                   PROVE  /\ Newer(n)'
                          /\ \A j \in i + 1 .. Len(bus'), m \in Nat :
                               bus'[j] = <<"id", m>> => After(n, m)
        BY DEF BusInOrder
      <3>2. CASE i = Len(bus) + 1
        <4>1. e = <<"id", n>>
          BY <2>1, <3>2
        <4> QED
          BY <2>1, <2>2, <2>3, <3>2, <4>1
      <3>3. CASE i \in 1 .. Len(bus)
        <4>1. bus[i] = <<"id", n>>
          BY <2>1, <3>3
        <4>2. Newer(n) /\ Newer(n)' /\ n <= changes + 1
          BY <1>8, <3>1, <3>3, <4>1 DEF BusInOrder, Newer
        <4>3. ASSUME NEW j \in i + 1 .. Len(bus'), NEW m \in Nat, bus'[j] = <<"id", m>>
              PROVE  After(n, m)
          <5>1. CASE j = Len(bus) + 1
            <6>1. e = <<"id", m>>
              BY <2>1, <4>3, <5>1
            <6> QED
              BY <2>2, <2>3, <4>2, <6>1
          <5>2. CASE j \in i + 1 .. Len(bus)
            <6>1. bus[j] = <<"id", m>>
              BY <2>1, <3>3, <4>3, <5>2
            <6> QED
              BY <3>1, <3>3, <4>1, <5>2, <6>1 DEF BusInOrder
          <5> QED
            BY <2>1, <3>3, <5>1, <5>2
        <4> QED
          BY <4>2, <4>3
      <3> QED
        BY <2>1, <3>2, <3>3
    <2>4. main' \in {"register"} \cup Answering => \A i \in 1 .. Len(bus') : bus'[i][1] # "id"
      <3>1. \A i \in 1 .. Len(bus') : i = Len(bus) + 1 \/ i \in 1 .. Len(bus)
        BY <2>1
      <3> QED
        BY <1>11, <2>1, <3>1 DEF Ordered
    <2> QED
      BY <1>6, <1>7, <1>9, <2>3, <2>4 DEF Ordered
  <1> QED
    BY <1>10, <1>11

\* The managers' steps.
LEMMA ManagerSeen ==
    ASSUME Inv, Inv', SeenInv, SystemManager
    PROVE  SeenInv'
  <1>1. Typed /\ Typed' /\ SeenTyped /\ Requests /\ sys \in Sys /\ changes \in Nat /\ main \in Steps
    BY DEF Inv, Typed, SeenInv
  <1>2. ASSUME NEW f, NEW v, MayChange(f, v)
        PROVE  /\ UNCHANGED <<devConf, copy, client, wire, main, param, lib>>
               /\ changes' = changes + 1 /\ sys' = [sys EXCEPT ![f] = v]
    BY Zenon, <1>2 DEF MayChange
  <1>3. ASSUME UNCHANGED <<devConf, copy, client, wire, main, param, lib>>, ~late' => Ordered'
        PROVE  SeenInv'
    <2>1. SeenTyped' /\ Requests'
      BY <1>1, <1>3 DEF SeenTyped, Requests
    <2> QED
      BY <1>3, <2>1 DEF SeenInv
  <1>4. ASSUME NEW f \in {"tune", "id", "tz", "dst", "route"}, NEW v, <<f, v>> \in Event,
               f = "id" => v \in {0, changes + 2}, Publish(f, v)
        PROVE  SeenInv'
    <2>1. MayChange(f, v) /\ late' = (late \/ (main \in Answering /\ f # "route"))
          /\ bus' = IF main = "register" THEN bus ELSE Append(bus, <<f, v>>)
      BY Zenon, <1>4 DEF Publish
    <2>2. sys'.id \in {sys.id, 0, changes + 2} /\ sys'.diag = sys.diag
      BY <1>1, <1>2, <1>4, <2>1 DEF Sys
    <2>3. ASSUME ~late' PROVE Ordered'
      <3>1. ~late /\ (main \in Answering => f # "id")
        BY <1>4, <2>1, <2>3
      <3>2. \/ bus' = bus
            \/ /\ main # "register"
               /\ \E e \in Event : /\ bus' = Append(bus, e)
                                   /\ main \in Answering => e[1] # "id"
                                   /\ e[1] = "id" => e[2] \in {0, changes + 2}
        <4>1. CASE main = "register"
          BY <2>1, <4>1
        <4>2. CASE main # "register"
          <5> DEFINE e == <<f, v>>
          <5>1. e \in Event /\ e[1] = f /\ e[2] = v /\ bus' = Append(bus, e)
            BY <1>4, <2>1, <4>2
          <5> HIDE DEF e
          <5> QED
            BY <1>4, <3>1, <4>2, <5>1
        <4> QED
          BY <4>1, <4>2
      <3>3. Ordered
        BY <3>1 DEF SeenInv
      <3>4. UNCHANGED <<devConf, copy, client, wire, main, param, lib>> /\ changes' = changes + 1
        BY <1>2, <2>1
      <3> QED
        BY <1>1, <2>2, <3>2, <3>3, <3>4, NewValue
    <2> QED
      BY <1>2, <1>3, <2>1, <2>3
  <1>5. ASSUME TuneReady PROVE SeenInv'
    <2>1. <<"tune", ~sys.tune>> \in Event
      BY <1>1 DEF Event, Sys
    <2> QED
      BY <1>4, <1>5, <2>1 DEF TuneReady
  <1>6. ASSUME NewId \/ IdError PROVE SeenInv'
    <2>1. <<"id", changes + 2>> \in Event /\ <<"id", 0>> \in Event
      BY <1>1 DEF Event
    <2> QED
      BY <1>4, <1>6, <2>1 DEF NewId, IdError
  <1>7. ASSUME NewRoute PROVE SeenInv'
    <2>1. <<"route", changes + 2>> \in Event
      BY <1>1 DEF Event
    <2> QED
      BY <1>4, <1>7, <2>1 DEF NewRoute
  <1>8. ASSUME NEW p \in Payload \cup {NoMatch}, TimeZone(p) PROVE SeenInv'
    <2>1. <<"tz", p>> \in Event
      BY DEF Event
    <2> QED
      BY <1>4, <1>8, <2>1 DEF TimeZone
  <1>9. ASSUME NEW o \in {0, 60}, DstOffset(o) PROVE SeenInv'
    <2>1. <<"dst", o>> \in Event
      BY DEF Event
    <2> QED
      BY <1>4, <1>9, <2>1 DEF DstOffset
  <1>10. ASSUME DiagFile PROVE SeenInv'
    <2>1. MayChange("diag", changes + 2) /\ late' = late /\ bus' = bus
      BY Zenon, <1>10 DEF DiagFile
    <2>2. sys'.id = sys.id /\ sys'.diag = changes + 2
      BY <1>1, <1>2, <2>1 DEF Sys
    <2>3. ASSUME ~late' PROVE Ordered'
      <3>1. Ordered /\ UNCHANGED <<devConf, copy, client, wire, main, param, lib>>
            /\ changes' = changes + 1
        BY <1>2, <2>1, <2>3 DEF SeenInv
      <3> QED
        BY <1>1, <2>1, <2>2, <3>1, NewValue
    <2> QED
      BY <1>2, <1>3, <2>1, <2>3
  <1>11. ASSUME NEW v \in {"empty", "prefix"}, PrefixFile(v) PROVE SeenInv'
    <2>1. MayChange("prefix", v) /\ late' = late /\ bus' = bus
      BY Zenon, <1>11 DEF PrefixFile
    <2>2. sys'.id = sys.id /\ sys'.diag = sys.diag
      BY <1>1, <1>2, <2>1 DEF Sys
    <2>3. ASSUME ~late' PROVE Ordered'
      <3>1. Ordered /\ UNCHANGED <<devConf, copy, client, wire, main, param, lib>>
            /\ changes' = changes + 1
        BY <1>2, <2>1, <2>3 DEF SeenInv
      <3> QED
        BY <1>1, <2>1, <2>2, <3>1, NewValue
    <2> QED
      BY <1>2, <1>3, <2>1, <2>3
  <1> QED
    BY <1>5, <1>6, <1>7, <1>8, <1>9, <1>10, <1>11 DEF SystemManager

\* What the event h tells, and which ids the library has then.
LEMMA HandlerTells ==
    ASSUME NEW h \in Event, NEW e, lib \in Lib, sys \in Sys,
           e = CASE h[1] = "tune" -> TuneChanged(lib, h[2])
                 [] h[1] = "id" -> IdChanged(lib, h[2])
                 [] h[1] = "tz" -> mapTimeZoneToJavaFormat(lib, h[2])
                 [] h[1] = "dst" -> DstChanged(lib, h[2])
                 [] h[1] = "route" -> RouteChanged(lib, h[2])
    PROVE  Tells(e, IF devConf.useGliDiag /\ h[1] = "id" THEN h[2] ELSE SystemIds(lib))
  <1>1. CASE h[1] = "tune" /\ h[2] \in BOOLEAN
    <2>1. e = TuneChanged(lib, h[2])
      BY <1>1
    <2> QED
      BY <1>1, <2>1, TuneTells
  <1>2. CASE h[1] = "id" /\ h[2] \in Nat
    <2>1. e = IdChanged(lib, h[2])
      BY <1>2
    <2> QED
      BY <1>2, <2>1, IdTells
  <1>3. CASE h[1] = "tz" /\ h[2] \in Payload \cup {NoMatch}
    <2>1. e = mapTimeZoneToJavaFormat(lib, h[2])
      BY <1>3
    <2> QED
      BY <1>3, <2>1, ZoneTells
  <1>4. CASE h[1] = "dst" /\ h[2] \in {0, 60}
    <2>1. e = DstChanged(lib, h[2])
      BY <1>4
    <2> QED
      BY <1>4, <2>1, DstTells
  <1>5. CASE h[1] = "route" /\ h[2] \in Nat
    <2>1. e = RouteChanged(lib, h[2])
      BY <1>5
    <2> QED
      BY <1>5, <2>1, RouteTells
  <1> QED
    BY <1>1, <1>2, <1>3, <1>4, <1>5 DEF Event

\* What is told comes after all that was handed out.
LEMMA ToldInOrder ==
    ASSUME SeenTyped, SeenTyped', UNCHANGED <<copy, client>>,
           NEW s \in Seq(Note), NEW k \in Int, \A i \in Carrying(s) : Id(s[i]) = k,
           \A c \in Client : wire'[c] \in {wire[c], wire[c] \o s},
           \A c \in Client : Line(Id(client[c].value), wire[c]),
           Seen(k)
    PROVE  /\ \A c \in Client : Line(Id(client[c].value), wire'[c])
           /\ \A n \in Int : Seen(n) /\ After(k, n) => Seen(n)'
  <1>1. ASSUME NEW c \in Client
        PROVE  /\ Line(Id(client[c].value), wire'[c])
               /\ \A n \in Int : Before(Id(client[c].value), wire[c], n) /\ After(k, n)
                                   => Before(Id(client[c].value), wire'[c], n)
    <2>1. /\ Id(client[c].value) \in Int /\ wire[c] \in Seq(Note)
          /\ Line(Id(client[c].value), wire[c]) /\ Before(Id(client[c].value), wire[c], k)
      BY SeenFact DEF Seen
    <2>2. CASE wire'[c] = wire[c]
      BY <2>1, <2>2
    <2>3. CASE wire'[c] = wire[c] \o s
      <3>1. /\ Line(Id(client[c].value), wire[c] \o s)
            /\ \A n \in Int : Before(Id(client[c].value), wire[c], n) /\ (Carrying(s) # {} => After(k, n))
                                => Before(Id(client[c].value), wire[c] \o s, n)
        BY <2>1, MoreEvents
      <3> QED
        BY <2>3, <3>1
    <2> QED
      BY <2>2, <2>3
  <1>2. ASSUME NEW n \in Int, Seen(n), After(k, n) PROVE Seen(n)'
    BY <1>1, <1>2 DEF Seen
  <1> QED
    BY <1>1, <1>2

\* The bus thread handles one event.
LEMMA HandlerSeen ==
    ASSUME Inv, Inv', SeenInv, SysEventHandler
    PROVE  SeenInv'
  <1> DEFINE h == Head(bus)
             e == CASE h[1] = "tune" -> TuneChanged(lib, h[2])
                    [] h[1] = "id" -> IdChanged(lib, h[2])
                    [] h[1] = "tz" -> mapTimeZoneToJavaFormat(lib, h[2])
                    [] h[1] = "dst" -> DstChanged(lib, h[2])
                    [] h[1] = "route" -> RouteChanged(lib, h[2])
             k == IF devConf.useGliDiag /\ h[1] = "id" THEN h[2] ELSE SystemIds(lib)
  <1>1. /\ Typed /\ SeenTyped /\ Requests
        /\ sys \in Sys /\ lib \in Lib /\ bus \in Seq(Event) /\ changes \in Nat
    BY DEF Inv, Typed, SeenInv
  <1>2. /\ bus # <<>> /\ bus' = Tail(bus) /\ lib' = e.lib /\ wire' = Notified(e.notes)
        /\ UNCHANGED <<devConf, sys, changes, late, main, param, copy, client>>
    BY Zenon DEF SysEventHandler, history
  <1>3. /\ h = bus[1] /\ h \in Event /\ Len(bus) \in Nat /\ Len(bus) >= 1
        /\ Len(Tail(bus)) = Len(bus) - 1
        /\ \A i \in 1 .. Len(bus) - 1 : Tail(bus)[i] = bus[i + 1]
    BY <1>1, <1>2, TailFact
  <1>4. Tells(e, k)
    BY <1>1, <1>3, HandlerTells
  <1> HIDE DEF e, h
  <1>5. /\ e.notes \in Seq(Note) /\ \A i \in Carrying(e.notes) : Id(e.notes[i]) = k
        /\ SystemIds(lib)' = k
    <2>1. SystemIds(lib)' = SystemIds(lib')
      BY <1>2 DEF SystemIds
    <2> QED
      BY Zenon, <1>2, <1>4, <2>1 DEF Tells
  <1>6. k \in Nat /\ (h[1] = "id" => h[2] \in Nat /\ h = <<"id", h[2]>>)
    <2>1. SystemIds(lib) \in Nat
      BY <1>1 DEF SystemIds, Lib, Sys
    <2> QED
      BY <1>3, <2>1 DEF Event
  <1>7. \A c \in Client : /\ wire'[c] \in {wire[c], wire[c] \o e.notes}
                          /\ ~client[c].subscribed => wire'[c] = wire[c]
    BY <1>2 DEF Notified
  <1>8. SeenTyped'
    <2>1. \A c \in Client : wire[c] \in Seq(Note) /\ wire[c] \o e.notes \in Seq(Note)
      BY <1>1, <1>5, SeenFact
    <2>2. wire' = [c \in Client |-> wire'[c]]
      BY <1>2 DEF Notified
    <2>3. wire' \in [Client -> Seq(Note)]
      BY <1>7, <2>1, <2>2
    <2> QED
      BY <1>1, <1>2, <2>3 DEF SeenTyped
  <1>9. Requests'
    BY <1>1, <1>2, <1>7 DEF Requests
  <1>10. ASSUME ~late' PROVE Ordered'
    <2>1. Ordered
      BY <1>2, <1>10 DEF SeenInv
    <2>2. /\ Seen(k) /\ k <= changes + 1
          /\ devConf.useGliDiag => BusInOrder
      <3>1. CASE devConf.useGliDiag /\ h[1] = "id"
        <4>1. BusInOrder /\ k = h[2] /\ 1 \in 1 .. Len(bus) /\ bus[1] = <<"id", h[2]>>
          BY <1>3, <1>6, <2>1, <3>1 DEF Ordered
        <4>2. Newer(k)
          BY <1>6, <4>1 DEF BusInOrder
        <4> QED
          BY <4>1, <4>2 DEF Newer
      <3>2. CASE ~(devConf.useGliDiag /\ h[1] = "id")
        BY <2>1, <3>2 DEF Ordered
      <3> QED
        BY <3>1, <3>2
    <2>3. /\ \A c \in Client : Line(Id(client[c].value), wire'[c])
          /\ \A n \in Int : Seen(n) /\ After(k, n) => Seen(n)'
      <3>1. \A c \in Client : Line(Id(client[c].value), wire[c])
        BY <2>1 DEF Ordered
      <3>2. k \in Int /\ SeenTyped /\ Seen(k) /\ UNCHANGED <<copy, client>>
        BY <1>1, <1>2, <1>6, <2>2
      <3>3. \A c \in Client : wire'[c] \in {wire[c], wire[c] \o e.notes}
        BY Zenon, <1>7
      <3> HIDE DEF k
      <3> QED
        BY Zenon, <1>5, <1>8, <3>1, <3>2, <3>3, ToldInOrder
    <2>4. (\A n \in {SystemIds(lib), changes + 1} : Seen(n))' /\ SystemIds(lib)' <= changes' + 1
      <3> HIDE DEF k
      <3>1. ASSUME NEW n \in {k, changes + 1} PROVE Seen(n)'
        <4>1. Seen(n) /\ n \in Int
          BY <1>1, <1>6, <2>1, <2>2, <3>1 DEF Ordered
        <4>2. After(k, n)
          BY <1>1, <1>6, <2>2, <3>1 DEF After
        <4> QED
          BY <2>3, <4>1, <4>2
      <3> QED
        BY Zenon, <1>2, <1>5, <2>2, <3>1
    <2>5. ASSUME devConf.useGliDiag PROVE BusInOrder'
      <3> SUFFICES ASSUME NEW i \in 1 .. Len(bus'), NEW n \in Nat, bus'[i] = <<"id", n>>
                   PROVE  /\ Newer(n)'
                          /\ \A j \in i + 1 .. Len(bus'), m \in Nat :
                               bus'[j] = <<"id", m>> => After(n, m)
        BY DEF BusInOrder
      <3>1. BusInOrder
        BY <2>2, <2>5
      <3>2. /\ i + 1 \in 1 .. Len(bus) /\ bus[i + 1] = <<"id", n>>
            /\ \A j \in i + 1 .. Len(bus') : j + 1 \in (i + 1) + 1 .. Len(bus) /\ bus'[j] = bus[j + 1]
        BY <1>2, <1>3
      <3>3. Newer(n) /\ \A j \in i + 1 .. Len(bus'), m \in Nat : bus'[j] = <<"id", m>> => After(n, m)
        BY <3>1, <3>2 DEF BusInOrder
      <3>4. After(k, n)
        <4>1. CASE h[1] = "id"
          <5>1. 1 \in 1 .. Len(bus) /\ i + 1 \in 1 + 1 .. Len(bus) /\ bus[1] = <<"id", h[2]>>
            BY <1>2, <1>3, <1>6, <4>1
          <5>2. After(h[2], n)
            BY <1>6, <3>1, <3>2, <4>1, <5>1 DEF BusInOrder
          <5> QED
            BY <2>5, <4>1, <5>2
        <4>2. CASE h[1] # "id"
          <5>1. k = lib.id
            BY <2>5, <4>2 DEF SystemIds
          <5> QED
            BY <3>3, <5>1 DEF Newer
        <4> QED
          BY <4>1, <4>2
      <3> HIDE DEF k
      <3>5. lib'.id = k
        BY <1>2, <1>5, <2>5 DEF SystemIds
      <3>6. Seen(n)'
        BY <2>3, <3>3, <3>4 DEF Newer
      <3>7. After(lib'.id, n) /\ n <= changes' + 1
        BY <1>2, <3>3, <3>4, <3>5 DEF Newer
      <3>8. Newer(n)'
        BY Zenon, <3>6, <3>7 DEF Newer
      <3> QED
        BY <3>3, <3>8
    <2>6. main' \in {"register"} \cup Answering => \A i \in 1 .. Len(bus') : bus'[i][1] # "id"
      <3>1. \A i \in 1 .. Len(bus') : i + 1 \in 1 .. Len(bus) /\ bus'[i] = bus[i + 1]
        BY <1>2, <1>3
      <3> QED
        BY <1>2, <2>1, <3>1 DEF Ordered
    <2>7. sys'.id <= changes' + 1 /\ sys'.diag <= changes' + 1 /\ param'.id <= changes' + 1
      BY <1>2, <2>1 DEF Ordered
    <2>8. \A c \in Client : /\ Line(Id(client'[c].value), wire'[c])
                            /\ ~client'[c].subscribed => After(Id(client'[c].value), Id(copy'))
      BY <1>2, <2>1, <2>3 DEF Ordered
    <2> QED
      BY <1>2, <2>4, <2>5, <2>6, <2>7, <2>8 DEF Ordered
  <1> QED
    BY <1>8, <1>9, <1>10 DEF SeenInv

\* Steps that leave what clients have, and the bus, alone.
LEMMA MainSeen ==
    ASSUME Inv, Inv', SeenInv, MainThread
    PROVE  SeenInv'
  <1>1. /\ Typed /\ SeenTyped /\ Requests /\ sys \in Sys /\ lib \in Lib /\ param \in Sys
        /\ changes \in Nat /\ bus \in Seq(Event)
    BY DEF Inv, Typed, SeenInv
  <1>2. UNCHANGED <<devConf, sys, changes, late, bus, copy, client, wire>>
    BY Zenon DEF MainThread, Register, Call, AssignId, AssignTz, AssignDst, AssignTune, Urls,
                 WaitTuneReady, WaitPrefixFile, WaitPrefix, Serve, Cvp, Fail, At, history
  <1>3. main # "up" /\ (main' \in {"register"} \cup Answering => main \in {"register"} \cup Answering)
    <2>1. \E a \in {"register", "call", "assign_id", "assign_tz", "assign_dst", "assign_tune",
                    "urls", "wait", "prefix_file", "prefix", "serve", "cvp"} :
            /\ main = a
            /\ a \in {"urls", "wait", "prefix_file", "prefix", "serve", "cvp"} =>
                 main' \in {"wait", "prefix_file", "prefix", "serve", "cvp", "up", "ended"}
      BY Zenon DEF MainThread, Register, Call, AssignId, AssignTz, AssignDst, AssignTune, Urls,
                   WaitTuneReady, WaitPrefixFile, WaitPrefix, Serve, Cvp, Fail, At
    <2> QED
      BY <2>1 DEF Answering
  <1>4. SeenTyped' /\ Requests'
    BY <1>1, <1>2, <1>3 DEF SeenTyped, Requests
  <1>5. \A n \in Nat : Seen(n)
    BY <1>1, <1>3 DEF Requests, Seen, Before, Carrying, After, Unprinted
  <1>6. \/ SystemIds(lib)' = SystemIds(lib)
        \/ main = "assign_id" /\ SystemIds(lib)' = param.id
    <2>1. SystemIds(lib)' = SystemIds(lib')
      BY <1>2 DEF SystemIds
    <2>2. ASSUME \/ Register \/ Call \/ WaitPrefixFile \/ WaitPrefix
                 \/ Serve \/ Cvp \/ Fail
          PROVE  lib' = lib
      BY Zenon, <2>2 DEF Register, Call, WaitPrefixFile, WaitPrefix, Serve, Cvp, Fail
    <2>3. ASSUME AssignId
          PROVE  SystemIds(lib') = SystemIds(lib) \/ (main = "assign_id" /\ SystemIds(lib') = param.id)
      BY <1>1, <2>3 DEF AssignId, At, SystemIds, Lib
    <2>4. ASSUME AssignTz PROVE SystemIds(lib') = SystemIds(lib)
      <3>1. CASE param.tz = NoTz
        BY <2>4, <3>1 DEF AssignTz
      <3>2. CASE param.tz # NoTz
        <4>1. /\ lib' = mapTimeZoneToJavaFormat(lib, param.tz).lib
              /\ param.tz \in Payload \cup {NoMatch}
          BY <1>1, <2>4, <3>2 DEF AssignTz, Sys
        <4> QED
          BY <1>1, <4>1, ZoneTells DEF Tells
      <3> QED
        BY <3>1, <3>2
    <2>5. ASSUME AssignDst PROVE SystemIds(lib') = SystemIds(lib)
      <3>1. CASE param.dst = NoDst
        BY <2>5, <3>1 DEF AssignDst
      <3>2. CASE param.dst # NoDst
        <4>1. lib' = DstChanged(lib, param.dst).lib /\ param.dst \in {0, 60}
          BY <1>1, <2>5, <3>2 DEF AssignDst, Sys
        <4> QED
          BY <1>1, <4>1, DstTells DEF Tells
      <3> QED
        BY <3>1, <3>2
    <2>6. ASSUME AssignTune \/ WaitTuneReady PROVE SystemIds(lib') = SystemIds(lib)
      BY <1>1, <2>6 DEF AssignTune, WaitTuneReady, SystemIds, Lib
    <2>7. ASSUME Urls PROVE SystemIds(lib') = SystemIds(lib)
      BY <1>1, <2>7 DEF Urls, updatesystemids, SystemIds, Lib
    <2> QED
      BY <2>1, <2>2, <2>3, <2>4, <2>5, <2>6, <2>7 DEF MainThread
  <1>7. param' = param \/ param' = sys
    BY Zenon DEF MainThread, Register, Call, AssignId, AssignTz, AssignDst, AssignTune, Urls,
                 WaitTuneReady, WaitPrefixFile, WaitPrefix, Serve, Cvp, Fail
  <1>8. ASSUME ~late' PROVE Ordered'
    <2>1. Ordered
      BY <1>2, <1>8 DEF SeenInv
    <2>2. SystemIds(lib) \in Nat /\ param.id \in Nat /\ changes' + 1 \in Nat
      BY <1>1, <1>2 DEF SystemIds, Lib, Sys
    <2>3. SystemIds(lib)' \in Nat /\ SystemIds(lib)' <= changes + 1
      BY <1>6, <2>1, <2>2 DEF Ordered
    <2>4. (\A n \in {SystemIds(lib), changes + 1} : Seen(n))'
      <3> SUFFICES ASSUME NEW n \in Nat PROVE Seen(n)'
        BY Zenon, <2>2, <2>3
      <3>1. Seen(n)
        BY <1>5
      <3> QED
        BY <1>2, <3>1 DEF Seen
    <2>5. ASSUME devConf.useGliDiag PROVE BusInOrder'
      <3>1. CASE main = "assign_id"
        <4>1. \A i \in 1 .. Len(bus) : bus[i][1] # "id"
          BY <2>1, <3>1 DEF Ordered, Answering
        <4> QED
          BY <1>2, <4>1 DEF BusInOrder
      <3>2. CASE main # "assign_id"
        <4>1. lib'.id = lib.id
          BY <1>2, <1>6, <2>5, <3>2 DEF SystemIds
        <4>2. \A n \in Nat : Newer(n) => Newer(n)'
          BY <1>2, <4>1 DEF Newer, Seen
        <4> QED
          BY <1>2, <2>1, <2>5, <4>2 DEF Ordered, BusInOrder
      <3> QED
        BY <3>1, <3>2
    <2>6. main' \in {"register"} \cup Answering => \A i \in 1 .. Len(bus') : bus'[i][1] # "id"
      BY <1>2, <1>3, <2>1 DEF Ordered
    <2>7. sys'.id <= changes' + 1 /\ sys'.diag <= changes' + 1 /\ param'.id <= changes' + 1
      BY <1>2, <1>7, <2>1 DEF Ordered
    <2>8. \A c \in Client : /\ Line(Id(client'[c].value), wire'[c])
                            /\ ~client'[c].subscribed => After(Id(client'[c].value), Id(copy'))
      BY <1>2, <2>1 DEF Ordered
    <2> QED
      BY <1>2, <2>3, <2>4, <2>5, <2>6, <2>7, <2>8 DEF Ordered
  <1> QED
    BY <1>4, <1>8 DEF SeenInv

\* The clients' steps change neither the values nor the events on the bus.
LEMMA ClientOrdered ==
    ASSUME Typed, Ordered,
           UNCHANGED <<devConf, sys, changes, bus, main, param>>, lib'.id = lib.id,
           \A c \in Client : Line(Id(client'[c].value), wire'[c]),
           \A c \in Client : ~client'[c].subscribed => After(Id(client'[c].value), Id(copy')),
           \A n \in Nat : Seen(n) /\ After(SystemIds(lib), n) => Seen(n)'
    PROVE  Ordered'
  <1>1. SystemIds(lib)' = SystemIds(lib) /\ SystemIds(lib) \in Nat /\ changes \in Nat
    BY DEF SystemIds, Typed, Lib, Sys
  <1>2. (\A n \in {SystemIds(lib), changes + 1} : Seen(n))'
    <2> SUFFICES ASSUME NEW n \in {SystemIds(lib), changes + 1} PROVE Seen(n)'
      BY Zenon, <1>1
    <2>1. Seen(n) /\ n \in Nat
      BY <1>1 DEF Ordered
    <2>2. After(SystemIds(lib), n)
      BY <1>1 DEF Ordered, After
    <2> QED
      BY <2>1, <2>2
  <1>3. ASSUME devConf.useGliDiag, BusInOrder PROVE BusInOrder'
    <2>1. \A n \in Nat : Newer(n) => Newer(n)'
      BY <1>3 DEF Newer, SystemIds
    <2> QED
      BY <1>3, <2>1 DEF BusInOrder
  <1>4. main' \in {"register"} \cup Answering => \A i \in 1 .. Len(bus') : bus'[i][1] # "id"
    BY DEF Ordered
  <1>5. /\ sys'.id <= changes' + 1 /\ sys'.diag <= changes' + 1 /\ param'.id <= changes' + 1
        /\ SystemIds(lib)' <= changes' + 1
    BY <1>1 DEF Ordered
  <1>6. (\A c \in Client : /\ Line(Id(client[c].value), wire[c])
                           /\ ~client[c].subscribed => After(Id(client[c].value), Id(copy)))'
    OBVIOUS
  <1>7. devConf'.useGliDiag => BusInOrder'
    BY <1>3 DEF Ordered
  <1> QED
    BY <1>2, <1>4, <1>5, <1>6, <1>7 DEF Ordered

\* An action: what main.c hands out are the library's ids, or those of its copy.
LEMMA ReadSeen ==
    ASSUME Inv, Inv', SeenInv, NEW c \in Client, Read(c)
    PROVE  /\ SeenInv'
           /\ ~late => \A d \in Client : After(Id(client[d].value), Id(client'[d].value))
  <1> DEFINE x == Order[client[c].reads + 1]
  <1>1. /\ Typed /\ SeenTyped /\ Requests /\ sys \in Sys /\ lib \in Lib /\ changes \in Nat
    BY DEF Inv, Typed, SeenInv
  <1>2. /\ main = "up" /\ client[c].reads < Len(Order)
        /\ \/ /\ Asked(x) /\ copy' = [copy EXCEPT ![x] = sys.route]
              /\ lib' = [lib EXCEPT !.dataGatewayIPaddress = sys.route]
           \/ /\ copy' = [copy EXCEPT ![x] = Refreshed(x)]
              /\ lib' = IF x = "SystemIds" /\ lib.systemids # Unprinted
                          THEN updatesystemids(lib) ELSE lib
        /\ client' = [client EXCEPT ![c].reads = @ + 1,
                                    ![c].value[x] = Shown(x, copy'[x])]
        /\ UNCHANGED <<devConf, sys, changes, late, bus, main, param, wire>>
    BY Zenon DEF Read
  <1>3. /\ x \in Var /\ client[c].reads + 1 \in 0 .. Len(Order)
        /\ ~client[c].subscribed /\ wire[c] = <<>>
    <2>1. client[c].reads \in 0 .. Len(Order) /\ Len(Order) = 4
      BY <1>1, SeenFact, Variables
    <2>2. client[c].reads + 1 \in 1 .. 4
      BY <1>2, <2>1
    <2> QED
      BY <1>1, <1>2, <2>1, <2>2, SeenFact, Variables DEF Requests
  <1> HIDE DEF x
  <1>4. copy \in [Var -> Content] /\ SystemIds(lib) \in Nat
    BY <1>1 DEF SeenTyped, Value, SystemIds, Lib, Sys
  <1>5. PICK y \in Content :
          /\ copy' = [copy EXCEPT ![x] = y]
          /\ x = "SystemIds" => y \in {SystemIds(lib), Id(copy)}
    <2>1. CASE Asked(x) /\ copy' = [copy EXCEPT ![x] = sys.route]
      BY <1>1, <2>1 DEF Asked, Sys, Content
    <2>2. CASE copy' = [copy EXCEPT ![x] = Refreshed(x)]
      <3>1. Refreshed(x) \in {playbackurl, SystemIds(lib), lib.dsgtimezone, gwystbip, copy[x]}
        BY Zenon DEF Refreshed
      <3>2. Refreshed(x) \in Content
        <4>1. playbackurl \in Content /\ gwystbip \in Content
          BY DEF playbackurl, Content, Zones
        <4>2. lib.dsgtimezone \in Content /\ SystemIds(lib) \in Content /\ copy[x] \in Content
          BY <1>1, <1>3, <1>4 DEF Lib, Content
        <4> QED
          BY <3>1, <4>1, <4>2
      <3>3. x = "SystemIds" => Refreshed(x) \in {SystemIds(lib), Id(copy)}
        BY DEF Refreshed, Id
      <3> QED
        BY <2>2, <3>2, <3>3
    <2> QED
      BY <1>2, <2>1, <2>2
  <1>6. lib'.id = lib.id
    BY <1>1, <1>2 DEF updatesystemids, Lib
  <1>7. copy' \in Value /\ Id(copy') = IF x = "SystemIds" THEN y ELSE Id(copy)
    BY <1>1, <1>3, <1>4, <1>5, SeenFact, Variables DEF Id, Value
  <1>8. Shown(x, y) \in Content /\ (x = "SystemIds" => Shown(x, y) = y)
    BY <1>5 DEF Shown, Content
  <1> DEFINE r == client[c]
             w == [r.value EXCEPT ![x] = Shown(x, y)]
             s == [reads |-> r.reads + 1, subscribed |-> r.subscribed, value |-> w]
  <1>9. client' = [client EXCEPT ![c] = s]
    <2>1. copy'[x] = y
      BY <1>3, <1>4, <1>5
    <2>2. r \in [reads : 0 .. Len(Order), subscribed : BOOLEAN, value : Value]
      BY <1>1 DEF SeenTyped
    <2>3. client' = [client EXCEPT ![c] = [[r EXCEPT !.reads = @ + 1] EXCEPT !.value = [@ EXCEPT ![x] = Shown(x, y)]]]
      BY <1>2, <2>1, <1>1 DEF SeenTyped
    <2> DEFINE q == [reads |-> r.reads + 1, subscribed |-> r.subscribed, value |-> r.value]
    <2>4. [r EXCEPT !.reads = @ + 1] = q
      <3> HIDE DEF r
      <3> QED
        BY <2>2
    <2>5. client' = [client EXCEPT ![c] = [q EXCEPT !.value = [@ EXCEPT ![x] = Shown(x, y)]]]
      BY Zenon, <2>3, <2>4
    <2>6. q.value = r.value
      OBVIOUS
    <2>7. client' = [client EXCEPT ![c] = [q EXCEPT !.value = w]]
      BY Zenon, <2>5, <2>6
    <2>8. [q EXCEPT !.value = w] = s
      <3> HIDE DEF w, r
      <3> QED
        OBVIOUS
    <2> QED
      BY Zenon, <2>7, <2>8
  <1>10. /\ s.value \in Value /\ Id(s.value) = IF x = "SystemIds" THEN y ELSE Id(r.value)
         /\ s \in [reads : 0 .. Len(Order), subscribed : BOOLEAN, value : Value]
    <2>1. /\ r.value \in [Var -> Content] /\ Id(r.value) \in Int /\ r.subscribed \in BOOLEAN
          /\ "SystemIds" \in Var
      BY <1>1, SeenFact, Variables DEF Value
    <2>2. w \in [Var -> Content] /\ Id(w) = IF x = "SystemIds" THEN y ELSE Id(r.value)
      <3> HIDE DEF r
      <3> QED
        BY <1>3, <1>8, <2>1 DEF Id
    <2>3. x = "SystemIds" => y \in Int
      BY <1>4, <1>5, <1>1, SeenFact
    <2> HIDE DEF w
    <2>4. w \in Value
      BY <2>1, <2>2, <2>3 DEF Value
    <2> QED
      BY <1>3, <2>1, <2>2, <2>4
  <1>11. \A d \in Client : client'[d] = IF d = c THEN s ELSE client[d]
    BY <1>1, <1>9 DEF SeenTyped
  <1>12. SeenTyped'
    BY <1>1, <1>2, <1>7, <1>9, <1>10 DEF SeenTyped
  <1> HIDE DEF w, s
  <1>13. \A d \in Client : client'[d].subscribed = client[d].subscribed
    BY <1>11 DEF s
  <1>14. Requests'
    BY <1>1, <1>2, <1>3, <1>11, <1>13 DEF Requests
  <1>15. ASSUME ~late
         PROVE  Ordered' /\ \A d \in Client : After(Id(client[d].value), Id(client'[d].value))
    <2>1. Ordered
      BY <1>15 DEF SeenInv
    <2>2. /\ Id(copy) \in Int
          /\ \A d \in Client : /\ Id(client[d].value) \in Int
                               /\ After(Id(client[d].value), SystemIds(lib))
                               /\ ~client[d].subscribed => After(Id(client[d].value), Id(copy))
      BY <1>1, <2>1, SeenFact DEF Ordered, Seen, Before
    <2>3. \A d \in Client : After(Id(client[d].value), Id(client'[d].value))
      <3>1. \A v \in Int : After(v, v)
        BY DEF After
      <3> QED
        BY <1>3, <1>5, <1>10, <1>11, <2>2, <3>1
    <2>4. \A d \in Client : ~client'[d].subscribed => After(Id(client'[d].value), Id(copy'))
      <3>1. \A v \in Int : After(v, v)
        BY DEF After
      <3>2. Id(copy') \in Int
        BY <1>7 DEF Value
      <3> QED
        BY <1>5, <1>7, <1>10, <1>11, <1>13, <2>2, <3>1, <3>2
    <2>5. \A d \in Client : Line(Id(client'[d].value), wire'[d])
      <3>1. \A v : Line(v, <<>>)
        BY DEF Line, Carrying
      <3> QED
        BY <1>2, <1>3, <1>11, <2>1, <3>1 DEF Ordered
    <2>6. ASSUME NEW n \in Nat, Seen(n), After(SystemIds(lib), n) PROVE Seen(n)'
      <3>1. After(Id(copy'), n)
        BY <1>5, <1>7, <2>6 DEF Seen
      <3>2. ASSUME NEW d \in Client PROVE Before(Id(client'[d].value), wire'[d], n)
        <4>1. Before(Id(client[d].value), wire[d], n) /\ wire'[d] = wire[d]
          BY <1>2, <2>6 DEF Seen
        <4>2. After(Id(client'[d].value), n)
          <5>1. x = "SystemIds" => After(y, n)
            BY <1>5, <2>6 DEF Seen
          <5> QED
            BY <1>10, <1>11, <4>1, <5>1 DEF Before
        <4> QED
          BY <4>1, <4>2 DEF Before
      <3> QED
        BY <3>1, <3>2 DEF Seen
    <2>7. Ordered'
      BY <1>1, <1>2, <1>6, <2>1, <2>4, <2>5, <2>6, ClientOrdered
    <2> QED
      BY <2>3, <2>7
  <1> QED
    BY <1>2, <1>12, <1>14, <1>15 DEF SeenInv

\* A subscription: its first event carries the ids of the copy.
LEMMA SubscribeSeen ==
    ASSUME Inv, Inv', SeenInv, NEW c \in Client, Subscribe(c)
    PROVE  /\ SeenInv'
           /\ \A d \in Client : Id(client'[d].value) = Id(client[d].value)
  <1> DEFINE f == [x \in Var |-> Shown(x, copy'[x])]
             r == client[c]
             s == [reads |-> r.reads, subscribed |-> TRUE, value |-> r.value]
  <1>1. /\ Typed /\ SeenTyped /\ Requests /\ lib \in Lib
        /\ copy \in [Var -> Content] /\ "SystemIds" \in Var
    BY Variables DEF Inv, Typed, SeenInv, SeenTyped, Value
  <1>2. /\ main = "up" /\ r.reads = Len(Order) /\ ~r.subscribed
        /\ copy' = [x \in Var |-> Queried(x)]
        /\ wire' = [wire EXCEPT ![c] = Append(@, f)]
        /\ client' = [client EXCEPT ![c].subscribed = TRUE]
        /\ UNCHANGED <<devConf, sys, changes, late, bus, main, param, lib>>
    BY Zenon DEF Subscribe, history
  <1>3. wire[c] = <<>> /\ Append(wire[c], f) = <<f>>
    <2>1. wire[c] = <<>>
      BY <1>1, <1>2 DEF Requests
    <2> QED
      BY <2>1
  <1>4. copy' \in Value /\ Id(copy') = Id(copy)
    <2>1. \A x \in Var : Queried(x) \in Content
      BY <1>1 DEF Queried, Lib, Content
    <2>2. Queried("SystemIds") = copy["SystemIds"]
      BY DEF Queried
    <2>3. Id(copy') = Id(copy)
      BY <1>1, <1>2, <2>2 DEF Id
    <2> QED
      BY <1>1, <1>2, <2>1, <2>3, SeenFact DEF Value
  <1>5. f \in Note /\ Id(f) = Id(copy)
    <2>1. \A x \in Var : Shown(x, copy'[x]) \in Content
      BY <1>4 DEF Shown, Value, Content
    <2>2. Id(f) = Id(copy)
      BY <1>1, <1>4 DEF Shown, Id
    <2>3. f \in [Var -> Content] /\ Var \in SUBSET Var
      BY <2>1
    <2> HIDE DEF f
    <2>4. f \in UNION {[D -> Content] : D \in SUBSET Var}
      BY <2>3
    <2> QED
      BY <1>1, <2>2, <2>4, SeenFact DEF Note
  <1> HIDE DEF f
  <1>6. /\ <<f>> \in Seq(Note)
        /\ \A i \in Carrying(<<f>>) : Id(<<f>>[i]) = Id(copy)
    BY <1>5, FewEvents
  <1>7. r \in [reads : 0 .. Len(Order), subscribed : BOOLEAN, value : Value]
    BY <1>1 DEF SeenTyped
  <1>8. client' = [client EXCEPT ![c] = s]
    <2>1. client' = [client EXCEPT ![c] = [r EXCEPT !.subscribed = TRUE]]
      BY <1>2
    <2>2. [r EXCEPT !.subscribed = TRUE] = s
      <3> HIDE DEF r
      <3>1. \A t : [r EXCEPT !.subscribed = t] = [reads |-> r.reads, subscribed |-> t, value |-> r.value]
        BY <1>7
      <3> QED
        BY Zenon, <3>1
    <2> QED
      BY Zenon, <2>1, <2>2
  <1>9. s \in [reads : 0 .. Len(Order), subscribed : BOOLEAN, value : Value]
    <2> HIDE DEF r
    <2> QED
      BY <1>7
  <1>10. \A d \in Client : client'[d] = IF d = c THEN s ELSE client[d]
    BY <1>1, <1>8 DEF SeenTyped
  <1>11. \A d \in Client : wire'[d] = IF d = c THEN <<f>> ELSE wire[d]
    BY <1>1, <1>2, <1>3 DEF SeenTyped
  <1>12. SeenTyped'
    <2>1. wire' \in [Client -> Seq(Note)]
      BY <1>1, <1>2, <1>3, <1>6 DEF SeenTyped
    <2>2. client' \in [Client -> [reads : 0 .. Len(Order), subscribed : BOOLEAN, value : Value]]
      BY <1>1, <1>8, <1>9 DEF SeenTyped
    <2> QED
      BY <1>4, <2>1, <2>2 DEF SeenTyped
  <1>13. \A d \in Client : client'[d].value = client[d].value
    BY <1>10
  <1>14. Requests'
    <2>1. \A d \in Client : d # c => client'[d] = client[d] /\ wire'[d] = wire[d]
      BY <1>10, <1>11
    <2>2. client'[c].subscribed /\ client'[c].reads = Len(Order)
      BY <1>2, <1>10
    <2> QED
      BY <1>1, <1>2, <2>1, <2>2 DEF Requests
  <1>15. ASSUME ~late PROVE Ordered'
    <2>1. Ordered
      BY <1>15 DEF SeenInv
    <2>2. After(Id(r.value), Id(copy)) /\ Id(copy) \in Int /\ After(Id(copy), Id(copy))
      BY <1>1, <1>2, <2>1, SeenFact DEF Ordered, After
    <2>3. \A d \in Client : Line(Id(client'[d].value), wire'[d])
      <3>1. Line(Id(r.value), <<f>>)
        BY Zenon, <1>6, <2>2 DEF Line
      <3> QED
        BY <1>11, <1>13, <2>1, <3>1 DEF Ordered
    <2>4. \A d \in Client : ~client'[d].subscribed => After(Id(client'[d].value), Id(copy'))
      BY <1>4, <1>10, <2>1 DEF Ordered
    <2>5. ASSUME NEW n \in Nat, Seen(n) PROVE Seen(n)'
      <3>1. After(Id(copy'), n) /\ After(Id(copy), n)
        BY <1>4, <2>5 DEF Seen
      <3>2. Before(Id(r.value), <<f>>, n)
        <4>1. After(Id(r.value), n)
          BY <2>5 DEF Seen, Before
        <4> QED
          BY Zenon, <1>6, <3>1, <4>1 DEF Before
      <3>3. \A d \in Client : Before(Id(client'[d].value), wire'[d], n)
        BY <1>11, <1>13, <2>5, <3>2 DEF Seen
      <3> QED
        BY <3>1, <3>3 DEF Seen
    <2>6. lib'.id = lib.id /\ UNCHANGED <<devConf, sys, changes, bus, main, param>>
      BY <1>2
    <2> QED
      BY <1>1, <2>1, <2>3, <2>4, <2>5, <2>6, ClientOrdered
  <1> QED
    BY <1>2, <1>12, <1>13, <1>14, <1>15 DEF SeenInv

\* An event arrives.
LEMMA DeliverSeen ==
    ASSUME Inv, Inv', SeenInv, NEW c \in Client, Deliver(c)
    PROVE  /\ SeenInv'
           /\ ~late => \A d \in Client : After(Id(client[d].value), Id(client'[d].value))
  <1> DEFINE r == client[c]
             f == Head(wire[c])
             v == Updated(r.value, f)
             s == [reads |-> r.reads, subscribed |-> r.subscribed, value |-> v]
  <1>1. Typed /\ SeenTyped /\ Requests
    BY DEF Inv, SeenInv
  <1>2. /\ wire[c] # <<>>
        /\ client' = [client EXCEPT ![c].value = Updated(@, f)]
        /\ wire' = [wire EXCEPT ![c] = Tail(@)]
        /\ UNCHANGED <<devConf, sys, changes, late, bus, main, param, lib, copy>>
    BY Zenon DEF Deliver, history
  <1>3. wire[c] \in Seq(Note) /\ f \in Note /\ Tail(wire[c]) \in Seq(Note)
    BY <1>1, <1>2, SeenFact
  <1>4. r \in [reads : 0 .. Len(Order), subscribed : BOOLEAN, value : Value] /\ r.value \in Value
    BY <1>1 DEF SeenTyped
  <1>5. v \in Value /\ Id(v) = IF "SystemIds" \in DOMAIN f THEN Id(f) ELSE Id(r.value)
    BY <1>3, <1>4, Merged
  <1>6. client' = [client EXCEPT ![c] = s]
    <2>1. client' = [client EXCEPT ![c] = [r EXCEPT !.value = v]]
      BY Zenon, <1>2
    <2> HIDE DEF v
    <2>2. [r EXCEPT !.value = v] = s
      <3> HIDE DEF r
      <3> QED
        BY <1>4
    <2> QED
      BY Zenon, <2>1, <2>2
  <1>7. s \in [reads : 0 .. Len(Order), subscribed : BOOLEAN, value : Value] /\ s.value = v
    <2> HIDE DEF r, v
    <2> QED
      BY <1>4, <1>5
  <1>8. \A d \in Client : /\ client'[d] = IF d = c THEN s ELSE client[d]
                          /\ wire'[d] = IF d = c THEN Tail(wire[c]) ELSE wire[d]
    BY <1>1, <1>2, <1>6 DEF SeenTyped
  <1>9. SeenTyped'
    <2>1. wire' \in [Client -> Seq(Note)]
      BY <1>1, <1>2, <1>3 DEF SeenTyped
    <2>2. client' \in [Client -> [reads : 0 .. Len(Order), subscribed : BOOLEAN, value : Value]]
      BY <1>1, <1>6, <1>7 DEF SeenTyped
    <2> QED
      BY <1>1, <1>2, <2>1, <2>2 DEF SeenTyped
  <1> HIDE DEF v
  <1>10. \A d \in Client : /\ client'[d].subscribed = client[d].subscribed
                           /\ client'[d].reads = client[d].reads
                           /\ Id(client'[d].value) = IF d = c THEN Id(v) ELSE Id(client[d].value)
    BY <1>8
  <1>11. r.subscribed
    BY <1>1, <1>2, <1>4 DEF Requests
  <1>12. Requests'
    <2>1. main = "up"
      BY <1>1, <1>11 DEF Requests
    <2> QED
      BY <1>1, <1>2, <1>8, <1>10, <1>11, <2>1 DEF Requests
  <1>13. ASSUME ~late
         PROVE  Ordered' /\ \A d \in Client : After(Id(client[d].value), Id(client'[d].value))
    <2>1. Ordered
      BY <1>13 DEF SeenInv
    <2>2. /\ Line(Id(v), Tail(wire[c])) /\ After(Id(r.value), Id(v))
          /\ \A n \in Int : Before(Id(r.value), wire[c], n) => Before(Id(v), Tail(wire[c]), n)
      <3>1. Id(r.value) \in Int /\ Id(v) \in Int /\ Line(Id(r.value), wire[c])
        BY <1>1, <1>5, <2>1, SeenFact DEF Ordered, Value
      <3> HIDE DEF r
      <3> QED
        BY <1>2, <1>3, <1>5, <3>1, EventArrives
    <2>3. \A d \in Client : Line(Id(client'[d].value), wire'[d])
      BY <1>8, <1>10, <2>1, <2>2 DEF Ordered
    <2>4. \A d \in Client : ~client'[d].subscribed => After(Id(client'[d].value), Id(copy'))
      BY <1>2, <1>10, <1>11, <2>1 DEF Ordered
    <2>5. ASSUME NEW n \in Nat, Seen(n) PROVE Seen(n)'
      <3>1. \A d \in Client : Before(Id(client'[d].value), wire'[d], n)
        BY <1>8, <1>10, <2>2, <2>5 DEF Seen
      <3> QED
        BY <1>2, <2>5, <3>1 DEF Seen
    <2>6. lib'.id = lib.id /\ UNCHANGED <<devConf, sys, changes, bus, main, param>>
      BY <1>2
    <2>7. Ordered'
      BY <1>1, <2>1, <2>3, <2>4, <2>5, <2>6, ClientOrdered
    <2>8. \A d \in Client : After(Id(client[d].value), Id(client'[d].value))
      <3>1. \A d \in Client : After(Id(client[d].value), Id(client[d].value))
        BY <1>1, SeenFact DEF After
      <3> QED
        BY <1>10, <2>2, <3>1
    <2> QED
      BY <2>7, <2>8
  <1> QED
    BY <1>2, <1>9, <1>12, <1>13 DEF SeenInv

\* It holds before any client has asked.
LEMMA SeenInit == Init => SeenInv
  <1> SUFFICES ASSUME Init PROVE SeenInv
    OBVIOUS
  <1>1. Inv
    BY InvInit
  <1>2. /\ sys.id \in {0, 1} /\ sys.diag \in {0, 1} /\ changes = 0 /\ bus = <<>> /\ main = "register"
        /\ param = sys /\ lib.id = 0 /\ copy = Blank /\ wire = [c \in Client |-> <<>>]
        /\ client = [c \in Client |-> [reads |-> 0, subscribed |-> FALSE, value |-> Blank]]
    BY DEF Init
  <1>3. Blank \in Value /\ Id(Blank) = Unprinted /\ Unprinted \in Int
    <2>1. \A x \in Var : Blank[x] \in Content
      BY DEF Blank, Content, Zones
    <2>2. Blank \in [Var -> Content]
      BY <2>1 DEF Blank
    <2>3. Id(Blank) = Unprinted
      BY Variables DEF Blank, Id
    <2> QED
      BY <2>2, <2>3 DEF Value, Unprinted
  <1>4. 0 \in 0 .. Len(Order)
    BY Variables
  <1>5. SeenTyped
    <2>1. [reads |-> 0, subscribed |-> FALSE, value |-> Blank]
            \in [reads : 0 .. Len(Order), subscribed : BOOLEAN, value : Value]
      BY <1>3, <1>4
    <2>2. <<>> \in Seq(Note)
      OBVIOUS
    <2> QED
      BY <1>2, <1>3, <2>1, <2>2 DEF SeenTyped
  <1>6. Requests
    BY <1>2, <1>3 DEF Requests
  <1>7. \A n \in Nat : Seen(n)
    BY <1>2, <1>3 DEF Seen, Before, Carrying, After, Unprinted
  <1>8. Ordered
    <2>1. SystemIds(lib) \in {0, 1} /\ changes + 1 = 1
      BY <1>2 DEF SystemIds
    <2>2. \A n \in {SystemIds(lib), changes + 1} : Seen(n)
      BY <1>7, <2>1
    <2>3. BusInOrder /\ \A i \in 1 .. Len(bus) : bus[i][1] # "id"
      BY <1>2 DEF BusInOrder
    <2>4. \A c \in Client : /\ Line(Id(client[c].value), wire[c])
                            /\ After(Id(client[c].value), Id(copy))
      BY <1>2, <1>3 DEF Line, Carrying, After
    <2> QED
      BY <1>2, <2>1, <2>2, <2>3, <2>4 DEF Ordered
  <1> QED
    BY <1>5, <1>6, <1>8 DEF SeenInv

\* No client ever goes back to older ids, whatever the order of its events, its own
\* actions, those of others and the answers from the copy; unless the answer of
\* getSystemValues was newer than an event still on its way.  (Of
\* get_systemids_cb, query_systemids_cb, notify_value_change and _sysEventHandler.)
THEOREM NeverOlderAlways == Spec => NeverOlder
  <1>1. Init => Inv /\ SeenInv
    BY InvInit, SeenInit
  <1>2. Inv /\ SeenInv /\ [Next]_vars =>
          /\ Inv' /\ SeenInv'
          /\ [ late \/ \A c \in Client :
                 \/ client'[c].value["SystemIds"] = 0
                 \/ client'[c].value["SystemIds"] >= client[c].value["SystemIds"] ]_client
    <2> SUFFICES ASSUME Inv, SeenInv, [Next]_vars
                 PROVE  /\ Inv' /\ SeenInv'
                        /\ \/ late
                           \/ \A c \in Client :
                                \/ client'[c].value["SystemIds"] = 0
                                \/ client'[c].value["SystemIds"] >= client[c].value["SystemIds"]
                           \/ client' = client
      OBVIOUS
    <2>1. Inv'
      BY InvStep
    <2>2. ASSUME UNCHANGED client, SeenInv'
          PROVE  /\ Inv' /\ SeenInv' /\ client' = client
      BY <2>1, <2>2
    <2>3. CASE SystemManager
      <3>1. UNCHANGED client
        BY Zenon, <2>3 DEF SystemManager, TuneReady, NewId, IdError, NewRoute, DiagFile, TimeZone,
                           DstOffset, PrefixFile, Publish, MayChange
      <3> QED
        BY <2>1, <2>2, <2>3, <3>1, ManagerSeen
    <2>4. CASE SysEventHandler
      BY <2>1, <2>4, HandlerSeen DEF SysEventHandler
    <2>5. CASE MainThread
      <3>1. UNCHANGED client
        BY Zenon, <2>5 DEF MainThread, Register, Call, AssignId, AssignTz, AssignDst, AssignTune, Urls,
                           WaitTuneReady, WaitPrefixFile, WaitPrefix, Serve, Cvp, Fail, At
      <3> QED
        BY <2>1, <2>5, <3>1, MainSeen
    <2>6. ASSUME NEW c \in Client, Read(c) \/ Deliver(c)
          PROVE  SeenInv' /\ (~late => \A d \in Client : After(Id(client[d].value), Id(client'[d].value)))
      BY <2>1, <2>6, ReadSeen, DeliverSeen
    <2>7. ASSUME NEW c \in Client, Subscribe(c)
          PROVE  SeenInv' /\ \A d \in Client : After(Id(client[d].value), Id(client'[d].value))
      <3>1. SeenInv' /\ \A d \in Client : Id(client'[d].value) = Id(client[d].value)
        BY <2>1, <2>7, SubscribeSeen
      <3>2. \A d \in Client : After(Id(client[d].value), Id(client[d].value))
        BY SeenFact DEF SeenInv, After
      <3> QED
        BY <3>1, <3>2
    <2>8. ASSUME UNCHANGED vars PROVE SeenInv' /\ UNCHANGED client
      <3>1. UNCHANGED <<devConf, sys, changes, late, bus, main, param, lib, copy, client, wire>>
        BY Zenon, <2>8 DEF vars, history
      <3>2. SystemIds(lib)' = SystemIds(lib)
        BY <3>1 DEF SystemIds
      <3> QED
        BY <3>1, <3>2 DEF SeenInv, SeenTyped, Requests, Ordered, Seen, BusInOrder, Newer
    <2>9. \A c \in Client : After(Id(client[c].value), Id(client'[c].value)) =>
             \/ client'[c].value["SystemIds"] = 0
             \/ client'[c].value["SystemIds"] >= client[c].value["SystemIds"]
      BY DEF After, Id
    <2> QED
      BY <2>1, <2>3, <2>4, <2>5, <2>6, <2>7, <2>8, <2>9 DEF Next
  <1> QED
    BY <1>1, <1>2, PTL DEF Spec, NeverOlder
=============================================================================
