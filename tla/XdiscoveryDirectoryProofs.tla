----------------------- MODULE XdiscoveryDirectoryProofs -----------------------
(***************************************************************************)
(* Proofs about Xdiscovery for every set of devices and every bound.       *)
(*                                                                         *)
(* In every build: the types, the sorted list without duplicates, and that *)
(* deviceAddNo counts every addition in progress.                          *)
(*                                                                         *)
(* In every build without CLIENT_XCAL_SERVER: xdiscovery implements the    *)
(* directory of Directory, for any nesting of callbacks and failures; the  *)
(* count of additions is exact; and a reader on the IARM bus gets the text *)
(* that is published, for any lengths of the texts and any number of events*)
(* on their way.  In these builds verify_devices runs no callback, so that *)
(* no lookup is cut short, no entry is removed twice, and nothing comes    *)
(* between a change of the list and its publication but steps of the       *)
(* activation that made it.                                                *)
(***************************************************************************)
EXTENDS XdiscoveryDirectory, XdiscoveryIarm, ListTheorems, FiniteSetTheorems

-----------------------------------------------------------------------------
(* Facts about the stacks of activations. *)

Stacks == [Thread -> Seq(Frame)]

\* Push adds one activation on top of a stack and changes nothing below it.
LEMMA PushFact ==
    ASSUME stack \in Stacks, NEW t \in Thread, NEW f \in Frame, Push(t, f)
    PROVE  /\ stack' \in Stacks
           /\ Len(stack'[t]) = Len(stack[t]) + 1
           /\ stack'[t][Len(stack[t]) + 1] = f
           /\ \A i \in 1..Len(stack[t]) : stack'[t][i] = stack[t][i]
           /\ \A u \in Thread \ {t} : stack'[u] = stack[u]
  BY DEF Stacks, Push

\* Pop takes the top activation off a stack that has one.
LEMMA PopFact ==
    ASSUME stack \in Stacks, NEW t \in Thread, Busy(t), Pop(t)
    PROVE  /\ stack' \in Stacks
           /\ Len(stack'[t]) = Len(stack[t]) - 1
           /\ \A i \in 1..(Len(stack[t]) - 1) : stack'[t][i] = stack[t][i]
           /\ \A u \in Thread \ {t} : stack'[u] = stack[u]
  <1>1. Len(stack[t]) \in Nat /\ Len(stack[t]) > 0
    BY DEF Stacks, Busy
  <1>2. stack'[t] = SubSeq(stack[t], 1, Len(stack[t]) - 1)
    BY DEF Stacks, Pop
  <1>3. /\ stack'[t] \in Seq(Frame)
        /\ Len(stack'[t]) = Len(stack[t]) - 1
        /\ \A i \in 1..(Len(stack[t]) - 1) : stack'[t][i] = stack[t][i]
    <2>1. \A i \in 1..(Len(stack[t]) - 1) : stack[t][i] \in Frame
      BY <1>1 DEF Stacks
    <2> QED BY <1>1, <1>2, <2>1, SubSeqProperties
  <1>4. \A u \in Thread \ {t} : stack'[u] = stack[u]
    BY DEF Stacks, Pop
  <1>5. stack' \in Stacks
    BY <1>3 DEF Stacks, Pop
  <1> QED BY <1>3, <1>4, <1>5

\* Goto replaces the top activation.
LEMMA GotoFact ==
    ASSUME stack \in Stacks, NEW t \in Thread, Busy(t), NEW f \in Frame, Goto(t, f)
    PROVE  /\ stack' \in Stacks
           /\ Len(stack'[t]) = Len(stack[t])
           /\ stack'[t][Len(stack[t])] = f
           /\ \A i \in 1..(Len(stack[t]) - 1) : stack'[t][i] = stack[t][i]
           /\ \A u \in Thread \ {t} : stack'[u] = stack[u]
  <1>1. Len(stack[t]) \in Nat /\ Len(stack[t]) > 0
    BY DEF Stacks, Busy
  <1>2. stack'[t] = [stack[t] EXCEPT ![Len(stack[t])] = f]
    BY DEF Stacks, Goto
  <1>3. /\ stack'[t] \in Seq(Frame)
        /\ Len(stack'[t]) = Len(stack[t])
        /\ stack'[t][Len(stack[t])] = f
        /\ \A i \in 1..(Len(stack[t]) - 1) : stack'[t][i] = stack[t][i]
    BY <1>1, <1>2 DEF Stacks
  <1>4. \A u \in Thread \ {t} : stack'[u] = stack[u]
    BY DEF Stacks, Goto
  <1>5. stack' \in Stacks
    BY <1>3 DEF Stacks, Goto
  <1> QED BY <1>3, <1>4, <1>5

\* The top of a stack that has one is an activation.
LEMMA TopFact ==
    ASSUME stack \in Stacks, NEW t \in Thread, Busy(t)
    PROVE  /\ Len(stack[t]) \in Nat \ {0}
           /\ Top(t) \in Frame
           /\ Top(t) = stack[t][Len(stack[t])]
  BY DEF Stacks, Busy, Top

\* A new activation is one.
LEMMA NewFrameFact ==
    ASSUME NEW cb \in {"available", "refresh", "unavailable", "change"}, NEW c \in Cp,
           NEW d \in Dev, NEW v \in Val, NEW h \in SUBSET Dev,
           NEW pc \in {"prefix", "services", "delfind", "exists", "assign"}
    PROVE  NewFrame(cb, c, d, pc, v, h) \in Frame
  BY DEF NewFrame, Frame

\* A value chosen from Val is one of Val.
LEMMA AnyValFact == AnyVal \in Val
  BY DevAssumption DEF AnyVal

-----------------------------------------------------------------------------
(* The inductive invariant. *)

Request == {"prefix", "services"}

\* Only an activation that waits for an answer has others above it, only the
\* available callbacks wait for one, and verify_devices runs no other callback
\* than the unavailable ones.
StackInv ==
    /\ \A i \in 1..(Len(stack["main"]) - 1) : stack["main"][i].pc \in Request
    /\ \A i \in 1..Len(stack["main"]) :
          stack["main"][i].pc \in Request => stack["main"][i].cb \in Adding
    /\ \A i \in 1..Len(stack["verify"]) : stack["verify"][i].cb = "unavailable"

\* All activations of the main thread, except perhaps the newest, are counted.
Counted ==
    IF Busy("main") /\ Top("main").cb \notin Adding
      THEN Len(stack["main"]) - 1 ELSE Len(stack["main"])

CountInv == Counted <= deviceAddNo

\* What is about to be inserted is not in the list.
FreshInv == At("main", "insert") => Top("main").dev \notin Listed

-----------------------------------------------------------------------------
(* What the steps of the callbacks do to the stacks and to the count. *)

Stk == stack \in Stacks /\ StackInv /\ CountInv /\ deviceAddNo \in Nat

\* TypeOK without the stacks and the count.
RestOK ==
    /\ up \subseteq Dev
    /\ cache \in [Cp -> SUBSET Dev]
    /\ subscribed \subseteq Dev
    /\ events \in Nat
    /\ xdevlist \in Seq(Entry)
    /\ outputcontents \subseteq Entry
    /\ partialDiscovery \in BOOLEAN
    /\ gatewayDetected \in Nat
    /\ selfDeviceDiscovered \in BOOLEAN
    /\ selfDiscoveryFailCount \in Nat
    /\ restartFile \in BOOLEAN
    /\ browserDisableEnableCounter \in Nat
    /\ vpc \in {"check", "flush", "activate", "rescan"}
    /\ torn \in BOOLEAN

\* A callback dispatched on the main loop starts above activations that wait.
LEMMA PushKeeps ==
    ASSUME Stk, CanDispatch, NEW f \in Frame,
           f.pc \in Request => f.cb \in Adding,
           Push("main", f),
           deviceAddNo' = IF f.cb \in Adding THEN deviceAddNo + 1 ELSE deviceAddNo
    PROVE  Stk'
  <1> DEFINE n == Len(stack["main"])
  <1>1. "main" \in Thread /\ "verify" \in Thread \ {"main"}
    BY DEF Thread
  <1>2. n \in Nat
    BY <1>1 DEF Stk, Stacks
  <1>3. /\ stack' \in Stacks
        /\ Len(stack'["main"]) = n + 1
        /\ stack'["main"][n + 1] = f
        /\ \A i \in 1..n : stack'["main"][i] = stack["main"][i]
        /\ stack'["verify"] = stack["verify"]
    BY <1>1, PushFact DEF Stk
  <1>4. n # 0 => stack["main"][n].pc \in Request /\ stack["main"][n].cb \in Adding
    <2>1. n # 0 => Busy("main") /\ n \in 1..n
      BY <1>1, <1>2 DEF Busy, Stk, Stacks
    <2> QED BY <2>1 DEF CanDispatch, Top, Request, Stk, StackInv
  <1>5. \A i \in 1..n : stack["main"][i].pc \in Request
    <2>1. \A i \in 1..n : i \in 1..(n - 1) \/ i = n
      BY <1>2
    <2> QED BY <1>2, <1>4, <2>1 DEF Stk, StackInv
  <1>6. Counted = n
    BY <1>2, <1>4 DEF Counted, Busy, Top
  <1>7. StackInv'
    <2>1. \A i \in 1..(Len(stack'["main"]) - 1) : stack'["main"][i].pc \in Request
      BY <1>2, <1>3, <1>5
    <2>2. \A i \in 1..Len(stack'["main"]) :
             stack'["main"][i].pc \in Request => stack'["main"][i].cb \in Adding
      <3>1. \A i \in 1..(n + 1) : i \in 1..n \/ i = n + 1
        BY <1>2
      <3> QED BY <1>3, <3>1 DEF Stk, StackInv
    <2> QED BY <1>3, <2>1, <2>2 DEF Stk, StackInv
  <1>8. Counted' = IF f.cb \in Adding THEN n + 1 ELSE n
    <2>1. Busy("main")' /\ Top("main")' = f
      BY <1>2, <1>3 DEF Busy, Top
    <2> QED BY <1>2, <1>3, <2>1 DEF Counted
  <1>9. CountInv'
    BY <1>2, <1>6, <1>8 DEF CountInv, Stk
  <1> QED BY <1>3, <1>7, <1>9 DEF Stk

\* verify_devices starts an unavailable callback.
LEMMA PushVerifyKeeps ==
    ASSUME Stk, NEW f \in Frame, f.cb = "unavailable", Push("verify", f),
           UNCHANGED deviceAddNo
    PROVE  Stk'
  <1> DEFINE n == Len(stack["verify"])
  <1>1. "verify" \in Thread /\ "main" \in Thread \ {"verify"}
    BY DEF Thread
  <1>2. n \in Nat
    BY <1>1 DEF Stk, Stacks
  <1>3. /\ stack' \in Stacks
        /\ Len(stack'["verify"]) = n + 1
        /\ stack'["verify"][n + 1] = f
        /\ \A i \in 1..n : stack'["verify"][i] = stack["verify"][i]
        /\ stack'["main"] = stack["main"]
    BY <1>1, PushFact DEF Stk
  <1>4. \A i \in 1..Len(stack'["verify"]) : stack'["verify"][i].cb = "unavailable"
    <2>1. \A i \in 1..(n + 1) : i \in 1..n \/ i = n + 1
      BY <1>2
    <2> QED BY <1>3, <2>1 DEF Stk, StackInv
  <1>5. StackInv' /\ CountInv'
    BY <1>3, <1>4 DEF Stk, StackInv, CountInv, Counted, Busy, Top
  <1> QED BY <1>3, <1>5 DEF Stk

\* A callback ends; its caller waits for an answer, so it is counted.
LEMMA PopKeeps ==
    ASSUME Stk, NEW t \in Thread, Busy(t), Pop(t), deviceAddNo' \in Nat,
           deviceAddNo' >= IF t = "main" /\ Top("main").cb \in Adding
                             THEN deviceAddNo - 1 ELSE deviceAddNo
    PROVE  Stk'
  <1> DEFINE n == Len(stack[t])
  <1>1. n \in Nat \ {0} /\ "main" \in Thread /\ "verify" \in Thread
    BY TopFact DEF Stk, Thread
  <1>2. /\ stack' \in Stacks
        /\ Len(stack'[t]) = n - 1
        /\ \A i \in 1..(n - 1) : stack'[t][i] = stack[t][i]
        /\ \A u \in Thread \ {t} : stack'[u] = stack[u]
    BY PopFact DEF Stk
  <1>3. CASE t = "main"
    <2>1. StackInv'
      <3>1. stack'["verify"] = stack["verify"]
        BY <1>1, <1>2, <1>3
      <3>2. \A i \in 1..(n - 1) : i \in 1..n
        BY <1>1
      <3>3. \A i \in 1..(n - 1 - 1) : i \in 1..(n - 1)
        BY <1>1
      <3> QED BY <1>2, <1>3, <3>1, <3>2, <3>3 DEF StackInv, Stk
    <2>2. Counted' = n - 1
      <3>1. CASE n = 1
        BY <1>2, <1>3, <3>1 DEF Counted, Busy, Stacks
      <3>2. CASE n # 1
        <4>1. n - 1 \in 1..(n - 1) /\ n - 1 \in 1..n
          <5> HIDE DEF n
          <5>1. n \in Nat /\ n >= 2
            BY <1>1, <3>2
          <5> QED BY <5>1
        <4>2. stack'["main"][n - 1].cb \in Adding
          BY <1>2, <1>3, <4>1 DEF StackInv, Stk
        <4>3. Len(stack'["main"]) = n - 1 /\ Top("main")' = stack'["main"][n - 1]
          BY <1>2, <1>3 DEF Top
        <4> QED BY <4>2, <4>3 DEF Counted
      <3> QED BY <3>1, <3>2
    <2>3. Counted = IF Top("main").cb \in Adding THEN n ELSE n - 1
      BY <1>3 DEF Counted
    <2>4. CountInv'
      BY <1>1, <1>3, <2>2, <2>3 DEF CountInv, Stk
    <2> QED BY <1>2, <2>1, <2>4 DEF Stk
  <1>4. CASE t = "verify"
    <2>1. stack'["main"] = stack["main"]
      BY <1>1, <1>2, <1>4
    <2>2. \A i \in 1..(n - 1) : i \in 1..n
      BY <1>1
    <2>3. StackInv'
      <3>1. \A i \in 1..Len(stack'["verify"]) : stack'["verify"][i].cb = "unavailable"
        <4>1. \A i \in 1..n : stack["verify"][i].cb = "unavailable"
          BY <1>4 DEF StackInv, Stk
        <4>2. /\ Len(stack'["verify"]) = n - 1
              /\ \A i \in 1..(n - 1) : stack'["verify"][i] = stack["verify"][i]
          BY <1>2, <1>4
        <4> QED BY <2>2, <4>1, <4>2
      <3> QED BY <2>1, <3>1 DEF StackInv, Stk
    <2>4. Counted' = Counted /\ Counted \in Int
      <3>1. Len(stack["main"]) \in Nat
        BY <1>1 DEF Stk, Stacks
      <3>2. Counted \in Int
        BY <3>1 DEF Counted
      <3>3. Counted' = Counted
        BY <2>1 DEF Counted, Busy, Top
      <3> QED BY <3>2, <3>3
    <2>5. CountInv'
      BY <1>4, <2>4 DEF CountInv, Stk
    <2> QED BY <1>2, <2>3, <2>5 DEF Stk
  <1> QED BY <1>3, <1>4 DEF Thread

\* ... and takes itself off the count if it was on it.
LEMMA ReturnKeeps ==
    ASSUME Stk, NEW t \in Thread, Busy(t), Return(t)
    PROVE  Stk'
  <1>1. Len(stack[t]) \in Nat \ {0} /\ Top(t) = stack[t][Len(stack[t])]
    BY TopFact DEF Stk
  <1>2. t = "verify" => Top(t).cb \notin Adding
    BY <1>1 DEF Stk, StackInv, Adding
  <1>3. t = "main" /\ Top(t).cb \in Adding => deviceAddNo >= 1
    BY <1>1 DEF Stk, CountInv, Counted
  <1>4. /\ deviceAddNo' \in Nat
        /\ deviceAddNo' >= IF t = "main" /\ Top("main").cb \in Adding
                             THEN deviceAddNo - 1 ELSE deviceAddNo
    BY <1>2, <1>3 DEF Return, Stk, Thread
  <1> QED BY <1>4, PopKeeps DEF Return

\* A callback moves on, and waits no longer.
LEMMA GotoKeeps ==
    ASSUME Stk, NEW t \in Thread, Busy(t), NEW f \in Frame, f.cb = Top(t).cb,
           f.pc \notin Request, Goto(t, f), UNCHANGED deviceAddNo
    PROVE  Stk'
  <1> DEFINE n == Len(stack[t])
  <1>1. n \in Nat \ {0} /\ "main" \in Thread /\ "verify" \in Thread
        /\ Top(t) = stack[t][n]
    BY TopFact DEF Stk, Thread
  <1>2. /\ stack' \in Stacks
        /\ Len(stack'[t]) = n
        /\ stack'[t][n] = f
        /\ \A i \in 1..(n - 1) : stack'[t][i] = stack[t][i]
        /\ \A u \in Thread \ {t} : stack'[u] = stack[u]
    BY GotoFact DEF Stk
  <1>3. \A i \in 1..n : i \in 1..(n - 1) \/ i = n
    BY <1>1
  <1>4. CASE t = "main"
    <2>1. stack'["verify"] = stack["verify"]
      BY <1>1, <1>2, <1>4
    <2>2. StackInv'
      BY <1>2, <1>3, <1>4, <2>1 DEF StackInv, Stk
    <2>3. Counted' = Counted
      BY <1>1, <1>2, <1>4 DEF Counted, Busy, Top
    <2> QED BY <1>2, <2>2, <2>3 DEF CountInv, Stk
  <1>5. CASE t = "verify"
    <2>1. stack'["main"] = stack["main"]
      BY <1>1, <1>2, <1>5
    <2>2. n \in 1..n
      BY <1>1
    <2>3. StackInv'
      <3>1. \A i \in 1..n : stack'[t][i].cb = "unavailable"
        BY <1>1, <1>2, <1>3, <1>5, <2>2 DEF StackInv, Stk
      <3> QED BY <1>2, <1>5, <2>1, <3>1 DEF StackInv, Stk
    <2>4. Counted' = Counted
      BY <2>1 DEF Counted, Busy, Top
    <2> QED BY <1>2, <2>3, <2>4 DEF CountInv, Stk
  <1> QED BY <1>4, <1>5 DEF Thread

\* Marking freed pointers changes no activation otherwise.
LEMMA MarkFreedFact ==
    ASSUME NEW fs \in Seq(Frame), NEW d \in Dev
    PROVE  /\ MarkFreed(fs, d) \in Seq(Frame)
           /\ Len(MarkFreed(fs, d)) = Len(fs)
           /\ \A i \in 1..Len(fs) :
                 /\ MarkFreed(fs, d)[i].pc = fs[i].pc
                 /\ MarkFreed(fs, d)[i].cb = fs[i].cb
                 /\ MarkFreed(fs, d)[i].dev = fs[i].dev
                 /\ MarkFreed(fs, d)[i].freed \in SUBSET (fs[i].freed \cup {d})
  <1> DEFINE g(i) == IF d \in fs[i].held THEN [fs[i] EXCEPT !.freed = @ \cup {d}] ELSE fs[i]
  <1>1. \A i \in 1..Len(fs) : fs[i] \in Frame
    OBVIOUS
  <1>2. \A f \in Frame : /\ [f EXCEPT !.freed = @ \cup {d}] \in Frame
                         /\ [f EXCEPT !.freed = @ \cup {d}].pc = f.pc
                         /\ [f EXCEPT !.freed = @ \cup {d}].cb = f.cb
                         /\ [f EXCEPT !.freed = @ \cup {d}].dev = f.dev
                         /\ [f EXCEPT !.freed = @ \cup {d}].freed = f.freed \cup {d}
    BY DEF Frame
  <1>3. \A i \in 1..Len(fs) : /\ g(i) \in Frame
                              /\ g(i).pc = fs[i].pc
                              /\ g(i).cb = fs[i].cb
                              /\ g(i).dev = fs[i].dev
                              /\ g(i).freed \in SUBSET (fs[i].freed \cup {d})
    BY <1>1, <1>2
  <1> HIDE DEF g
  <1>4. DOMAIN fs = 1..Len(fs) /\ Len(fs) \in Nat
    OBVIOUS
  <1>5. MarkFreed(fs, d) = [i \in 1..Len(fs) |-> g(i)]
    BY <1>4 DEF MarkFreed, g
  <1>6. [i \in 1..Len(fs) |-> g(i)] \in Seq(Frame)
    BY <1>3, <1>4
  <1>7. Len([i \in 1..Len(fs) |-> g(i)]) = Len(fs)
    BY <1>4
  <1> QED BY <1>3, <1>5, <1>6, <1>7

\* The newest activation of t is g; of the others only the marks of d changed.
OthersMarked(t, g, d) ==
    /\ stack' \in Stacks
    /\ Len(stack'[t]) = Len(stack[t])
    /\ stack'[t][Len(stack[t])] = g
    /\ \A i \in 1..(Len(stack[t]) - 1) :
          stack'[t][i].pc = stack[t][i].pc /\ stack'[t][i].cb = stack[t][i].cb
    /\ \A u \in Thread \ {t} :
          /\ Len(stack'[u]) = Len(stack[u])
          /\ \A i \in 1..Len(stack[u]) :
                /\ stack'[u][i].pc = stack[u][i].pc
                /\ stack'[u][i].cb = stack[u][i].cb
                /\ stack'[u][i].dev = stack[u][i].dev
                /\ stack'[u][i].freed \in SUBSET (stack[u][i].freed \cup {d})

TakenOff(d) ==
    \E k \in DOMAIN xdevlist :
        /\ IndexOf(d, k)
        /\ xdevlist' = SubSeq(xdevlist, 1, k - 1) \o SubSeq(xdevlist, k + 1, Len(xdevlist))

\* The activation that delete_gwyitem returns to.
LEMMA DeletedFact ==
    ASSUME Stk, NEW t \in Thread, Busy(t)
    PROVE  /\ Deleted(t) \in Frame
           /\ Deleted(t).cb = Top(t).cb /\ Deleted(t).dev = Top(t).dev
           /\ Deleted(t).pc \in {"insert", "copy"} /\ Deleted(t).freed = {}
  <1>1. Top(t) \in Frame
    BY TopFact DEF Stk
  <1> QED BY <1>1 DEF Frame, Deleted

\* Unlinking an entry changes the newest activation of its thread and marks the
\* pointers of the others.
LEMMA UnlinkStack ==
    ASSUME Stk, RestOK, NEW t \in Thread, Busy(t), NEW k \in DOMAIN xdevlist, Unlink(t, k)
    PROVE  OthersMarked(t, Deleted(t), xdevlist[k].sno)
  <1> DEFINE n == Len(stack[t])
             d == xdevlist[k].sno
             g == Deleted(t)
             low == SubSeq(stack[t], 1, n - 1)
             mlow == MarkFreed(low, d)
  <1>1. n \in Nat \ {0} /\ stack \in Stacks
    BY TopFact DEF Stk
  <1>2. g \in Frame /\ d \in Dev
    <2>1. xdevlist[k] \in Entry
      BY DEF RestOK
    <2> QED BY <2>1, DeletedFact DEF Entry
  <1>3. stack' = [u \in Thread |-> IF u = t THEN Append(mlow, g) ELSE MarkFreed(stack[u], d)]
    BY DEF Unlink
  <1>4. /\ low \in Seq(Frame)
        /\ Len(low) = n - 1
        /\ \A i \in 1..(n - 1) : low[i] = stack[t][i]
    <2>1. n - 1 \in Nat /\ n - 1 <= Len(stack[t])
      BY <1>1
    <2>2. stack[t] \in Seq(Frame)
      BY <1>1 DEF Stacks
    <2> QED BY <2>1, <2>2, PrefixFact
  <1> HIDE DEF low
  <1>5. /\ mlow \in Seq(Frame)
        /\ Len(mlow) = n - 1
        /\ \A i \in 1..(n - 1) : mlow[i].pc = low[i].pc /\ mlow[i].cb = low[i].cb
    BY <1>2, <1>4, MarkFreedFact
  <1> HIDE DEF mlow, g, d
  <1>6. /\ Append(mlow, g) \in Seq(Frame)
        /\ Len(Append(mlow, g)) = n
        /\ Append(mlow, g)[n] = g
        /\ \A i \in 1..(n - 1) : Append(mlow, g)[i] = mlow[i]
    BY <1>1, <1>2, <1>5
  <1>7. \A u \in Thread \ {t} :
           /\ stack'[u] = MarkFreed(stack[u], d)
           /\ MarkFreed(stack[u], d) \in Seq(Frame)
           /\ Len(stack'[u]) = Len(stack[u])
           /\ \A i \in 1..Len(stack[u]) :
                 /\ stack'[u][i].pc = stack[u][i].pc
                 /\ stack'[u][i].cb = stack[u][i].cb
                 /\ stack'[u][i].dev = stack[u][i].dev
                 /\ stack'[u][i].freed \in SUBSET (stack[u][i].freed \cup {d})
    <2>1. \A u \in Thread : stack[u] \in Seq(Frame)
      BY <1>1 DEF Stacks
    <2> TAKE u \in Thread \ {t}
    <2>2. stack'[u] = MarkFreed(stack[u], d) /\ stack[u] \in Seq(Frame)
      BY <1>3, <2>1
    <2>3. d \in Dev
      BY <1>2
    <2>4. /\ MarkFreed(stack[u], d) \in Seq(Frame)
          /\ Len(MarkFreed(stack[u], d)) = Len(stack[u])
          /\ \A i \in 1..Len(stack[u]) :
               /\ MarkFreed(stack[u], d)[i].pc = stack[u][i].pc
               /\ MarkFreed(stack[u], d)[i].cb = stack[u][i].cb
               /\ MarkFreed(stack[u], d)[i].dev = stack[u][i].dev
               /\ MarkFreed(stack[u], d)[i].freed \in SUBSET (stack[u][i].freed \cup {d})
      BY <2>2, <2>3, MarkFreedFact
    <2> QED BY <2>2, <2>4
  <1>8. stack'[t] = Append(mlow, g)
    BY <1>3
  <1>9. stack' \in Stacks
    BY <1>3, <1>6, <1>7 DEF Stacks
  <1>10. /\ Len(stack'[t]) = n
        /\ stack'[t][n] = g
        /\ \A i \in 1..(n - 1) :
              stack'[t][i].pc = stack[t][i].pc /\ stack'[t][i].cb = stack[t][i].cb
    BY <1>4, <1>5, <1>6, <1>8
  <1>11. \A u \in Thread \ {t} :
           /\ Len(stack'[u]) = Len(stack[u])
           /\ \A i \in 1..Len(stack[u]) :
                 /\ stack'[u][i].pc = stack[u][i].pc
                 /\ stack'[u][i].cb = stack[u][i].cb
                 /\ stack'[u][i].dev = stack[u][i].dev
                 /\ stack'[u][i].freed \in SUBSET (stack[u][i].freed \cup {d})
    BY <1>7
  <1> QED BY <1>9, <1>10, <1>11 DEF g, d, OthersMarked

\* delete_gwyitem takes the entry that it has found off the list.
LEMMA RemoveStack ==
    ASSUME Stk, RestOK, NEW t \in Thread, Remove(t)
    PROVE  /\ Busy(t) /\ Deleted(t) \in Frame
           /\ Deleted(t).cb = Top(t).cb /\ Deleted(t).dev = Top(t).dev
           /\ Deleted(t).pc \in {"insert", "copy"} /\ Deleted(t).freed = {}
           /\ OthersMarked(t, Deleted(t), Top(t).dev) /\ TakenOff(Top(t).dev)
  <1>1. Busy(t)
    BY DEF Remove, At
  <1>2. PICK k \in DOMAIN xdevlist : IndexOf(Top(t).dev, k) /\ Unlink(t, k)
    BY DEF Remove
  <1>3. OthersMarked(t, Deleted(t), Top(t).dev)
    BY <1>1, <1>2, UnlinkStack DEF IndexOf
  <1>4. TakenOff(Top(t).dev)
    BY <1>2 DEF TakenOff, Unlink
  <1> QED BY <1>1, <1>3, <1>4, DeletedFact

\* The return of delete_gwyitem keeps the stack part, whichever entry it unlinked.
LEMMA DeletedKeeps ==
    ASSUME Stk, NEW t \in Thread, Busy(t), NEW d, UNCHANGED deviceAddNo,
           Goto(t, Deleted(t)) \/ OthersMarked(t, Deleted(t), d)
    PROVE  Stk'
  <1> DEFINE n == Len(stack[t])
             g == Deleted(t)
  <1>1. /\ Busy(t) /\ g \in Frame
        /\ g.cb = Top(t).cb
        /\ g.pc \in {"insert", "copy"}
        /\ Goto(t, g) \/ OthersMarked(t, g, d)
    BY DeletedFact
  <1> HIDE DEF g
  <1>2. UNCHANGED deviceAddNo
    OBVIOUS
  <1>3. g.pc \notin Request
    BY <1>1 DEF Request
  <1>4. CASE Goto(t, g)
    BY <1>1, <1>2, <1>3, <1>4, GotoKeeps
  <1>5. CASE ~Goto(t, g)
    <2>1. /\ n \in Nat \ {0} /\ Top(t) = stack[t][n]
          /\ "main" \in Thread /\ "verify" \in Thread
          /\ Len(stack["main"]) \in Nat
      BY <1>1, TopFact DEF Stk, Thread, Stacks
    <2>2. \A i \in 1..n : i \in 1..(n - 1) \/ i = n
      BY <2>1
    <2>3. n \in 1..n
      BY <2>1
    <2>4. /\ stack' \in Stacks
          /\ \A u \in Thread : Len(stack'[u]) = Len(stack[u])
          /\ \A u \in Thread : \A i \in 1..Len(stack[u]) : stack'[u][i].cb = stack[u][i].cb
      <3>1. OthersMarked(t, g, d)
        BY <1>1, <1>5
      <3>2. \A i \in 1..n : stack'[t][i].cb = stack[t][i].cb
        <4>1. stack'[t][n].cb = stack[t][n].cb
          BY <1>1, <2>1, <3>1 DEF OthersMarked
        <4>2. \A i \in 1..(n - 1) : stack'[t][i].cb = stack[t][i].cb
          BY <3>1 DEF OthersMarked
        <4> QED BY <2>2, <4>1, <4>2, Zenon
      <3>3. \A u \in Thread \ {t} : \A i \in 1..Len(stack[u]) : stack'[u][i].cb = stack[u][i].cb
        BY <3>1 DEF OthersMarked
      <3>4. \A u \in Thread : Len(stack'[u]) = Len(stack[u])
        BY <3>1 DEF OthersMarked
      <3>5. stack' \in Stacks
        BY <3>1 DEF OthersMarked
      <3> QED BY <3>2, <3>3, <3>4, <3>5
    <2>5. \A u \in Thread : \A i \in 1..Len(stack[u]) :
             \/ stack'[u][i].pc = stack[u][i].pc
             \/ u = t /\ i = n /\ stack'[u][i].pc \notin Request
      BY <1>1, <1>3, <1>5, <2>2 DEF OthersMarked
    <2> DEFINE m == Len(stack["main"])
    <2>6. \A i \in 1..(m - 1) : i \in 1..m /\ i # m
      BY <2>1
    <2>7. StackInv'
      <3>1. \A i \in 1..(Len(stack'["main"]) - 1) : stack'["main"][i].pc \in Request
        <4>1. \A i \in 1..m : i # m => stack'["main"][i].pc = stack["main"][i].pc
          BY <2>1, <2>5
        <4>2. Len(stack'["main"]) = m
          BY <2>1, <2>4
        <4>3. \A i \in 1..(m - 1) : stack["main"][i].pc \in Request
          BY DEF Stk, StackInv
        <4> QED BY <2>6, <4>1, <4>2, <4>3
      <3>2. \A i \in 1..Len(stack'["main"]) :
               stack'["main"][i].pc \in Request => stack'["main"][i].cb \in Adding
        BY <2>1, <2>4, <2>5 DEF Stk, StackInv
      <3>3. \A i \in 1..Len(stack'["verify"]) : stack'["verify"][i].cb = "unavailable"
        BY <2>1, <2>4 DEF Stk, StackInv
      <3> QED BY <3>1, <3>2, <3>3 DEF StackInv
    <2>8. Counted' = Counted
      <3>1. Len(stack'["main"]) = m
        BY <2>1, <2>4
      <3>2. CASE m = 0
        <4>1. ~Busy("main") /\ ~Busy("main")'
          <5>1. stack["main"] \in Seq(Frame) /\ stack'["main"] \in Seq(Frame)
            BY <2>1, <2>4 DEF Stk, Stacks
          <5> QED BY <3>1, <3>2, <5>1 DEF Busy
        <4> QED BY <3>1, <4>1 DEF Counted
      <3>3. CASE m # 0
        <4>1. Busy("main") /\ Busy("main")' /\ m \in 1..m
          BY <2>1, <3>1, <3>3 DEF Busy
        <4>2. Top("main")'.cb = Top("main").cb
          BY <2>1, <2>4, <3>1, <4>1 DEF Top
        <4> QED BY <3>1, <4>1, <4>2 DEF Counted
      <3> QED BY <3>2, <3>3
    <2> QED BY <1>2, <2>4, <2>7, <2>8 DEF Stk, CountInv
  <1> QED BY <1>4, <1>5

-----------------------------------------------------------------------------
(* Types, stacks and the count are kept by every step. *)

\* The two parts of the inductive invariant give the type invariant.
LEMMA SplitTypes == Stk /\ RestOK => TypeOK
  BY DEF Stk, RestOK, TypeOK, Stacks

\* A step that leaves the stacks and the counter alone keeps the stack part.
LEMMA SameKeeps ==
    ASSUME Stk, UNCHANGED <<stack, deviceAddNo>>
    PROVE  Stk'
  BY DEF Stk, StackInv, CountInv, Counted, Busy, Top

\* The places an activation may be at.
Place == {"prefix", "services", "find", "delfind", "remove", "insert",
          "exists", "probe", "assign", "copy", "build", "publish"}

\* The activation after a step is one.
LEMMA PcFact ==
    ASSUME NEW f \in Frame, NEW pc \in Place
    PROVE  /\ [f EXCEPT !.pc = pc] \in Frame
           /\ [f EXCEPT !.pc = pc].cb = f.cb
           /\ [f EXCEPT !.pc = pc].dev = f.dev
           /\ [f EXCEPT !.pc = pc].pc = pc
  BY DEF Frame, Place

\* To moves the newest activation to a place where it does not wait.
LEMMA ToKeeps ==
    ASSUME Stk, NEW t \in Thread, Busy(t),
           NEW pc \in {"find", "delfind", "remove", "insert", "probe", "copy"}, To(t, pc),
           UNCHANGED deviceAddNo
    PROVE  Stk'
  <1>1. Top(t) \in Frame
    BY TopFact DEF Stk
  <1>2. pc \in Place
    BY DEF Place
  <1> DEFINE g == [Top(t) EXCEPT !.pc = pc]
  <1>3. g \in Frame /\ g.cb = Top(t).cb /\ g.pc = pc
    BY <1>1, <1>2, PcFact, Zenon
  <1>4. pc \notin Request
    BY DEF Request
  <1>5. Goto(t, g)
    BY DEF To
  <1> HIDE DEF g
  <1> QED BY <1>3, <1>4, <1>5, GotoKeeps

\* A lookup may only find out that the list is torn.
LEMMA LookupFact ==
    ASSUME NEW t, NEW d, NEW found, Lookup(t, d, found)
    PROVE  torn' = torn \/ torn' = TRUE
  BY Zenon DEF Lookup

\* One lemma per action: the stacks, the count and the types are kept.

\* Available keeps the stack typed and counted, and the other variables typed.
LEMMA AvailableKeeps ==
    ASSUME Stk, RestOK, NEW c \in Cp, NEW d \in Dev, Available(c, d)
    PROVE  Stk' /\ RestOK'
  <1>1. RestOK'
    <2>1. /\ events' = events + 1
          /\ cache' = [cache EXCEPT ![c] = @ \cup {d}]
          /\ UNCHANGED <<up, subscribed, xdevlist, outputcontents, partialDiscovery,
                         gatewayDetected, selfDeviceDiscovered, watch>>
      BY DEF Available
    <2>2. events' \in Nat /\ cache' \in [Cp -> SUBSET Dev]
      BY <2>1 DEF RestOK
    <2>3. torn' \in BOOLEAN
      BY LookupFact DEF Available, RestOK
    <2> QED BY <2>1, <2>2, <2>3 DEF RestOK, vvars, watch
  <1>2. AnyVal \in Val /\ {d} \in SUBSET Dev /\ {} \in SUBSET Dev
    BY AnyValFact
  <1>3. Stk'
    <2>1. CASE UNCHANGED <<stack, deviceAddNo>>
      BY <2>1, SameKeeps
    <2>2. CASE /\ Push("main", NewFrame("refresh", c, d, "prefix", AnyVal, {d}))
               /\ deviceAddNo' = deviceAddNo + 1
      <3> DEFINE f == NewFrame("refresh", c, d, "prefix", AnyVal, {d})
      <3>1. f \in Frame /\ f.cb \in Adding
        BY <1>2, NewFrameFact DEF NewFrame, Adding
      <3> HIDE DEF f
      <3>2. CanDispatch /\ Push("main", f) /\ deviceAddNo' = deviceAddNo + 1
        BY <2>2 DEF Available, f
      <3>3. deviceAddNo' = IF f.cb \in Adding THEN deviceAddNo + 1 ELSE deviceAddNo
        BY <3>1, <3>2
      <3>4. f.pc \in Request => f.cb \in Adding
        BY <3>1
      <3> QED BY <3>1, <3>2, <3>3, <3>4, PushKeeps, Zenon
    <2>3. CASE /\ Push("main", NewFrame("available", c, d, "services", AnyVal, {}))
               /\ deviceAddNo' = deviceAddNo + 1
      <3> DEFINE f == NewFrame("available", c, d, "services", AnyVal, {})
      <3>1. f \in Frame /\ f.cb \in Adding
        BY <1>2, NewFrameFact DEF NewFrame, Adding
      <3> HIDE DEF f
      <3>2. CanDispatch /\ Push("main", f) /\ deviceAddNo' = deviceAddNo + 1
        BY <2>3 DEF Available, f
      <3>3. deviceAddNo' = IF f.cb \in Adding THEN deviceAddNo + 1 ELSE deviceAddNo
        BY <3>1, <3>2
      <3>4. f.pc \in Request => f.cb \in Adding
        BY <3>1
      <3> QED BY <3>1, <3>2, <3>3, <3>4, PushKeeps, Zenon
    <2> QED BY <2>1, <2>2, <2>3 DEF Available
  <1> QED BY <1>1, <1>3

\* A new value in one element changes nothing else of the list.
LEMMA ListValFact ==
    ASSUME xdevlist \in Seq(Entry), NEW k \in DOMAIN xdevlist, NEW v \in Val
    PROVE  /\ [xdevlist EXCEPT ![k].val = v] \in Seq(Entry)
           /\ Len([xdevlist EXCEPT ![k].val = v]) = Len(xdevlist)
           /\ \A i \in 1..Len(xdevlist) :
                 [xdevlist EXCEPT ![k].val = v][i].sno = xdevlist[i].sno
  <1>1. \A i \in 1..Len(xdevlist) : xdevlist[i] \in Entry
    OBVIOUS
  <1>2. [xdevlist[k] EXCEPT !.val = v] \in Entry
        /\ [xdevlist[k] EXCEPT !.val = v].sno = xdevlist[k].sno
    BY <1>1 DEF Entry
  <1> DEFINE e == [xdevlist[k] EXCEPT !.val = v]
  <1>3. [xdevlist EXCEPT ![k].val = v] = [xdevlist EXCEPT ![k] = e]
    OBVIOUS
  <1> HIDE DEF e
  <1>4. /\ [xdevlist EXCEPT ![k] = e] \in Seq(Entry)
        /\ Len([xdevlist EXCEPT ![k] = e]) = Len(xdevlist)
        /\ \A i \in 1..Len(xdevlist) :
              [xdevlist EXCEPT ![k] = e][i] = IF i = k THEN e ELSE xdevlist[i]
    BY <1>2 DEF e
  <1> QED BY <1>2, <1>3, <1>4 DEF e

\* PrefixReply keeps the stack typed and counted, and the other variables typed.
LEMMA PrefixReplyKeeps ==
    ASSUME Stk, RestOK, PrefixReply
    PROVE  Stk' /\ RestOK'
  <1>1. Busy("main") /\ "main" \in Thread
    BY DEF PrefixReply, At, Thread
  <1>2. Return("main") \/ (Send("main") /\ UNCHANGED deviceAddNo)
    BY DEF PrefixReply
  <1>3. Stk'
    <2>1. CASE Return("main")
      BY <1>1, <2>1, ReturnKeeps
    <2>2. CASE Send("main") /\ UNCHANGED deviceAddNo
      BY <1>1, <2>2, ToKeeps DEF Send
    <2> QED BY <1>2, <2>1, <2>2
  <1>4. xdevlist' \in Seq(Entry)
    <2>1. \/ UNCHANGED xdevlist
          \/ \E v \in Val, k \in DOMAIN xdevlist :
                xdevlist' = [xdevlist EXCEPT ![k].val = v]
      BY DEF PrefixReply
    <2> QED BY <2>1, ListValFact DEF RestOK
  <1>5. RestOK'
    BY <1>4 DEF RestOK, PrefixReply, net, vvars, watch
  <1> QED BY <1>3, <1>5

\* ServicesFail keeps the stack typed and counted, and the other variables typed.
LEMMA ServicesFailKeeps ==
    ASSUME Stk, RestOK, ServicesFail
    PROVE  Stk' /\ RestOK'
  <1>1. Busy("main") /\ "main" \in Thread /\ Return("main")
    BY DEF ServicesFail, At, Thread
  <1>2. Stk'
    BY <1>1, ReturnKeeps
  <1>3. RestOK'
    BY DEF RestOK, ServicesFail, net, vvars, watch
  <1> QED BY <1>2, <1>3

\* ServicesReply keeps the stack typed and counted, and the other variables typed.
LEMMA ServicesReplyKeeps ==
    ASSUME Stk, RestOK, ServicesReply
    PROVE  Stk' /\ RestOK'
  <1>1. Busy("main") /\ "main" \in Thread /\ UNCHANGED deviceAddNo
    BY DEF ServicesReply, At, Thread, flags
  <1>2. Top("main") \in Frame
    BY <1>1, TopFact DEF Stk
  <1>3. PICK v \in Val : Goto("main", [Top("main") EXCEPT !.pc = "find", !.val = v])
    BY DEF ServicesReply
  <1> DEFINE g == [Top("main") EXCEPT !.pc = "find", !.val = v]
  <1>4. g \in Frame /\ g.cb = Top("main").cb /\ g.pc \notin Request
    BY <1>2 DEF Frame, Request
  <1>5. Goto("main", g)
    BY <1>3
  <1> HIDE DEF g
  <1>6. Stk'
    BY <1>1, <1>4, <1>5, GotoKeeps
  <1>7. RestOK'
    BY DEF RestOK, ServicesReply, net, vvars, watch, flags
  <1> QED BY <1>6, <1>7

\* UpdateFind keeps the stack typed and counted, and the other variables typed.
LEMMA UpdateFindKeeps ==
    ASSUME Stk, RestOK, UpdateFind
    PROVE  Stk' /\ RestOK'
  <1>1. Busy("main") /\ "main" \in Thread /\ UNCHANGED deviceAddNo
    BY DEF UpdateFind, At, Thread, flags
  <1>2. To("main", "delfind") \/ To("main", "insert")
    BY Zenon DEF UpdateFind
  <1>3. Stk'
    BY <1>1, <1>2, ToKeeps
  <1>4. torn' \in BOOLEAN
    BY LookupFact DEF UpdateFind, RestOK
  <1>5. RestOK'
    BY <1>4 DEF RestOK, UpdateFind, net, watch, flags
  <1> QED BY <1>3, <1>5

\* DeleteFind keeps the stack typed and counted, and the other variables typed.
LEMMA DeleteFindKeeps ==
    ASSUME Stk, RestOK, NEW t \in Thread, DeleteFind(t)
    PROVE  Stk' /\ RestOK'
  <1>1. Busy(t)
    BY DEF DeleteFind, At
  <1>2. Top(t) \in Frame
    BY <1>1, TopFact DEF Stk
  <1> DEFINE g == [Top(t) EXCEPT !.pc = "remove", !.held = {Top(t).dev}, !.freed = {}]
  <1>3. g \in Frame /\ g.cb = Top(t).cb /\ g.pc \notin Request
    BY <1>2 DEF Frame, Request
  <1>4. \/ Goto(t, g) /\ UNCHANGED deviceAddNo
        \/ Pop(t) /\ UNCHANGED deviceAddNo
        \/ Return(t)
    BY Zenon DEF DeleteFind
  <1> HIDE DEF g
  <1>5. Stk'
    <2>1. CASE Goto(t, g) /\ UNCHANGED deviceAddNo
      BY <1>1, <1>3, <2>1, GotoKeeps
    <2>2. CASE Pop(t) /\ UNCHANGED deviceAddNo
      <3>1. /\ deviceAddNo' \in Nat
            /\ deviceAddNo' >= IF t = "main" /\ Top("main").cb \in Adding
                                 THEN deviceAddNo - 1 ELSE deviceAddNo
        BY <2>2 DEF Stk
      <3> QED BY <1>1, <2>2, <3>1, PopKeeps, Zenon
    <2>3. CASE Return(t)
      BY <1>1, <2>3, ReturnKeeps
    <2> QED BY <1>4, <2>1, <2>2, <2>3
  <1>6. partialDiscovery' \in BOOLEAN /\ torn' \in BOOLEAN
    BY LookupFact DEF DeleteFind, RestOK
  <1>7. UNCHANGED <<net, xdevlist, outputcontents, gatewayDetected, selfDeviceDiscovered,
                    watch>>
    BY Zenon DEF DeleteFind
  <1>8. RestOK'
    BY <1>6, <1>7 DEF RestOK, net, watch
  <1> QED BY <1>5, <1>8

\* However many updates of gatewayDetected are lost, at most n are applied.
LEMMA AppliedFact ==
    ASSUME NEW t \in Thread, NEW n \in Nat, NEW k \in Applied(t, n)
    PROVE  k \in Nat /\ k <= n
  BY DEF Applied

\* Removing an element leaves a list of entries.
LEMMA TakenOffTyped ==
    ASSUME xdevlist \in Seq(Entry), NEW d, TakenOff(d)
    PROVE  xdevlist' \in Seq(Entry)
  BY RemovedFact DEF TakenOff

\* The rest of the types after RemoveFreed.
LEMMA RemoveFreedRest ==
    ASSUME RestOK, NEW t \in Thread, RemoveFreed(t), xdevlist' \in Seq(Entry)
    PROVE  RestOK'
  <1>1. gatewayDetected' \in Nat
    BY DEF RemoveFreed, RestOK
  <1>2. UNCHANGED <<up, cache, subscribed, events, outputcontents, partialDiscovery,
                    selfDeviceDiscovered, selfDiscoveryFailCount, restartFile,
                    browserDisableEnableCounter, vpc>>
    BY DEF RemoveFreed, net, watch
  <1>3. torn' \in BOOLEAN
    BY DEF RemoveFreed
  <1> QED BY <1>1, <1>2, <1>3 DEF RestOK

\* Remove keeps the stack typed and counted, and the other variables typed.
LEMMA RemoveKeeps ==
    ASSUME Stk, RestOK, NEW t \in Thread, Remove(t)
    PROVE  Stk' /\ RestOK'
  <1>1. Stk'
    BY RemoveStack, DeletedKeeps DEF Remove
  <1>2. xdevlist' \in Seq(Entry)
    BY RemoveStack, TakenOffTyped DEF RestOK
  <1>3. gatewayDetected' \in Nat
    <2> DEFINE dec == IF ClientXcalServer /\ Top(t).dev \in Gateways /\ gatewayDetected > 0
                        THEN 1 ELSE 0
    <2>1. dec \in Nat /\ dec <= gatewayDetected
      BY DEF RestOK
    <2>2. \E k \in Applied(t, dec) : gatewayDetected' = gatewayDetected - k
      BY DEF Remove
    <2> HIDE DEF dec
    <2>3. PICK k \in Applied(t, dec) : gatewayDetected' = gatewayDetected - k
      BY <2>2
    <2>4. k \in Nat /\ k <= dec
      BY <2>1, AppliedFact
    <2> QED BY <2>1, <2>3, <2>4 DEF RestOK
  <1>4. UNCHANGED <<up, cache, subscribed, events, outputcontents, partialDiscovery,
                    selfDeviceDiscovered, selfDiscoveryFailCount, restartFile,
                    browserDisableEnableCounter, vpc, torn>>
    BY DEF Remove, net, vvars, watch
  <1>5. RestOK'
    BY <1>2, <1>3, <1>4 DEF RestOK
  <1> QED BY <1>1, <1>5

\* RemoveFreed keeps the stack typed and counted, and the other variables typed.
LEMMA RemoveFreedKeeps ==
    ASSUME Stk, RestOK, NEW t \in Thread, RemoveFreed(t)
    PROVE  Stk' /\ RestOK'
  <1>1. Busy(t) /\ UNCHANGED deviceAddNo
    BY DEF RemoveFreed, At
  <1>2. CASE Goto(t, Deleted(t)) /\ UNCHANGED xdevlist
    <2>1. Stk'
      BY <1>1, <1>2, DeletedKeeps
    <2>2. xdevlist' \in Seq(Entry)
      BY <1>2 DEF RestOK
    <2> QED BY <2>1, <2>2, RemoveFreedRest
  <1>3. ASSUME NEW k \in DOMAIN xdevlist, Unlink(t, k)
        PROVE  Stk' /\ RestOK'
    <2>1. Stk'
      BY <1>1, <1>3, UnlinkStack, DeletedKeeps
    <2>2. xdevlist' \in Seq(Entry)
      BY <1>3, RemovedFact DEF RestOK, Unlink
    <2> QED BY <2>1, <2>2, RemoveFreedRest
  <1> QED BY <1>2, <1>3 DEF RemoveFreed

\* Insert keeps the stack typed and counted, and the other variables typed.
LEMMA InsertKeeps ==
    ASSUME Stk, RestOK, Insert
    PROVE  Stk' /\ RestOK'
  <1>1. Busy("main") /\ "main" \in Thread /\ UNCHANGED deviceAddNo /\ Send("main")
    BY DEF Insert, At, Thread, flags
  <1>2. Stk'
    BY <1>1, ToKeeps DEF Send
  <1>3. Top("main") \in Frame
    BY <1>1, TopFact DEF Stk
  <1> DEFINE e == [sno |-> Top("main").dev, val |-> Top("main").val]
  <1>4. e \in Entry
    BY <1>3 DEF Frame, Entry
  <1>5. PICK k \in 1..(Len(xdevlist) + 1) :
           xdevlist' = SubSeq(xdevlist, 1, k - 1) \o <<e>> \o SubSeq(xdevlist, k, Len(xdevlist))
    BY DEF Insert
  <1> HIDE DEF e
  <1>6. xdevlist' \in Seq(Entry)
    <2>1. xdevlist \in Seq(Entry)
      BY DEF RestOK
    <2>2. WithInserted(xdevlist, k, e) \in Seq(Entry)
      BY <1>4, <2>1, InsertedFact
    <2> QED BY <1>5, <2>2 DEF WithInserted
  <1>7. RestOK'
    BY <1>6 DEF RestOK, Insert, net, vvars, watch, flags
  <1> QED BY <1>2, <1>7

\* The listed devices and the list's contents are typed.
LEMMA ListedFact ==
    ASSUME xdevlist \in Seq(Entry)
    PROVE  Listed \in SUBSET Dev /\ Contents \in SUBSET Entry
  <1>1. \A i \in DOMAIN xdevlist : xdevlist[i] \in Entry
    OBVIOUS
  <1>2. \A e \in Entry : e.sno \in Dev
    BY DEF Entry
  <1> QED BY <1>1, <1>2 DEF Listed, Contents

\* SendCopy keeps the stack typed and counted, and the other variables typed.
LEMMA SendCopyKeeps ==
    ASSUME Stk, RestOK, NEW t \in Thread, SendCopy(t)
    PROVE  Stk' /\ RestOK'
  <1>1. Busy(t) /\ UNCHANGED deviceAddNo
    BY DEF SendCopy, At, flags
  <1>2. Top(t) \in Frame /\ Listed \in SUBSET Dev
    BY <1>1, TopFact, ListedFact DEF Stk, RestOK
  <1> DEFINE g == [Top(t) EXCEPT !.pc = "build", !.held = Listed, !.freed = {}]
  <1>3. g \in Frame /\ g.cb = Top(t).cb /\ g.pc \notin Request
    BY <1>2 DEF Frame, Request
  <1>4. Goto(t, g)
    BY DEF SendCopy
  <1> HIDE DEF g
  <1>5. Stk'
    BY <1>1, <1>3, <1>4, GotoKeeps
  <1>6. RestOK'
    BY DEF RestOK, SendCopy, net, vvars, watch, flags
  <1> QED BY <1>5, <1>6

\* SendBuild keeps the stack typed and counted, and the other variables typed.
LEMMA SendBuildKeeps ==
    ASSUME Stk, RestOK, NEW t \in Thread, SendBuild(t)
    PROVE  Stk' /\ RestOK'
  <1>1. Busy(t) /\ UNCHANGED deviceAddNo
    BY DEF SendBuild, At
  <1>2. Top(t) \in Frame
    BY <1>1, TopFact DEF Stk
  <1> DEFINE live == {e \in Contents : e.sno \in Top(t).held \ Top(t).freed}
             read(garbage) == live \cup {[sno |-> d, val |-> garbage[d]] : d \in Top(t).freed}
             g(l) == [Top(t) EXCEPT !.pc = "publish", !.held = {}, !.freed = {}, !.local = l]
  <1>3. PICK garbage \in [Top(t).freed -> Val] : Goto(t, g(read(garbage)))
    BY Zenon DEF SendBuild
  <1>4. read(garbage) \in SUBSET Entry
    <2>1. Top(t).freed \in SUBSET Dev
      BY <1>2 DEF Frame
    <2>2. \A d \in Top(t).freed : [sno |-> d, val |-> garbage[d]] \in Entry
      BY <2>1 DEF Entry
    <2>3. Contents \in SUBSET Entry
      BY ListedFact DEF RestOK
    <2> QED BY <2>2, <2>3
  <1> HIDE DEF read
  <1>5. /\ g(read(garbage)) \in Frame
        /\ g(read(garbage)).cb = Top(t).cb
        /\ g(read(garbage)).pc \notin Request
    BY <1>2, <1>4 DEF Frame, Request
  <1> HIDE DEF g
  <1>6. Stk'
    BY <1>1, <1>3, <1>5, GotoKeeps
  <1>7. gatewayDetected' \in Nat
    <2> DEFINE n == IF ClientXcalServer THEN Cardinality(Top(t).held \cap Gateways) ELSE 0
    <2>1. n \in Nat
      <3>1. Top(t).held \cap Gateways \in SUBSET Dev
        BY DevAssumption
      <3>2. IsFiniteSet(Top(t).held \cap Gateways)
        BY <3>1, DevAssumption, FS_Subset
      <3> QED BY <3>2, FS_CardinalityType
    <2>2. \E k \in Applied(t, n) : gatewayDetected' = gatewayDetected + k
      BY DEF SendBuild
    <2> HIDE DEF n
    <2> QED BY <2>1, <2>2, AppliedFact DEF RestOK
  <1>8. selfDeviceDiscovered' \in BOOLEAN
    BY Zenon DEF SendBuild
  <1>9. RestOK'
    BY <1>7, <1>8 DEF RestOK, SendBuild, net, vvars, watch
  <1> QED BY <1>6, <1>9

\* SendPublish keeps the stack typed and counted, and the other variables typed.
LEMMA SendPublishKeeps ==
    ASSUME Stk, RestOK, NEW t \in Thread, SendPublish(t)
    PROVE  Stk' /\ RestOK'
  <1>1. Busy(t) /\ Return(t)
    BY DEF SendPublish, At
  <1>2. Stk'
    BY <1>1, ReturnKeeps
  <1>3. Top(t) \in Frame
    BY <1>1, TopFact DEF Stk
  <1>4. outputcontents' \in SUBSET Entry /\ subscribed' \in SUBSET Dev
    BY <1>3 DEF SendPublish, RestOK, Frame
  <1>5. UNCHANGED <<up, cache, events, xdevlist, partialDiscovery, gatewayDetected,
                    selfDeviceDiscovered, vvars>>
    BY DEF SendPublish
  <1>6. RestOK'
    BY <1>4, <1>5 DEF RestOK, vvars, watch
  <1> QED BY <1>2, <1>6

\* Unavailable keeps the stack typed and counted, and the other variables typed.
LEMMA UnavailableKeeps ==
    ASSUME Stk, RestOK, NEW t \in Thread, NEW c \in Cp, NEW d \in Dev,
           t = "main" => CanDispatch,
           events' \in Nat, vpc' \in {"check", "flush", "activate", "rescan"},
           UNCHANGED <<selfDiscoveryFailCount, restartFile, browserDisableEnableCounter, torn>>,
           Unavailable(t, c, d)
    PROVE  Stk' /\ RestOK'
  <1> DEFINE pc == IF c \in {"basic", "gw"} THEN "exists" ELSE "delfind"
             f == NewFrame("unavailable", c, d, pc, AnyVal, {})
  <1>1. f \in Frame /\ f.cb = "unavailable" /\ f.pc \notin Request
    <2>1. pc \in {"prefix", "services", "delfind", "exists", "assign"} /\ pc \notin Request
      BY DEF Request
    <2> HIDE DEF pc
    <2>2. AnyVal \in Val /\ {} \in SUBSET Dev
      BY AnyValFact
    <2> QED BY <2>1, <2>2, NewFrameFact DEF NewFrame
  <1>2. UNCHANGED deviceAddNo
    BY DEF Unavailable, flags
  <1>3. UNCHANGED stack \/ Push(t, f)
    BY DEF Unavailable
  <1> HIDE DEF f
  <1>4. Stk'
    <2>1. CASE UNCHANGED stack
      BY <1>2, <2>1, SameKeeps
    <2>2. CASE Push(t, f)
      <3>1. CASE t = "main"
        <4>1. f.cb \notin Adding
          BY <1>1 DEF Adding
        <4>2. deviceAddNo' = IF f.cb \in Adding THEN deviceAddNo + 1 ELSE deviceAddNo
          BY <1>2, <4>1
        <4> QED BY <1>1, <2>2, <3>1, <4>2, PushKeeps
      <3>2. CASE t = "verify"
        BY <1>1, <1>2, <2>2, <3>2, PushVerifyKeeps
      <3> QED BY <3>1, <3>2 DEF Thread
    <2> QED BY <1>3, <2>1, <2>2
  <1>5. cache' \in [Cp -> SUBSET Dev]
    BY DEF Unavailable, RestOK
  <1>6. subscribed' \subseteq Dev
    BY DEF Unavailable, RestOK
  <1>7. UNCHANGED <<up, xdevlist, outputcontents, partialDiscovery, gatewayDetected,
                    selfDeviceDiscovered>>
    BY DEF Unavailable, flags
  <1>8. RestOK'
    BY <1>5, <1>6, <1>7 DEF RestOK
  <1> QED BY <1>4, <1>8

\* ByeBye keeps the stack typed and counted, and the other variables typed.
LEMMA ByeByeKeeps ==
    ASSUME Stk, RestOK, NEW c \in Cp, NEW d \in Dev, ByeBye(c, d) \/ Expire(c, d)
    PROVE  Stk' /\ RestOK'
  <1>1. /\ CanDispatch /\ "main" \in Thread
        /\ events' \in Nat /\ vpc' \in {"check", "flush", "activate", "rescan"}
        /\ UNCHANGED <<selfDiscoveryFailCount, restartFile, browserDisableEnableCounter, torn>>
        /\ Unavailable("main", c, d)
    BY DEF ByeBye, Expire, RestOK, vvars, watch, Thread
  <1> QED BY <1>1, UnavailableKeeps

\* CheckDeviceExists keeps the stack typed and counted, and the other variables typed.
LEMMA CheckDeviceExistsKeeps ==
    ASSUME Stk, RestOK, NEW t \in Thread, CheckDeviceExists(t)
    PROVE  Stk' /\ RestOK'
  <1>1. Busy(t)
    BY DEF CheckDeviceExists, At
  <1>2. \/ Return(t)
        \/ To(t, "probe") /\ UNCHANGED deviceAddNo
        \/ To(t, "delfind") /\ UNCHANGED deviceAddNo
    BY DEF CheckDeviceExists
  <1>3. Stk'
    BY <1>1, <1>2, ReturnKeeps, ToKeeps
  <1>4. torn' \in BOOLEAN
    BY DEF RestOK, CheckDeviceExists
  <1>5. UNCHANGED <<net, xdevlist, outputcontents, partialDiscovery, gatewayDetected,
                    selfDeviceDiscovered, watch>>
    BY DEF CheckDeviceExists
  <1>6. RestOK'
    BY <1>4, <1>5 DEF RestOK, net, watch
  <1> QED BY <1>3, <1>6

\* Probe keeps the stack typed and counted, and the other variables typed.
LEMMA ProbeKeeps ==
    ASSUME Stk, RestOK, NEW t \in Thread, Probe(t)
    PROVE  Stk' /\ RestOK'
  <1>1. Busy(t) /\ (Return(t) \/ (To(t, "delfind") /\ UNCHANGED deviceAddNo))
    BY DEF Probe, At
  <1>2. Stk'
    BY <1>1, ReturnKeeps, ToKeeps
  <1>3. RestOK'
    BY DEF RestOK, Probe, net, vvars, watch
  <1> QED BY <1>2, <1>3

\* Change keeps the stack typed and counted, and the other variables typed.
LEMMA ChangeKeeps ==
    ASSUME Stk, RestOK, NEW d \in Dev, NEW v \in Val, Change(d, v)
    PROVE  Stk' /\ RestOK'
  <1> DEFINE f == NewFrame("change", "basic", d, "assign", v, {d})
  <1>1. f \in Frame /\ f.cb = "change" /\ f.pc \notin Request
    BY NewFrameFact DEF NewFrame, Request, Cp
  <1>2. /\ CanDispatch /\ UNCHANGED deviceAddNo
        /\ UNCHANGED stack \/ Push("main", f)
    BY Zenon DEF Change, flags
  <1> HIDE DEF f
  <1>3. Stk'
    <2>1. CASE UNCHANGED stack
      BY <1>2, <2>1, SameKeeps
    <2>2. CASE Push("main", f)
      <3>1. f.cb \notin Adding
        BY <1>1 DEF Adding
      <3>2. deviceAddNo' = IF f.cb \in Adding THEN deviceAddNo + 1 ELSE deviceAddNo
        BY <1>2, <3>1
      <3> QED BY <1>1, <1>2, <2>2, <3>2, PushKeeps
    <2> QED BY <1>2, <2>1, <2>2
  <1>4. torn' \in BOOLEAN
    BY LookupFact DEF RestOK, Change
  <1>5. RestOK'
    BY <1>4 DEF RestOK, Change, flags, watch
  <1> QED BY <1>3, <1>5

\* ChangeAssign keeps the stack typed and counted, and the other variables typed.
LEMMA ChangeAssignKeeps ==
    ASSUME Stk, RestOK, ChangeAssign
    PROVE  Stk' /\ RestOK'
  <1>1. Busy("main") /\ "main" \in Thread /\ UNCHANGED deviceAddNo
    BY DEF ChangeAssign, At, Thread, flags
  <1>2. Top("main") \in Frame
    BY <1>1, TopFact DEF Stk
  <1>3. Pop("main") \/ Send("main")
    BY DEF ChangeAssign
  <1>4. Stk'
    <2>1. CASE Pop("main")
      <3>1. /\ deviceAddNo' \in Nat
            /\ deviceAddNo' >= IF "main" = "main" /\ Top("main").cb \in Adding
                                 THEN deviceAddNo - 1 ELSE deviceAddNo
        BY <1>1 DEF Stk
      <3> QED BY <1>1, <2>1, <3>1, PopKeeps, Zenon
    <2>2. CASE Send("main")
      BY <1>1, <2>2, ToKeeps DEF Send
    <2> QED BY <1>3, <2>1, <2>2
  <1>5. xdevlist' \in Seq(Entry)
    <2>1. Top("main").val \in Val
      BY <1>2 DEF Frame
    <2>2. \/ UNCHANGED xdevlist
          \/ \E k \in DOMAIN xdevlist :
                xdevlist' = [xdevlist EXCEPT ![k].val = Top("main").val]
      BY DEF ChangeAssign
    <2> QED BY <2>1, <2>2, ListValFact DEF RestOK
  <1>6. RestOK'
    BY <1>5 DEF RestOK, ChangeAssign, net, vvars, watch, flags
  <1> QED BY <1>4, <1>6

\* PowerToggle keeps the stack typed and counted, and the other variables typed.
LEMMA PowerToggleKeeps ==
    ASSUME Stk, RestOK, NEW d \in Dev, PowerToggle(d)
    PROVE  Stk' /\ RestOK'
  <1>1. UNCHANGED <<stack, deviceAddNo>>
    BY DEF PowerToggle, flags
  <1>2. Stk'
    BY <1>1, SameKeeps
  <1>3. RestOK'
    BY DEF RestOK, PowerToggle, flags, vvars, watch
  <1> QED BY <1>2, <1>3

\* The state in which the process starts, or starts again.
LEMMA EmptyStk ==
    ASSUME stack = [t \in Thread |-> <<>>], deviceAddNo = 0
    PROVE  Stk
  <1>1. stack["main"] = <<>> /\ stack["verify"] = <<>> /\ stack \in Stacks
    BY DEF Thread, Stacks
  <1>2. Len(stack["main"]) = 0 /\ Len(stack["verify"]) = 0
    BY <1>1
  <1>3. StackInv /\ CountInv
    BY <1>1, <1>2 DEF StackInv, CountInv, Counted, Busy
  <1> QED BY <1>1, <1>3 DEF Stk

\* A process that starts again has stacks, a count and variables that are typed.
LEMMA FreshKeeps ==
    ASSUME RestOK, Fresh, restartFile' \in BOOLEAN
    PROVE  Stk' /\ RestOK'
  <1>1. stack' = [t \in Thread |-> <<>>] /\ deviceAddNo' = 0
    BY DEF Fresh
  <1>2. stack'["main"] = <<>> /\ stack'["verify"] = <<>> /\ stack' \in Stacks
    BY <1>1 DEF Thread, Stacks
  <1>3. Len(stack'["main"]) = 0 /\ Len(stack'["verify"]) = 0
    BY <1>2
  <1>4. Stk'
    BY <1>1, <1>2, <1>3 DEF Stk, StackInv, CountInv, Counted, Busy
  <1>5. RestOK'
    <2>1. xdevlist' \in Seq(Entry) /\ cache' \in [Cp -> SUBSET Dev]
      BY DEF Fresh
    <2>2. /\ UNCHANGED <<up, events>> /\ vpc' = "check"
          /\ subscribed' = {} /\ outputcontents' = {} /\ gatewayDetected' = 0
          /\ selfDiscoveryFailCount' = 0 /\ browserDisableEnableCounter' = 0
      BY DEF Fresh
    <2>3. /\ partialDiscovery' \in BOOLEAN /\ selfDeviceDiscovered' \in BOOLEAN
          /\ torn' \in BOOLEAN
      BY DEF Fresh
    <2> QED BY <2>1, <2>2, <2>3 DEF RestOK
  <1> QED BY <1>4, <1>5

\* VerifyStep keeps the stack typed and counted, and the other variables typed.
LEMMA VerifyStepKeeps ==
    ASSUME Stk, RestOK, VerifyStep
    PROVE  Stk' /\ RestOK'
  <1>1. CASE VerifyCheck
    <2>1. Stk'
      BY <1>1, SameKeeps DEF VerifyCheck, flags
    <2>2. RestOK'
      BY <1>1 DEF RestOK, VerifyCheck, net, flags
    <2> QED BY <2>1, <2>2
  <1>2. CASE SelfRestart
    BY <1>2, FreshKeeps DEF SelfRestart
  <1>3. CASE VerifyFlush
    <2>1. PICK d \in cache["basic"] : Unavailable("verify", "basic", d)
      BY <1>3 DEF VerifyFlush
    <2>2. d \in Dev /\ "basic" \in Cp /\ "verify" \in Thread
      BY DEF RestOK, Cp, Thread
    <2>3. /\ events' \in Nat /\ vpc' \in {"check", "flush", "activate", "rescan"}
          /\ UNCHANGED <<selfDiscoveryFailCount, restartFile, browserDisableEnableCounter, torn>>
      BY <1>3 DEF VerifyFlush, RestOK, vvars, watch
    <2> QED BY <2>1, <2>2, <2>3, UnavailableKeeps
  <1>4. CASE VerifyFlushed
    <2>1. Stk'
      BY <1>4, SameKeeps DEF VerifyFlushed
    <2>2. RestOK'
      BY <1>4 DEF RestOK, VerifyFlushed, net
    <2> QED BY <2>1, <2>2
  <1>5. CASE VerifyActivate
    <2>1. Stk'
      BY <1>5, SameKeeps DEF VerifyActivate, flags
    <2>2. RestOK'
      BY <1>5 DEF RestOK, VerifyActivate, net, flags
    <2> QED BY <2>1, <2>2
  <1>6. CASE VerifyRescan
    <2>1. Stk'
      BY <1>6, SameKeeps DEF VerifyRescan, flags
    <2>2. RestOK'
      BY <1>6 DEF RestOK, VerifyRescan, net, flags
    <2> QED BY <2>1, <2>2
  <1> QED BY <1>1, <1>2, <1>3, <1>4, <1>5, <1>6 DEF VerifyStep

\* The initial states satisfy both parts.
LEMMA StackTypedInit == Init => Stk /\ RestOK
  <1> SUFFICES ASSUME Init PROVE Stk /\ RestOK
    OBVIOUS
  <1>1. Stk
    BY EmptyStk DEF Init
  <1>2. RestOK
    <2>1. xdevlist \in Seq(Entry) /\ cache \in [Cp -> SUBSET Dev]
      BY DEF Init
    <2>2. up = Dev /\ subscribed = {} /\ outputcontents = {} /\ events = 0
          /\ gatewayDetected = 0 /\ selfDiscoveryFailCount = 0
          /\ browserDisableEnableCounter = 0 /\ vpc = "check"
      BY DEF Init
    <2>3. /\ partialDiscovery \in BOOLEAN /\ selfDeviceDiscovered \in BOOLEAN
          /\ restartFile \in BOOLEAN /\ torn \in BOOLEAN
      BY DEF Init
    <2> QED BY <2>1, <2>2, <2>3 DEF RestOK
  <1> QED BY <1>1, <1>2

\* Every step keeps both parts.
LEMMA StackTypedNext == Stk /\ RestOK /\ [Next]_vars => Stk' /\ RestOK'
  <1> SUFFICES ASSUME Stk, RestOK, [Next]_vars
               PROVE  Stk' /\ RestOK'
    OBVIOUS
  <1>1. CASE Network
    BY <1>1, PowerToggleKeeps, AvailableKeeps, ByeByeKeeps, ChangeKeeps DEF Network
  <1>2. CASE Expiry
    BY <1>2, ByeByeKeeps DEF Expiry
  <1>3. CASE MainStep
    BY <1>3, PrefixReplyKeeps, ServicesFailKeeps, ServicesReplyKeeps, UpdateFindKeeps,
       InsertKeeps, ChangeAssignKeeps DEF MainStep
  <1>4. ASSUME NEW t \in Thread, ThreadStep(t)
        PROVE  Stk' /\ RestOK'
    BY <1>4, DeleteFindKeeps, RemoveKeeps, RemoveFreedKeeps, SendCopyKeeps, SendBuildKeeps,
       SendPublishKeeps, CheckDeviceExistsKeeps, ProbeKeeps DEF ThreadStep
  <1>5. CASE VerifyStep
    BY <1>5, VerifyStepKeeps
  <1>6. CASE UNCHANGED vars
    <2>1. Stk'
      BY <1>6, SameKeeps DEF vars, flags
    <2>2. RestOK'
      BY <1>6 DEF RestOK, vars, net, flags, vvars, watch
    <2> QED BY <2>1, <2>2
  <1>7. CASE Crash
    BY <1>7, FreshKeeps DEF Crash, RestOK
  <1> QED BY <1>1, <1>2, <1>3, <1>4, <1>5, <1>6, <1>7 DEF Next

\* Every variable of the daemon keeps its type, with any number of devices,
\* any nesting of callbacks and on either thread; in particular deviceAddNo, a
\* guint, is never counted down below 0, nor is gatewayDetected.
THEOREM TypeCorrect == Spec => []TypeOK
  <1>1. Init => Stk /\ RestOK
    BY StackTypedInit
  <1>2. Stk /\ RestOK /\ [Next]_vars => Stk' /\ RestOK'
    BY StackTypedNext
  <1>3. Stk /\ RestOK => TypeOK
    BY SplitTypes
  <1> QED BY <1>1, <1>2, <1>3, PTL DEF Spec

-----------------------------------------------------------------------------
(* The count covers the additions in progress. *)

\* The stack part bounds the counter from below.
LEMMA CountCovers == Stk => AddCountCovers
  <1> SUFFICES ASSUME Stk PROVE AddCountCovers
    OBVIOUS
  <1> DEFINE n == Len(stack["main"])
             c == Counted
  <1>1. n \in Nat /\ DOMAIN stack["main"] = 1..n
    <2>1. stack["main"] \in Seq(Frame)
      BY DEF Stk, Stacks, Thread
    <2> QED BY <2>1
  <1>2. Busy("main") => n # 0
    <2>1. stack["main"] \in Seq(Frame)
      BY DEF Stk, Stacks, Thread
    <2> QED BY <2>1 DEF Busy
  <1>3. c \in Nat
    BY <1>1, <1>2 DEF Counted
  <1>4. Additions \subseteq 1..c
    <2>1. CASE Busy("main") /\ Top("main").cb \notin Adding
      <3>1. c = n - 1 /\ n \notin Additions
        BY <2>1 DEF Counted, Additions, Top
      <3>2. Additions \subseteq 1..n
        BY <1>1 DEF Additions
      <3>3. \A i \in 1..n : i # n => i \in 1..(n - 1)
        BY <1>1
      <3> QED BY <3>1, <3>2, <3>3
    <2>2. CASE ~(Busy("main") /\ Top("main").cb \notin Adding)
      <3>1. c = n
        BY <2>2 DEF Counted
      <3>2. Additions \subseteq 1..n
        BY <1>1 DEF Additions
      <3> QED BY <3>1, <3>2
    <2> QED BY <2>1, <2>2
  <1> HIDE DEF c
  <1>5. IsFiniteSet(1..c) /\ Cardinality(1..c) = c
    <2>1. /\ IsFiniteSet(1..c)
          /\ Cardinality(1..c) = IF 1 > c THEN 0 ELSE c - 1 + 1
      BY <1>3, FS_Interval
    <2> QED BY <1>3, <2>1
  <1>6. IsFiniteSet(Additions) /\ Cardinality(Additions) <= c
    BY <1>4, <1>5, FS_Subset
  <1>7. Cardinality(Additions) \in Nat
    BY <1>6, FS_CardinalityType
  <1>8. c <= deviceAddNo /\ deviceAddNo \in Nat
    BY DEF c, Stk, CountInv
  <1> QED BY <1>3, <1>6, <1>7, <1>8 DEF AddCountCovers

\* deviceAddNo covers every addition in progress, for any number of devices
\* and any depth of nested main loops: when verify_devices reads 0, no
\* available callback of any control point is half done.
THEOREM AdditionsCounted == Spec => []AddCountCovers
  <1>1. Init => Stk /\ RestOK
    BY StackTypedInit
  <1>2. Stk /\ RestOK /\ [Next]_vars => Stk' /\ RestOK'
    BY StackTypedNext
  <1>3. Stk => AddCountCovers
    BY CountCovers
  <1> QED BY <1>1, <1>2, <1>3, PTL DEF Spec

-----------------------------------------------------------------------------
(* The list stays sorted and without duplicates. *)

\* Taking an entry off a list without duplicates takes the device off it.
LEMMA TakenOffFact ==
    ASSUME RestOK, Sorted, NEW d, TakenOff(d)
    PROVE  Sorted' /\ Listed' \subseteq Listed /\ d \notin Listed'
  <1>1. PICK k \in DOMAIN xdevlist :
           /\ IndexOf(d, k)
           /\ xdevlist' = SubSeq(xdevlist, 1, k - 1) \o SubSeq(xdevlist, k + 1, Len(xdevlist))
    BY DEF TakenOff
  <1> DEFINE n == Len(xdevlist)
             r == xdevlist'
             old(i) == IF i < k THEN i ELSE i + 1
  <1>2. /\ xdevlist \in Seq(Entry) /\ n \in Nat /\ k \in 1..n
        /\ DOMAIN xdevlist = 1..n
    BY DEF RestOK
  <1>3. /\ r \in Seq(Entry) /\ Len(r) = n - 1
        /\ \A i \in 1..(n - 1) : r[i] = IF i < k THEN xdevlist[i] ELSE xdevlist[i + 1]
    <2> DEFINE q == SubSeq(xdevlist, 1, k - 1) \o SubSeq(xdevlist, k + 1, Len(xdevlist))
    <2>1. /\ q \in Seq(Entry)
          /\ Len(q) = Len(xdevlist) - 1
          /\ \A i \in 1..(Len(xdevlist) - 1) :
                q[i] = IF i < k THEN xdevlist[i] ELSE xdevlist[i + 1]
      BY <1>2, RemovedFact
    <2>2. r = q
      BY <1>1
    <2> QED BY <2>1, <2>2, Zenon
  <1>4. DOMAIN r = 1..(n - 1)
    BY <1>3
  <1> HIDE DEF r
  <1>5. \A i \in 1..(n - 1) : old(i) \in 1..n /\ old(i) # k /\ r[i] = xdevlist[old(i)]
    <2> TAKE i \in 1..(n - 1)
    <2> HIDE DEF n
    <2>1. old(i) \in 1..n /\ old(i) # k
      BY <1>2
    <2>2. r[i] = xdevlist[old(i)]
      BY <1>3
    <2> QED BY <2>1, <2>2
  <1>6. \A i, j \in 1..(n - 1) : i < j => old(i) < old(j)
    BY <1>2
  <1> HIDE DEF old
  <1>7. \A i, j \in 1..n : i < j => xdevlist[i].sno < xdevlist[j].sno
    BY <1>2 DEF Sorted
  <1>8. \A i, j \in 1..(n - 1) : i < j => r[i].sno < r[j].sno
    BY <1>5, <1>6, <1>7
  <1>9. Sorted'
    BY <1>4, <1>8 DEF Sorted, r
  <1>10. \A i \in 1..n : xdevlist[i].sno \in Nat
    <2>1. \A i \in 1..n : xdevlist[i] \in Entry
      BY <1>2
    <2> QED BY <2>1, DevAssumption DEF Entry
  <1>11. \A i \in 1..n : i # k => xdevlist[i].sno # d
    <2> TAKE i \in 1..n
    <2> HAVE i # k
    <2>1. xdevlist[k].sno = d
      BY <1>1 DEF IndexOf
    <2>2. i < k \/ k < i
      BY <1>2
    <2>3. xdevlist[i].sno < xdevlist[k].sno \/ xdevlist[k].sno < xdevlist[i].sno
      BY <1>2, <1>7, <2>2
    <2> QED BY <1>2, <1>10, <2>1, <2>3
  <1>12. Listed' = {r[i].sno : i \in 1..(n - 1)}
    BY <1>4 DEF Listed, r
  <1>13. Listed = {xdevlist[i].sno : i \in 1..n}
    BY <1>2 DEF Listed
  <1>14. Listed' \subseteq Listed /\ d \notin Listed'
    BY <1>5, <1>11, <1>12, <1>13
  <1> QED BY <1>9, <1>14

\* Inserting a device that is not listed, at its place, keeps the order.
LEMMA InsertFact ==
    ASSUME Stk, RestOK, Sorted, FreshInv, Insert
    PROVE  Sorted'
  <1>1. Busy("main") /\ "main" \in Thread
    BY DEF Insert, At, Thread
  <1>2. Top("main") \in Frame
    BY <1>1, TopFact DEF Stk
  <1> DEFINE n == Len(xdevlist)
             r == xdevlist'
             e == [sno |-> Top("main").dev, val |-> Top("main").val]
  <1>3. e \in Entry /\ e.sno = Top("main").dev /\ e.sno \in Nat
    BY <1>2, DevAssumption DEF Frame, Entry
  <1>4. PICK k \in 1..(Len(xdevlist) + 1) :
           /\ \A i \in 1..(k-1) : xdevlist[i].sno < e.sno
           /\ \A i \in k..Len(xdevlist) : e.sno <= xdevlist[i].sno
           /\ xdevlist' = SubSeq(xdevlist, 1, k - 1) \o <<e>> \o SubSeq(xdevlist, k, Len(xdevlist))
    BY DEF Insert
  <1>5. e.sno \notin Listed
    BY <1>3 DEF Insert, FreshInv
  <1> HIDE DEF e
  <1>6. /\ xdevlist \in Seq(Entry) /\ n \in Nat /\ k \in 1..(n + 1)
        /\ DOMAIN xdevlist = 1..n
    BY DEF RestOK
  <1>7. /\ r \in Seq(Entry) /\ Len(r) = n + 1
        /\ \A i \in 1..(n + 1) :
              r[i] = IF i < k THEN xdevlist[i] ELSE IF i = k THEN e ELSE xdevlist[i - 1]
    <2> DEFINE q == WithInserted(xdevlist, k, e)
    <2>1. /\ q \in Seq(Entry)
          /\ Len(q) = Len(xdevlist) + 1
          /\ \A i \in 1..(Len(xdevlist) + 1) : q[i] = Shifted(xdevlist, k, e, i)
      <3>1. xdevlist \in Seq(Entry) /\ e \in Entry /\ k \in 1..(Len(xdevlist) + 1)
        BY <1>3, <1>6
      <3> QED BY <3>1, InsertedFact, Zenon
    <2>2. r = q
      BY <1>4 DEF WithInserted
    <2> HIDE DEF q, r, n
    <2>3. n = Len(xdevlist)
      BY DEF n
    <2> QED BY <2>1, <2>2, <2>3 DEF Shifted
  <1>8. DOMAIN r = 1..(n + 1)
    BY <1>7
  <1> HIDE DEF r
  <1>9. \A i \in 1..n : xdevlist[i].sno \in Nat
    <2>1. \A i \in 1..n : xdevlist[i] \in Entry
      BY <1>6
    <2> QED BY <2>1, DevAssumption DEF Entry
  <1>10. \A i \in 1..n : xdevlist[i].sno # e.sno
    BY <1>5, <1>6 DEF Listed
  <1>11. \A i \in 1..n : (i < k => xdevlist[i].sno < e.sno) /\ (k <= i => e.sno < xdevlist[i].sno)
    <2> HIDE DEF n
    <2> TAKE i \in 1..n
    <2>1. ASSUME i < k PROVE xdevlist[i].sno < e.sno
      <3>1. i \in 1..(k - 1)
        BY <1>6, <2>1
      <3> QED BY <1>4, <3>1
    <2>2. ASSUME k <= i PROVE e.sno < xdevlist[i].sno
      <3>1. i \in k..n
        BY <1>6, <2>2
      <3>2. e.sno <= xdevlist[i].sno
        BY <1>4, <3>1 DEF n
      <3> QED BY <1>3, <1>9, <1>10, <3>2
    <2> QED BY <2>1, <2>2
  <1>12. \A i, j \in 1..n : i < j => xdevlist[i].sno < xdevlist[j].sno
    BY <1>6 DEF Sorted
  <1>13. \A i, j \in 1..(n + 1) : i < j => r[i].sno < r[j].sno
    <2> HIDE DEF n
    <2> TAKE i, j \in 1..(n + 1)
    <2> HAVE i < j
    <2>1. CASE j < k
      <3>1. i \in 1..n /\ j \in 1..n /\ i < k
        BY <1>6, <2>1
      <3> QED BY <1>7, <1>12, <2>1, <3>1
    <2>2. CASE j = k
      <3>1. i \in 1..n /\ i < k
        BY <1>6, <2>2
      <3>2. r[i] = xdevlist[i] /\ r[j] = e
        BY <1>6, <1>7, <2>2, <3>1
      <3> QED BY <1>11, <3>1, <3>2
    <2>3. CASE j > k
      <3>1. j - 1 \in 1..n /\ k <= j - 1 /\ ~(j < k) /\ j # k
        BY <1>6, <2>3
      <3>2. r[j] = xdevlist[j - 1]
        BY <1>7, <3>1
      <3>3. CASE i < k
        <4>1. i \in 1..n /\ i < j - 1
          BY <1>6, <2>3, <3>3
        <4>2. r[i] = xdevlist[i]
          BY <1>7, <3>3
        <4> QED BY <1>12, <3>1, <3>2, <4>1, <4>2
      <3>4. CASE i = k
        <4>1. r[i] = e
          BY <1>6, <1>7, <3>4
        <4> QED BY <1>11, <3>1, <3>2, <4>1
      <3>5. CASE i > k
        <4>1. i - 1 \in 1..n /\ i - 1 < j - 1 /\ ~(i < k) /\ i # k
          BY <1>6, <3>5
        <4>2. r[i] = xdevlist[i - 1]
          BY <1>7, <4>1
        <4> QED BY <1>12, <3>1, <3>2, <4>1, <4>2
      <3> QED BY <1>6, <3>3, <3>4, <3>5
    <2> QED BY <1>6, <2>1, <2>2, <2>3
  <1> QED BY <1>8, <1>13 DEF Sorted, r

\* Storing a value through a pointer to an entry keeps the serial numbers.
LEMMA ValueFact ==
    ASSUME RestOK, Sorted, NEW k \in DOMAIN xdevlist, NEW v \in Val,
           xdevlist' = [xdevlist EXCEPT ![k].val = v]
    PROVE  Sorted'
  <1>1. xdevlist \in Seq(Entry)
    BY DEF RestOK
  <1>2. /\ xdevlist' \in Seq(Entry) /\ Len(xdevlist') = Len(xdevlist)
        /\ \A i \in 1..Len(xdevlist) : xdevlist'[i].sno = xdevlist[i].sno
    BY <1>1, ListValFact
  <1>3. DOMAIN xdevlist' = 1..Len(xdevlist) /\ DOMAIN xdevlist = 1..Len(xdevlist)
    BY <1>1, <1>2
  <1> QED BY <1>2, <1>3 DEF Sorted

\* When the newest activation of the main thread is elsewhere, there is nothing to
\* show.
LEMMA FreshElsewhere ==
    ASSUME Busy("main")' => Top("main")'.pc # "insert"
    PROVE  FreshInv'
  BY DEF FreshInv, At

\* Ending an activation creates no device about to be inserted.
LEMMA FreshPop ==
    ASSUME Stk, Busy("main"), Pop("main")
    PROVE  FreshInv'
  <1> DEFINE n == Len(stack["main"])
  <1>1. "main" \in Thread /\ n \in Nat \ {0}
    BY TopFact DEF Stk, Thread
  <1>2. /\ stack' \in Stacks
        /\ Len(stack'["main"]) = n - 1
        /\ \A i \in 1..(n - 1) : stack'["main"][i] = stack["main"][i]
    BY <1>1, PopFact DEF Stk
  <1>3. stack'["main"] \in Seq(Frame)
    BY <1>1, <1>2 DEF Stacks
  <1>4. Busy("main")' => n - 1 \in 1..(n - 1)
    BY <1>1, <1>2, <1>3 DEF Busy
  <1>5. Busy("main")' => Top("main")'.pc \in Request
    BY <1>2, <1>4 DEF Top, Stk, StackInv
  <1> QED BY <1>5, FreshElsewhere DEF Request

\* Starting an activation creates no device about to be inserted.
LEMMA FreshPush ==
    ASSUME Stk, NEW f \in Frame, f.pc # "insert", Push("main", f)
    PROVE  FreshInv'
  <1>1. "main" \in Thread
    BY DEF Thread
  <1>2. Top("main")' = f
    BY <1>1, PushFact DEF Stk, Top
  <1> QED BY <1>2, FreshElsewhere

\* Moving an activation on, to a place other than an insertion, creates none.
LEMMA FreshGoto ==
    ASSUME Stk, Busy("main"), NEW f \in Frame, f.pc # "insert", Goto("main", f)
    PROVE  FreshInv'
  <1>1. "main" \in Thread
    BY DEF Thread
  <1>2. Top("main")' = f
    BY <1>1, GotoFact DEF Stk, Top
  <1> QED BY <1>2, FreshElsewhere

\* The same, for a step that also changes the activation.
LEMMA FreshTo ==
    ASSUME Stk, Busy("main"),
           NEW pc \in {"find", "delfind", "probe", "copy"}, To("main", pc)
    PROVE  FreshInv'
  <1>1. "main" \in Thread
    BY DEF Thread
  <1>2. Top("main") \in Frame
    BY <1>1, TopFact DEF Stk
  <1>3. pc \in Place
    BY DEF Place
  <1> DEFINE g == [Top("main") EXCEPT !.pc = pc]
  <1>4. g \in Frame /\ g.pc = pc
    BY <1>2, <1>3, PcFact, Zenon
  <1>5. Goto("main", g)
    BY DEF To
  <1> HIDE DEF g
  <1> QED BY <1>4, <1>5, FreshGoto

\* Steps of verify_devices that leave the list alone.
LEMMA FreshSame ==
    ASSUME FreshInv, stack'["main"] = stack["main"], UNCHANGED xdevlist
    PROVE  FreshInv'
  BY DEF FreshInv, At, Busy, Top, Listed

\* A step that leaves the list alone keeps its order.
LEMMA SortedSame ==
    ASSUME Sorted, UNCHANGED xdevlist
    PROVE  Sorted'
  BY DEF Sorted

\* Pop, Goto and Push on the other thread leave the main thread's stack.
LEMMA VerifyAlone ==
    ASSUME Stk, \/ Busy("verify") /\ Pop("verify")
                \/ Busy("verify") /\ \E f \in Frame : Goto("verify", f)
                \/ \E f \in Frame : Push("verify", f)
    PROVE  stack'["main"] = stack["main"]
  <1>1. "main" \in Thread \ {"verify"} /\ "verify" \in Thread
    BY DEF Thread
  <1> QED BY <1>1 DEF Stk, Stacks, Pop, Goto, Push

\* Every step of an activation of the main thread that leaves the list alone
\* and does not prepare a removal or an insertion.
LEMMA MainPlain ==
    ASSUME Stk, Sorted, Busy("main"), UNCHANGED xdevlist,
           \/ Pop("main")
           \/ \E f \in Frame : f.pc # "insert" /\ Goto("main", f)
           \/ \E pc \in {"find", "delfind", "probe", "copy"} : To("main", pc)
    PROVE  Sorted' /\ FreshInv'
  <1>1. Sorted'
    BY SortedSame
  <1>2. FreshInv'
    BY FreshPop, FreshGoto, FreshTo
  <1> QED BY <1>1, <1>2

\* ... and of an activation of verify_devices.
LEMMA VerifyPlain ==
    ASSUME Stk, Sorted, FreshInv, UNCHANGED xdevlist,
           \/ Busy("verify") /\ Pop("verify")
           \/ Busy("verify") /\ \E f \in Frame : Goto("verify", f)
           \/ \E f \in Frame : Push("verify", f)
    PROVE  Sorted' /\ FreshInv'
  <1>1. Sorted'
    BY SortedSame
  <1>2. FreshInv'
    BY VerifyAlone, FreshSame
  <1> QED BY <1>1, <1>2

\* Available keeps the list sorted, and insertions fresh.
LEMMA AvailableSorted ==
    ASSUME Stk, Sorted, FreshInv, NEW c \in Cp, NEW d \in Dev, Available(c, d)
    PROVE  Sorted' /\ FreshInv'
  <1>1. UNCHANGED xdevlist
    BY DEF Available
  <1>2. AnyVal \in Val /\ {d} \in SUBSET Dev /\ {} \in SUBSET Dev
    BY AnyValFact
  <1> DEFINE f == NewFrame("refresh", c, d, "prefix", AnyVal, {d})
             g == NewFrame("available", c, d, "services", AnyVal, {})
  <1>3. /\ f \in Frame /\ f.pc # "insert"
        /\ g \in Frame /\ g.pc # "insert"
    BY <1>2, NewFrameFact DEF NewFrame
  <1>4. UNCHANGED stack \/ Push("main", f) \/ Push("main", g)
    BY DEF Available
  <1> HIDE DEF f, g
  <1>5. FreshInv'
    <2>1. CASE UNCHANGED stack
      BY <1>1, <2>1, FreshSame
    <2>2. CASE Push("main", f) \/ Push("main", g)
      BY <1>3, <2>2, FreshPush
    <2> QED BY <1>4, <2>1, <2>2
  <1> QED BY <1>1, <1>5, SortedSame

\* Unavailable keeps the list sorted, and insertions fresh.
LEMMA UnavailableSorted ==
    ASSUME Stk, Sorted, FreshInv, NEW t \in Thread, NEW c \in Cp, NEW d \in Dev,
           Unavailable(t, c, d)
    PROVE  Sorted' /\ FreshInv'
  <1> DEFINE pc == IF c \in {"basic", "gw"} THEN "exists" ELSE "delfind"
             f == NewFrame("unavailable", c, d, pc, AnyVal, {})
  <1>1. f \in Frame /\ f.pc # "insert"
    <2>1. pc \in {"prefix", "services", "delfind", "exists", "assign"}
          /\ pc # "insert"
      OBVIOUS
    <2> HIDE DEF pc
    <2>2. AnyVal \in Val /\ {} \in SUBSET Dev
      BY AnyValFact
    <2> QED BY <2>1, <2>2, NewFrameFact DEF NewFrame
  <1>2. UNCHANGED xdevlist /\ (UNCHANGED stack \/ Push(t, f))
    BY DEF Unavailable
  <1> HIDE DEF f
  <1>3. FreshInv'
    <2>1. CASE UNCHANGED stack
      BY <1>2, <2>1, FreshSame
    <2>2. CASE Push(t, f) /\ t = "main"
      BY <1>1, <2>2, FreshPush
    <2>3. CASE Push(t, f) /\ t = "verify"
      BY <1>1, <1>2, <2>3, VerifyPlain
    <2> QED BY <1>2, <2>1, <2>2, <2>3 DEF Thread
  <1> QED BY <1>2, <1>3, SortedSame

\* Change keeps the list sorted, and insertions fresh.
LEMMA ChangeSorted ==
    ASSUME Stk, Sorted, FreshInv, NEW d \in Dev, NEW v \in Val, Change(d, v)
    PROVE  Sorted' /\ FreshInv'
  <1> DEFINE f == NewFrame("change", "basic", d, "assign", v, {d})
  <1>1. f \in Frame /\ f.pc # "insert"
    BY NewFrameFact DEF NewFrame, Cp
  <1>2. UNCHANGED xdevlist /\ (UNCHANGED stack \/ Push("main", f))
    BY DEF Change
  <1> HIDE DEF f
  <1>3. FreshInv'
    <2>1. CASE UNCHANGED stack
      BY <1>2, <2>1, FreshSame
    <2>2. CASE Push("main", f)
      BY <1>1, <2>2, FreshPush
    <2> QED BY <1>2, <2>1, <2>2
  <1> QED BY <1>2, <1>3, SortedSame

\* The answers, and on_last_change, store at most a value.
LEMMA ValueSteps ==
    ASSUME Stk, RestOK, Sorted, PrefixReply \/ ChangeAssign
    PROVE  Sorted' /\ FreshInv'
  <1>1. Busy("main") /\ "main" \in Thread
    BY DEF PrefixReply, ChangeAssign, At, Thread
  <1>2. Top("main").val \in Val
    BY <1>1, TopFact DEF Stk, Frame
  <1>3. Pop("main") \/ To("main", "copy")
    BY DEF PrefixReply, ChangeAssign, Return, Send
  <1>4. FreshInv'
    BY <1>1, <1>3, FreshPop, FreshTo
  <1>5. \/ UNCHANGED xdevlist
        \/ \E v \in Val, k \in DOMAIN xdevlist :
              xdevlist' = [xdevlist EXCEPT ![k].val = v]
    BY <1>2 DEF PrefixReply, ChangeAssign
  <1>6. Sorted'
    BY <1>5, SortedSame, ValueFact
  <1> QED BY <1>4, <1>6

\* The answers of a device: the order of the list is kept.
LEMMA ServicesSorted ==
    ASSUME Stk, Sorted, ServicesFail \/ ServicesReply
    PROVE  Sorted' /\ FreshInv'
  <1>1. Busy("main") /\ "main" \in Thread /\ UNCHANGED xdevlist
    BY DEF ServicesFail, ServicesReply, At, Thread
  <1>2. CASE ServicesFail
    BY <1>1, <1>2, MainPlain DEF ServicesFail, Return
  <1>3. CASE ServicesReply
    <2>1. PICK v \in Val : Goto("main", [Top("main") EXCEPT !.pc = "find", !.val = v])
      BY <1>3 DEF ServicesReply
    <2>2. Top("main") \in Frame
      BY <1>1, TopFact DEF Stk
    <2> DEFINE g == [Top("main") EXCEPT !.pc = "find", !.val = v]
    <2>3. g \in Frame /\ g.pc # "insert"
      BY <2>2 DEF Frame
    <2>4. Goto("main", g)
      BY <2>1
    <2> HIDE DEF g
    <2> QED BY <1>1, <2>3, <2>4, MainPlain
  <1> QED BY <1>2, <1>3

\* UpdateFind keeps the list sorted, and insertions fresh.
LEMMA UpdateFindSorted ==
    ASSUME Stk, Sorted, UpdateFind, ~torn'
    PROVE  Sorted' /\ FreshInv'
  <1>1. Busy("main") /\ "main" \in Thread /\ UNCHANGED xdevlist
    BY DEF UpdateFind, At, Thread
  <1>2. Top("main") \in Frame
    BY <1>1, TopFact DEF Stk
  <1>3. CASE To("main", "delfind")
    BY <1>1, <1>3, MainPlain
  <1>4. CASE To("main", "insert") /\ Top("main").dev \notin Listed
    <2> DEFINE g == [Top("main") EXCEPT !.pc = "insert"]
    <2>1. g \in Frame /\ g.pc = "insert" /\ g.dev = Top("main").dev
      BY <1>2 DEF Frame
    <2>2. Goto("main", g)
      BY <1>4 DEF To
    <2> HIDE DEF g
    <2>3. Top("main")' = g
      BY <1>1, <2>1, <2>2, GotoFact DEF Stk, Top
    <2>4. Listed' = Listed
      BY <1>1 DEF Listed
    <2>5. FreshInv'
      BY <1>4, <2>1, <2>3, <2>4 DEF FreshInv, At
    <2> QED BY <1>1, <2>5, SortedSame
  <1>5. PICK found \in BOOLEAN : /\ Lookup("main", Top("main").dev, found)
                                /\ To("main", IF found THEN "delfind" ELSE "insert")
    BY Zenon DEF UpdateFind
  <1>6. CASE found
    BY <1>3, <1>5, <1>6
  <1>7. CASE ~found
    <2>1. Top("main").dev \notin Listed
      BY <1>5, <1>7, Zenon DEF Lookup
    <2> QED BY <1>4, <1>5, <1>7, <2>1
  <1> QED BY <1>6, <1>7

\* DeleteFind keeps the list sorted, and insertions fresh.
LEMMA DeleteFindSorted ==
    ASSUME Stk, Sorted, FreshInv, NEW t \in Thread, DeleteFind(t)
    PROVE  Sorted' /\ FreshInv'
  <1>1. Busy(t) /\ UNCHANGED xdevlist
    BY DEF DeleteFind, At
  <1>2. Top(t) \in Frame
    BY <1>1, TopFact DEF Stk
  <1> DEFINE g == [Top(t) EXCEPT !.pc = "remove", !.held = {Top(t).dev}, !.freed = {}]
  <1>3. g \in Frame /\ g.pc = "remove" /\ g.freed = {}
    BY <1>2 DEF Frame
  <1>4. Goto(t, g) \/ Pop(t)
    BY Zenon DEF DeleteFind, Return
  <1> HIDE DEF g
  <1>5. CASE t = "main"
    <2>1. CASE Pop(t)
      BY <1>1, <1>5, <2>1, MainPlain
    <2>2. CASE Goto(t, g)
      <3>1. Top("main")' = g
        BY <1>1, <1>3, <1>5, <2>2, GotoFact DEF Stk, Top
      <3>2. FreshInv'
        BY <1>3, <3>1 DEF FreshInv, At
      <3> QED BY <1>1, <3>2, SortedSame
    <2> QED BY <1>4, <2>1, <2>2
  <1>6. CASE t = "verify"
    BY <1>1, <1>3, <1>4, <1>6, VerifyPlain
  <1> QED BY <1>5, <1>6 DEF Thread

\* Remove keeps the list sorted, and insertions fresh.
LEMMA RemoveSorted ==
    ASSUME Stk, RestOK, Sorted, FreshInv, NEW t \in Thread, Remove(t)
    PROVE  Sorted' /\ FreshInv'
  <1> DEFINE g == Deleted(t)
             d == Top(t).dev
  <1>1. /\ Busy(t) /\ g \in Frame /\ g.dev = d
        /\ OthersMarked(t, g, d) /\ TakenOff(d)
    BY RemoveStack
  <1>2. Top(t) \in Frame /\ "main" \in Thread
    BY <1>1, TopFact DEF Stk, Thread
  <1> HIDE DEF g, d
  <1>3. Sorted' /\ Listed' \subseteq Listed /\ d \notin Listed'
    BY <1>1, TakenOffFact
  <1>4. CASE t = "main"
    <2>1. Top("main")' = g
      BY <1>1, <1>4 DEF OthersMarked, Top
    <2>2. FreshInv'
      BY <1>1, <1>3, <2>1 DEF FreshInv, At
    <2> QED BY <1>3, <2>2
  <1>5. CASE t = "verify"
    <2> DEFINE n == Len(stack["main"])
    <2>1. "main" \in Thread \ {t} /\ stack["main"] \in Seq(Frame) /\ n \in Nat
      BY <1>5 DEF Thread, Stk, Stacks
    <2>2. /\ Len(stack'["main"]) = n
          /\ \A i \in 1..n :
                /\ stack'["main"][i].pc = stack["main"][i].pc
                /\ stack'["main"][i].dev = stack["main"][i].dev
                /\ stack'["main"][i].freed \in SUBSET (stack["main"][i].freed \cup {d})
      BY <1>1, <2>1 DEF OthersMarked, d
    <2>3. CASE n = 0
      <3>1. stack' \in Stacks
        BY <1>1 DEF OthersMarked
      <3>2. stack'["main"] \in Seq(Frame)
        BY <2>1, <3>1 DEF Stacks
      <3>3. ~Busy("main")'
        BY <2>2, <2>3, <3>2 DEF Busy
      <3> QED BY <1>3, <3>3 DEF FreshInv, At
    <2>4. CASE n # 0
      <3>1. n \in 1..n /\ Busy("main")
        BY <2>1, <2>4 DEF Busy
      <3>2. /\ Top("main")'.pc = Top("main").pc
            /\ Top("main")'.dev = Top("main").dev
        BY <2>2, <3>1 DEF Top
      <3> QED BY <1>3, <3>1, <3>2 DEF FreshInv, At
    <2> QED BY <2>3, <2>4
  <1> QED BY <1>4, <1>5 DEF Thread

\* Insert keeps the list sorted, and insertions fresh.
LEMMA InsertSorted ==
    ASSUME Stk, RestOK, Sorted, FreshInv, Insert
    PROVE  Sorted' /\ FreshInv'
  <1>1. Sorted'
    BY InsertFact
  <1>2. Busy("main") /\ To("main", "copy")
    BY DEF Insert, At, Send
  <1> QED BY <1>1, <1>2, FreshTo

\* The other steps of either thread leave the list alone.
LEMMA PlainSorted ==
    ASSUME Stk, RestOK, Sorted, FreshInv, NEW t \in Thread,
           \/ SendCopy(t) \/ SendBuild(t) \/ SendPublish(t)
           \/ CheckDeviceExists(t) \/ Probe(t)
    PROVE  Sorted' /\ FreshInv'
  <1>1. Busy(t) /\ UNCHANGED xdevlist
    BY DEF SendCopy, SendBuild, SendPublish, CheckDeviceExists, Probe, At
  <1>2. Top(t) \in Frame
    BY <1>1, TopFact DEF Stk
  <1>3. \/ Pop(t)
        \/ \E f \in Frame : f.pc # "insert" /\ Goto(t, f)
    <2>1. CASE SendCopy(t)
      <3> DEFINE g == [Top(t) EXCEPT !.pc = "build", !.held = Listed, !.freed = {}]
      <3>1. Listed \in SUBSET Dev
        BY ListedFact DEF RestOK
      <3>2. g \in Frame /\ g.pc # "insert"
        BY <1>2, <3>1 DEF Frame
      <3>3. Goto(t, g)
        BY <2>1 DEF SendCopy
      <3> QED BY <3>2, <3>3
    <2>2. CASE SendBuild(t)
      <3> DEFINE live == {e \in Contents : e.sno \in Top(t).held \ Top(t).freed}
                 read(garbage) == live \cup {[sno |-> d, val |-> garbage[d]] : d \in Top(t).freed}
                 g(l) == [Top(t) EXCEPT !.pc = "publish", !.held = {}, !.freed = {}, !.local = l]
      <3>1. PICK garbage \in [Top(t).freed -> Val] : Goto(t, g(read(garbage)))
        BY <2>2, Zenon DEF SendBuild
      <3>2. read(garbage) \in SUBSET Entry
        <4>1. Top(t).freed \in SUBSET Dev
          BY <1>2 DEF Frame
        <4>2. \A d \in Top(t).freed : [sno |-> d, val |-> garbage[d]] \in Entry
          BY <4>1 DEF Entry
        <4>3. Contents \in SUBSET Entry
          BY ListedFact DEF RestOK
        <4> QED BY <4>2, <4>3
      <3> HIDE DEF read
      <3>3. g(read(garbage)) \in Frame /\ g(read(garbage)).pc # "insert"
        BY <1>2, <3>2 DEF Frame
      <3> HIDE DEF g
      <3> QED BY <3>1, <3>3
    <2>3. CASE SendPublish(t)
      BY <2>3 DEF SendPublish, Return
    <2>4. CASE CheckDeviceExists(t) \/ Probe(t)
      <3>1. Pop(t) \/ To(t, "probe") \/ To(t, "delfind")
        BY <2>4 DEF CheckDeviceExists, Probe, Return
      <3>2. /\ [Top(t) EXCEPT !.pc = "probe"] \in Frame
            /\ [Top(t) EXCEPT !.pc = "probe"].pc = "probe"
            /\ [Top(t) EXCEPT !.pc = "delfind"] \in Frame
            /\ [Top(t) EXCEPT !.pc = "delfind"].pc = "delfind"
        BY <1>2 DEF Frame
      <3> DEFINE p == [Top(t) EXCEPT !.pc = "probe"]
                 q == [Top(t) EXCEPT !.pc = "delfind"]
      <3>3. Pop(t) \/ Goto(t, p) \/ Goto(t, q)
        BY <3>1 DEF To
      <3>4. /\ p \in Frame /\ p.pc # "insert"
            /\ q \in Frame /\ q.pc # "insert"
        BY <3>2
      <3> HIDE DEF p, q
      <3> QED BY <3>3, <3>4
    <2> QED BY <2>1, <2>2, <2>3, <2>4
  <1>4. CASE t = "main"
    BY <1>1, <1>3, <1>4, MainPlain
  <1>5. CASE t = "verify"
    BY <1>1, <1>3, <1>5, VerifyPlain
  <1> QED BY <1>4, <1>5 DEF Thread

\* A process that starts again has an empty list.
LEMMA FreshSorted ==
    ASSUME Fresh
    PROVE  Sorted' /\ FreshInv'
  <1>1. xdevlist' = <<>> /\ stack'["main"] = <<>>
    BY DEF Fresh, Thread
  <1>2. DOMAIN xdevlist' = {}
    BY <1>1
  <1> QED BY <1>1, <1>2 DEF Sorted, FreshInv, At, Busy

\* Verify keeps the list sorted, and insertions fresh.
LEMMA VerifySorted ==
    ASSUME Stk, RestOK, Sorted, FreshInv, VerifyStep
    PROVE  Sorted' /\ FreshInv'
  <1>1. CASE VerifyCheck \/ VerifyFlushed \/ VerifyActivate \/ VerifyRescan
    <2>1. UNCHANGED <<stack, xdevlist>>
      BY <1>1 DEF VerifyCheck, VerifyFlushed, VerifyActivate, VerifyRescan
    <2> QED BY <2>1, FreshSame, SortedSame
  <1>2. CASE SelfRestart
    BY <1>2, FreshSorted DEF SelfRestart
  <1>3. CASE VerifyFlush
    <2>1. PICK d \in cache["basic"] : Unavailable("verify", "basic", d)
      BY <1>3 DEF VerifyFlush
    <2>2. d \in Dev /\ "basic" \in Cp /\ "verify" \in Thread
      BY DEF RestOK, Cp, Thread
    <2> QED BY <2>1, <2>2, UnavailableSorted
  <1> QED BY <1>1, <1>2, <1>3 DEF VerifyStep

\* A list that is torn stays so until the process ends.
LEMMA TornStays ==
    ASSUME torn, [Next]_vars
    PROVE  torn' \/ Fresh
  <1>1. CASE Network
    BY <1>1, LookupFact DEF Network, PowerToggle, Available, ByeBye, Change, vvars
  <1>2. CASE Expiry
    BY <1>2 DEF Expiry, Expire, vvars
  <1>3. CASE MainStep
    BY <1>3, LookupFact DEF MainStep, PrefixReply, ServicesFail, ServicesReply, UpdateFind,
       Insert, ChangeAssign, vvars
  <1>4. ASSUME NEW t \in Thread, ThreadStep(t)
        PROVE  torn'
    BY <1>4, LookupFact DEF ThreadStep, DeleteFind, Remove, RemoveFreed, SendCopy, SendBuild,
       SendPublish, CheckDeviceExists, Probe, vvars
  <1>5. CASE VerifyStep
    BY <1>5 DEF VerifyStep, VerifyCheck, SelfRestart, VerifyFlush, VerifyFlushed,
       VerifyActivate, VerifyRescan, vvars
  <1>6. CASE Crash
    BY <1>6 DEF Crash
  <1>7. CASE UNCHANGED vars
    BY <1>7 DEF vars, vvars
  <1> QED BY <1>1, <1>2, <1>3, <1>4, <1>5, <1>6, <1>7 DEF Next

\* While the list is not torn it is sorted, and insertions are fresh.
Sure == torn \/ (Sorted /\ FreshInv)

\* Every step keeps the list sorted and free of duplicates, unless it tears it.
LEMMA SortedNext ==
    Stk /\ RestOK /\ Sure /\ [Next]_vars => Sure'
  <1> SUFFICES ASSUME Stk, RestOK, Sure, [Next]_vars, ~torn'
               PROVE  Sorted' /\ FreshInv'
    BY DEF Sure
  <1> SUFFICES ASSUME ~Fresh
               PROVE  Sorted' /\ FreshInv'
    BY FreshSorted
  <1>0. Sorted /\ FreshInv
    BY TornStays DEF Sure
  <1>1. ASSUME NEW d \in Dev, PowerToggle(d)
        PROVE  Sorted' /\ FreshInv'
    <2>1. UNCHANGED <<stack, xdevlist>>
      BY <1>1 DEF PowerToggle
    <2> QED BY <1>0, <2>1, FreshSame, SortedSame
  <1>2. ASSUME NEW d \in Dev, NEW c \in Cp, ByeBye(c, d) \/ Expire(c, d)
        PROVE  Sorted' /\ FreshInv'
    BY <1>0, <1>2, UnavailableSorted DEF ByeBye, Expire, Thread
  <1>3. CASE Network
    BY <1>0, <1>1, <1>2, <1>3, AvailableSorted, ChangeSorted DEF Network
  <1>4. CASE Expiry
    BY <1>2, <1>4 DEF Expiry
  <1>5. CASE MainStep
    BY <1>0, <1>5, ValueSteps, ServicesSorted, UpdateFindSorted, InsertSorted DEF MainStep
  <1>6. ASSUME NEW t \in Thread, ThreadStep(t)
        PROVE  Sorted' /\ FreshInv'
    BY <1>0, <1>6, DeleteFindSorted, RemoveSorted, PlainSorted DEF ThreadStep, RemoveFreed
  <1>7. CASE VerifyStep
    BY <1>0, <1>7, VerifySorted
  <1>8. CASE UNCHANGED vars
    BY <1>0, <1>8, FreshSame, SortedSame DEF vars
  <1> QED BY <1>3, <1>4, <1>5, <1>6, <1>7, <1>8 DEF Next, Crash

\* xdevlist is sorted by serial number and holds a device at most once, for any set
\* of devices, any nesting of additions and removals, and whatever verify_devices
\* removes between a lookup and its use on the main thread; unless a lookup without
\* the lock was cut short by the other thread, or both removed the same entry.
THEOREM ListSortedUnique == Spec => []SortedUnique
  <1>1. Init => Stk /\ RestOK /\ Sure
    <2> SUFFICES ASSUME Init PROVE Sorted /\ FreshInv
      BY StackTypedInit DEF Sure
    <2>1. xdevlist = <<>> /\ stack["main"] = <<>>
      BY DEF Init, Thread
    <2>2. DOMAIN xdevlist = {}
      BY <2>1
    <2> QED BY <2>1, <2>2 DEF Sorted, FreshInv, At, Busy
  <1>2. Stk /\ RestOK /\ Sure /\ [Next]_vars => Stk' /\ RestOK' /\ Sure'
    BY StackTypedNext, SortedNext
  <1>3. Sure => SortedUnique
    BY DEF Sure, SortedUnique
  <1> QED BY <1>1, <1>2, <1>3, PTL DEF Spec

-----------------------------------------------------------------------------
(* The builds without CLIENT_XCAL_SERVER: the inductive invariant, beside Stk. *)

\* Between a change of the list, or the lookup that starts one, and its publication.
MidChange == {"insert", "copy", "build", "publish"}

\* On the way to delete_gwyitem.
Deleting == {"find", "delfind", "remove", "exists", "probe"}

\* Only an addition replaces the entry of this device; nothing else deletes it, and
\* nothing frees an entry that is about to be removed.
Good(f) ==
    /\ f.pc = "services" => f.cb = "available"
    /\ f.pc \in Deleting => f.cb = "available" \/ f.dev # Self
    /\ f.pc = "remove" => f.freed = {}

Frames == \A i \in 1..Len(stack["main"]) : Good(stack["main"][i])

\* verify_devices runs no callback.
Alone == stack["verify"] = <<>> /\ vpc \notin {"flush", "activate"}

\* The published text is the list, unless the newest activation is about to
\* publish; and then it copies, builds and holds the whole list.
Pub ==
    /\ ~(Busy("main") /\ Top("main").pc \in MidChange) => outputcontents = Contents
    /\ At("main", "build") => Top("main").held = Listed /\ Top("main").freed = {}
    /\ At("main", "publish") => Top("main").local = Contents

Base == Stk /\ RestOK /\ Sorted /\ FreshInv /\ ~torn

\* A step of the directory other than a restart, or none.
DirStep ==
    \/ \E d \in Dev : Dir!Prepare(d) \/ Dir!Drop(d)
    \/ \E d \in Dev, v \in Val : Dir!Enter(d, v) \/ Dir!Update(d, v)
    \/ Dir!Publish
    \/ UNCHANGED <<Contents, outputcontents, Replacing>>

\* What every step of a callback does.
Refines == Frames' /\ stack'["verify"] = <<>> /\ Pub' /\ DirStep

-----------------------------------------------------------------------------
(* The newest activation after a step. *)

\* A new activation becomes the newest.
LEMMA PushTop ==
    ASSUME Stk, Frames, NEW f \in Frame, Good(f), Push("main", f)
    PROVE  /\ Busy("main")' /\ Top("main")' = f /\ Frames'
           /\ stack'["verify"] = stack["verify"]
  <1> DEFINE n == Len(stack["main"])
  <1>1. "main" \in Thread /\ "verify" \in Thread \ {"main"} /\ stack["main"] \in Seq(Frame)
    BY DEF Thread, Stk, Stacks
  <1>2. /\ stack' \in Stacks
        /\ Len(stack'["main"]) = n + 1
        /\ stack'["main"][n + 1] = f
        /\ \A i \in 1..n : stack'["main"][i] = stack["main"][i]
        /\ stack'["verify"] = stack["verify"]
    BY <1>1, PushFact DEF Stk
  <1>3. n \in Nat
    BY <1>1
  <1>4. Busy("main")' /\ Top("main")' = f
    BY <1>2, <1>3 DEF Busy, Top
  <1>5. Frames'
    BY <1>2, <1>3 DEF Frames
  <1> QED BY <1>2, <1>4, <1>5

\* The newest activation moves on.
LEMMA GotoTop ==
    ASSUME Stk, Frames, Busy("main"), NEW f \in Frame, Good(f), Goto("main", f)
    PROVE  /\ Busy("main")' /\ Top("main")' = f /\ Frames'
           /\ stack'["verify"] = stack["verify"]
  <1> DEFINE n == Len(stack["main"])
  <1>1. "main" \in Thread /\ "verify" \in Thread \ {"main"} /\ n \in Nat \ {0}
    BY TopFact DEF Thread, Stk
  <1>2. /\ stack' \in Stacks
        /\ Len(stack'["main"]) = n
        /\ stack'["main"][n] = f
        /\ \A i \in 1..(n - 1) : stack'["main"][i] = stack["main"][i]
        /\ stack'["verify"] = stack["verify"]
    BY <1>1, GotoFact DEF Stk
  <1>4. Busy("main")' /\ Top("main")' = f
    BY <1>1, <1>2 DEF Busy, Top
  <1>5. Frames'
    BY <1>1, <1>2 DEF Frames
  <1> QED BY <1>2, <1>4, <1>5

\* The newest activation ends: the one below it, if there is one, waits.
LEMMA PopTop ==
    ASSUME Stk, Frames, Busy("main"), Pop("main")
    PROVE  /\ Busy("main")' => Top("main")'.pc \in Request
           /\ Frames'
           /\ stack'["verify"] = stack["verify"]
  <1> DEFINE n == Len(stack["main"])
  <1>1. "main" \in Thread /\ "verify" \in Thread \ {"main"} /\ n \in Nat \ {0}
    BY TopFact DEF Thread, Stk
  <1>2. /\ stack' \in Stacks
        /\ Len(stack'["main"]) = n - 1
        /\ \A i \in 1..(n - 1) : stack'["main"][i] = stack["main"][i]
        /\ stack'["verify"] = stack["verify"]
    BY <1>1, PopFact DEF Stk
  <1>3. stack'["main"] \in Seq(Frame)
    BY <1>1, <1>2 DEF Stacks
  <1>4. Busy("main")' => n - 1 \in 1..(n - 1)
    BY <1>1, <1>2, <1>3 DEF Busy
  <1>5. Busy("main")' => Top("main")'.pc \in Request
    BY <1>2, <1>4 DEF Top, Stk, StackInv
  <1>6. Frames'
    BY <1>1, <1>2 DEF Frames
  <1> QED BY <1>2, <1>5, <1>6

\* delete_gwyitem has removed the entry.
LEMMA RemoveTop ==
    ASSUME Stk, RestOK, Frames, stack["verify"] = <<>>, Remove("main")
    PROVE  /\ Busy("main") /\ Busy("main")' /\ Top("main")' = Deleted("main")
           /\ Frames' /\ stack'["verify"] = <<>>
  <1> DEFINE n == Len(stack["main"])
             g == Deleted("main")
  <1>1. "main" \in Thread /\ "verify" \in Thread \ {"main"}
    BY DEF Thread
  <1>2. /\ Busy("main") /\ g \in Frame /\ g.pc \in {"insert", "copy"}
        /\ OthersMarked("main", g, Top("main").dev)
    BY <1>1, RemoveStack
  <1>3. Good(g)
    BY <1>2 DEF Good, Deleting
  <1> HIDE DEF g
  <1>4. /\ stack' \in Stacks
        /\ Len(stack'["main"]) = n
        /\ stack'["main"][n] = g
        /\ \A i \in 1..(n - 1) :
              stack'["main"][i].pc = stack["main"][i].pc /\ stack'["main"][i].cb = stack["main"][i].cb
        /\ Len(stack'["verify"]) = Len(stack["verify"])
    BY <1>1, <1>2 DEF OthersMarked
  <1>5. n \in Nat \ {0}
    BY <1>1, <1>2, TopFact DEF Stk
  <1>6. Busy("main")' /\ Top("main")' = g
    BY <1>4, <1>5 DEF Busy, Top
  <1>7. \A i \in 1..(n - 1) : Good(stack'["main"][i])
    <2> TAKE i \in 1..(n - 1)
    <2>1. stack["main"][i].pc \in Request /\ i \in 1..n /\ Good(stack["main"][i])
      BY <1>5 DEF Stk, StackInv, Frames
    <2> QED BY <1>4, <2>1 DEF Good, Request, Deleting
  <1>8. Frames'
    BY <1>3, <1>4, <1>5, <1>7 DEF Frames
  <1>9. stack'["verify"] \in Seq(Frame)
    BY <1>1, <1>4 DEF Stacks
  <1>10. stack'["verify"] = <<>>
    BY <1>4, <1>9
  <1> QED BY <1>2, <1>6, <1>8, <1>10 DEF g

-----------------------------------------------------------------------------
(* What the steps do to the contents of the list. *)

\* Two entries of a list without duplicates are of different devices.
LEMMA OneEntry ==
    ASSUME RestOK, Sorted, NEW k \in DOMAIN xdevlist, NEW i \in DOMAIN xdevlist, i # k
    PROVE  xdevlist[i].sno # xdevlist[k].sno
  <1> DEFINE n == Len(xdevlist)
  <1>1. n \in Nat /\ i \in 1..n /\ k \in 1..n /\ xdevlist[i] \in Entry /\ xdevlist[k] \in Entry
    BY DEF RestOK
  <1>2. xdevlist[i].sno \in Nat /\ xdevlist[k].sno \in Nat
    BY <1>1, DevAssumption DEF Entry
  <1>3. i < k \/ k < i
    BY <1>1
  <1>4. xdevlist[i].sno < xdevlist[k].sno \/ xdevlist[k].sno < xdevlist[i].sno
    BY <1>3 DEF Sorted
  <1> QED BY <1>2, <1>4

\* The removal takes out the entry of the device and no other.
LEMMA TakenOffContents ==
    ASSUME RestOK, Sorted, NEW d, TakenOff(d)
    PROVE  Contents' = Dir!Others(d) /\ Dir!Known(d)
  <1>1. PICK k \in DOMAIN xdevlist :
           /\ IndexOf(d, k)
           /\ xdevlist' = SubSeq(xdevlist, 1, k - 1) \o SubSeq(xdevlist, k + 1, Len(xdevlist))
    BY DEF TakenOff
  <1> DEFINE n == Len(xdevlist)
             r == xdevlist'
             old(i) == IF i < k THEN i ELSE i + 1
             new(i) == IF i < k THEN i ELSE i - 1
  <1>2. /\ xdevlist \in Seq(Entry) /\ n \in Nat /\ k \in 1..n
        /\ DOMAIN xdevlist = 1..n /\ xdevlist[k].sno = d
    BY <1>1 DEF RestOK, IndexOf
  <1>3. /\ r \in Seq(Entry) /\ Len(r) = n - 1
        /\ \A i \in 1..(n - 1) : r[i] = IF i < k THEN xdevlist[i] ELSE xdevlist[i + 1]
    <2> DEFINE q == SubSeq(xdevlist, 1, k - 1) \o SubSeq(xdevlist, k + 1, Len(xdevlist))
    <2>1. /\ q \in Seq(Entry)
          /\ Len(q) = Len(xdevlist) - 1
          /\ \A i \in 1..(Len(xdevlist) - 1) :
                q[i] = IF i < k THEN xdevlist[i] ELSE xdevlist[i + 1]
      BY <1>2, RemovedFact
    <2>2. r = q
      BY <1>1
    <2> QED BY <2>1, <2>2, Zenon
  <1>4. DOMAIN r = 1..(n - 1)
    BY <1>3
  <1>5. \A i \in 1..n : i # k => xdevlist[i].sno # d
    BY <1>2, OneEntry
  <1> HIDE DEF r
  <1>6. \A i \in 1..(n - 1) : old(i) \in 1..n /\ old(i) # k /\ r[i] = xdevlist[old(i)]
    <2> TAKE i \in 1..(n - 1)
    <2> HIDE DEF n
    <2>1. old(i) \in 1..n /\ old(i) # k
      BY <1>2
    <2>2. r[i] = xdevlist[old(i)]
      BY <1>3
    <2> QED BY <2>1, <2>2
  <1>7. \A i \in 1..n : i # k => new(i) \in 1..(n - 1) /\ r[new(i)] = xdevlist[i]
    <2> TAKE i \in 1..n
    <2> HAVE i # k
    <2> HIDE DEF n
    <2>1. new(i) \in 1..(n - 1) /\ (IF new(i) < k THEN new(i) ELSE new(i) + 1) = i
      BY <1>2
    <2>2. r[new(i)] = IF new(i) < k THEN xdevlist[new(i)] ELSE xdevlist[new(i) + 1]
      BY <1>3, <2>1
    <2> QED BY <2>1, <2>2
  <1> HIDE DEF old, new
  <1>8. Contents' = {r[i] : i \in 1..(n - 1)}
    BY <1>4 DEF Contents, r
  <1>9. Contents = {xdevlist[i] : i \in 1..n}
    BY <1>2 DEF Contents
  <1>10. ASSUME NEW e \in Contents' PROVE e \in Contents /\ e.sno # d
    BY <1>5, <1>6, <1>8, <1>9
  <1>11. ASSUME NEW e \in Contents, e.sno # d PROVE e \in Contents'
    <2>1. PICK i \in 1..n : e = xdevlist[i]
      BY <1>9
    <2>2. i # k
      BY <1>2, <1>11, <2>1
    <2> QED BY <1>7, <1>8, <2>1, <2>2
  <1>12. Contents' = Dir!Others(d)
    BY <1>10, <1>11 DEF Dir!Others
  <1>13. Dir!Known(d)
    BY <1>2, <1>9 DEF Dir!Known
  <1> QED BY <1>12, <1>13

\* The insertion adds the new entry.
LEMMA InsertContents ==
    ASSUME Stk, RestOK, Insert
    PROVE  Contents' = Contents \cup {[sno |-> Top("main").dev, val |-> Top("main").val]}
  <1>1. Busy("main") /\ "main" \in Thread
    BY DEF Insert, At, Thread
  <1>2. Top("main") \in Frame
    BY <1>1, TopFact DEF Stk
  <1> DEFINE n == Len(xdevlist)
             r == xdevlist'
             e == [sno |-> Top("main").dev, val |-> Top("main").val]
  <1>3. e \in Entry
    BY <1>2 DEF Frame, Entry
  <1>4. PICK k \in 1..(n + 1) :
           xdevlist' = SubSeq(xdevlist, 1, k - 1) \o <<e>> \o SubSeq(xdevlist, k, Len(xdevlist))
    BY DEF Insert
  <1> HIDE DEF e
  <1>5. xdevlist \in Seq(Entry) /\ n \in Nat /\ DOMAIN xdevlist = 1..n
    BY DEF RestOK
  <1>6. /\ r \in Seq(Entry) /\ Len(r) = n + 1
        /\ \A i \in 1..(n + 1) : r[i] = Shifted(xdevlist, k, e, i)
    <2>1. r = WithInserted(xdevlist, k, e)
      BY <1>4 DEF WithInserted
    <2> QED BY <1>3, <1>5, <2>1, InsertedFact
  <1>7. DOMAIN r = 1..(n + 1)
    BY <1>6
  <1> HIDE DEF r
  <1>8. Contents' = {r[i] : i \in 1..(n + 1)} /\ Contents = {xdevlist[i] : i \in 1..n}
    BY <1>5, <1>7 DEF Contents, r
  <1> HIDE DEF n
  <1>9. \A i \in 1..(n + 1) : r[i] = e \/ \E j \in 1..n : r[i] = xdevlist[j]
    <2> TAKE i \in 1..(n + 1)
    <2>1. CASE i < k
      BY <1>5, <1>6, <2>1 DEF Shifted
    <2>2. CASE i = k
      BY <1>5, <1>6, <2>2 DEF Shifted
    <2>3. CASE i > k
      <3>1. i - 1 \in 1..n /\ r[i] = xdevlist[i - 1]
        BY <1>5, <1>6, <2>3 DEF Shifted
      <3> QED BY <3>1
    <2> QED BY <1>5, <2>1, <2>2, <2>3
  <1>10. \A j \in 1..n : \E i \in 1..(n + 1) : r[i] = xdevlist[j]
    <2> TAKE j \in 1..n
    <2>1. CASE j < k
      <3>1. j \in 1..(n + 1) /\ r[j] = xdevlist[j]
        BY <1>5, <1>6, <2>1 DEF Shifted
      <3> QED BY <3>1
    <2>2. CASE j >= k
      <3>1. j + 1 \in 1..(n + 1) /\ r[j + 1] = xdevlist[j]
        BY <1>5, <1>6, <2>2 DEF Shifted
      <3> QED BY <3>1
    <2> QED BY <1>5, <2>1, <2>2
  <1>11. r[k] = e
    BY <1>5, <1>6 DEF Shifted
  <1>12. Contents' = Contents \cup {e}
    BY <1>8, <1>9, <1>10, <1>11
  <1> QED BY <1>12 DEF e

\* A changed attribute: the new entry of the device in place of the old one.
LEMMA ValueContents ==
    ASSUME RestOK, Sorted, NEW d, NEW k \in DOMAIN xdevlist, IndexOf(d, k), NEW v \in Val,
           xdevlist' = [xdevlist EXCEPT ![k].val = v]
    PROVE  /\ Contents' = Dir!Others(d) \cup {[sno |-> d, val |-> v]}
           /\ Dir!Known(d)
  <1> DEFINE n == Len(xdevlist)
             e == [sno |-> d, val |-> v]
  <1>1. /\ xdevlist \in Seq(Entry) /\ n \in Nat /\ DOMAIN xdevlist = 1..n
        /\ xdevlist[k] \in Entry /\ xdevlist[k].sno = d /\ k \in 1..n
    BY DEF RestOK, IndexOf
  <1>2. [xdevlist[k] EXCEPT !.val = v] = e
    BY <1>1 DEF Entry
  <1>3. xdevlist' = [xdevlist EXCEPT ![k] = [xdevlist[k] EXCEPT !.val = v]]
    OBVIOUS
  <1>4. xdevlist' = [xdevlist EXCEPT ![k] = e]
    BY <1>2, <1>3
  <1>5. \A i \in 1..n : i # k => xdevlist[i].sno # d
    BY <1>1, OneEntry
  <1> HIDE DEF e
  <1>6. /\ DOMAIN xdevlist' = 1..n /\ xdevlist'[k] = e
        /\ \A i \in 1..n : i # k => xdevlist'[i] = xdevlist[i]
    BY <1>1, <1>4
  <1>7. Contents' = {xdevlist'[i] : i \in 1..n} /\ Contents = {xdevlist[i] : i \in 1..n}
    BY <1>1, <1>6 DEF Contents
  <1>8. Dir!Others(d) = {xdevlist[i] : i \in (1..n) \ {k}}
    BY <1>1, <1>5, <1>7 DEF Dir!Others
  <1>9. Contents' = Dir!Others(d) \cup {e}
    BY <1>1, <1>6, <1>7, <1>8
  <1>10. Dir!Known(d)
    BY <1>1, <1>7 DEF Dir!Known
  <1> QED BY <1>9, <1>10 DEF e

\* A device that is not listed has no entry.
LEMMA UnlistedContents ==
    ASSUME NEW d, d \notin Listed
    PROVE  Contents = Dir!Others(d)
  BY DEF Listed, Contents, Dir!Others

-----------------------------------------------------------------------------
(* The steps of the callbacks. *)

\* What the lemmas about the steps start from.
Lone == Base /\ Frames /\ Alone /\ Pub

\* With one thread running callbacks, every lookup goes to the end of the list.
LEMMA LookupLone ==
    ASSUME Lone, NEW d, NEW found, Lookup("main", d, found)
    PROVE  /\ found <=> d \in Listed
           /\ ~torn'
  <1>1. ~CutShort("main", d)
    BY DEF CutShort, At, Busy, Thread, Lone, Alone
  <1>2. found = (d \in Listed) /\ torn' = torn
    BY <1>1, Zenon DEF Lookup
  <1> QED BY <1>2, Zenon DEF Lone, Base

\* The main thread is not between a change and its publication.
Settled == Busy("main") => Top("main").pc \notin MidChange

\* A step that changes neither the list nor the text, and does not start a change.
LEMMA QuietStep ==
    ASSUME Pub, Settled, Frames', stack'["verify"] = <<>>, UNCHANGED <<xdevlist, outputcontents>>,
           Busy("main")' => Top("main")'.pc \notin {"insert", "build", "publish"}
    PROVE  Refines
  <1>1. Contents' = Contents /\ outputcontents' = outputcontents /\ outputcontents = Contents
    BY DEF Contents, Pub, Settled
  <1>2. ~At("main", "insert") /\ ~At("main", "insert")'
    BY DEF Settled, MidChange, At
  <1>3. Replacing = {} /\ Replacing' = {}
    BY <1>2 DEF Replacing
  <1>4. Pub'
    BY <1>1 DEF Pub, At
  <1> QED BY <1>1, <1>3, <1>4 DEF Refines, DirStep

\* An activation ends before it has changed the list.
LEMMA PlainPop ==
    ASSUME Lone, Busy("main"), Settled, Pop("main"), UNCHANGED <<xdevlist, outputcontents>>
    PROVE  Refines
  <1>1. /\ Busy("main")' => Top("main")'.pc \in Request
        /\ Frames' /\ stack'["verify"] = <<>>
    BY PopTop DEF Lone, Base, Alone
  <1> QED BY <1>1, QuietStep DEF Lone, Request

\* An activation starts.
LEMMA PlainPush ==
    ASSUME Lone, CanDispatch, NEW f \in Frame, Good(f), f.pc \notin MidChange,
           Push("main", f), UNCHANGED <<xdevlist, outputcontents>>
    PROVE  Refines
  <1>1. /\ Busy("main")' /\ Top("main")' = f
        /\ Frames' /\ stack'["verify"] = <<>>
    BY PushTop DEF Lone, Base, Alone
  <1>2. Settled
    BY DEF CanDispatch, Settled, MidChange
  <1> QED BY <1>1, <1>2, QuietStep DEF Lone, MidChange

\* An activation moves on, or is about to publish what it has not changed.
LEMMA PlainGoto ==
    ASSUME Lone, Busy("main"), Settled, NEW f \in Frame, Good(f),
           f.pc \notin {"insert", "build", "publish"},
           Goto("main", f), UNCHANGED <<xdevlist, outputcontents>>
    PROVE  Refines
  <1>1. /\ Busy("main")' /\ Top("main")' = f
        /\ Frames' /\ stack'["verify"] = <<>>
    BY GotoTop DEF Lone, Base, Alone
  <1> QED BY <1>1, QuietStep DEF Lone

\* The newest activation is as the invariant says.
LEMMA TopGood ==
    ASSUME Lone, Busy("main")
    PROVE  "main" \in Thread /\ Top("main") \in Frame /\ Good(Top("main"))
  <1>1. /\ "main" \in Thread /\ Len(stack["main"]) \in Nat \ {0}
        /\ Top("main") \in Frame /\ Top("main") = stack["main"][Len(stack["main"])]
    BY TopFact DEF Lone, Base, Stk, Thread
  <1> QED BY <1>1 DEF Lone, Frames

\* The same, for a step that changes only the place.
LEMMA PlainTo ==
    ASSUME Lone, Busy("main"), Settled, NEW pc \in {"delfind", "probe", "copy"},
           pc = "copy" \/ Top("main").pc \in Deleting,
           To("main", pc), UNCHANGED <<xdevlist, outputcontents>>
    PROVE  Refines
  <1>1. Top("main") \in Frame /\ Good(Top("main"))
    BY TopGood
  <1> DEFINE g == [Top("main") EXCEPT !.pc = pc]
  <1>2. pc \in Place
    BY DEF Place
  <1>3. g \in Frame /\ g.pc = pc /\ g.cb = Top("main").cb /\ g.dev = Top("main").dev
    BY <1>1, <1>2, PcFact, Zenon
  <1>4. Goto("main", g)
    BY DEF To
  <1> HIDE DEF g
  <1>5. Good(g)
    BY <1>1, <1>3 DEF Good, Deleting
  <1>6. g.pc \notin {"insert", "build", "publish"}
    BY <1>3
  <1> QED BY <1>3, <1>4, <1>5, <1>6, PlainGoto

\* The list was changed by a step of the directory; the activation publishes it.
LEMMA ChangedTo ==
    ASSUME Lone, Busy("main"), Top("main").pc # "insert", To("main", "copy")
    PROVE  /\ Frames' /\ stack'["verify"] = <<>> /\ Pub'
           /\ Replacing = {} /\ Replacing' = {}
  <1>1. Top("main") \in Frame
    BY TopGood
  <1> DEFINE g == [Top("main") EXCEPT !.pc = "copy"]
  <1>2. "copy" \in Place
    BY DEF Place
  <1>3. g \in Frame /\ g.pc = "copy"
    BY <1>1, <1>2, PcFact, Zenon
  <1>4. Goto("main", g)
    BY DEF To
  <1> HIDE DEF g
  <1>5. Good(g)
    BY <1>3 DEF Good, Deleting
  <1>6. /\ Busy("main")' /\ Top("main")' = g
        /\ Frames' /\ stack'["verify"] = <<>>
    BY <1>3, <1>4, <1>5, GotoTop DEF Lone, Base, Alone
  <1>7. Pub'
    BY <1>3, <1>6 DEF Pub, At, MidChange
  <1> QED BY <1>3, <1>6, <1>7 DEF Replacing, At

\* The callbacks that start.
LEMMA StartRefines ==
    ASSUME Lone, NEW c \in Cp, NEW d \in Dev, NEW v \in Val,
           Available(c, d) \/ Change(d, v) \/ (CanDispatch /\ Unavailable("main", c, d))
    PROVE  Refines
  <1>1. UNCHANGED <<xdevlist, outputcontents>> /\ CanDispatch
    BY DEF Available, Change, Unavailable
  <1>2. CASE UNCHANGED stack
    <2>1. Settled
      BY <1>1 DEF CanDispatch, Settled, MidChange
    <2>2. Frames' /\ stack'["verify"] = <<>>
      BY <1>2 DEF Lone, Frames, Alone
    <2>3. Busy("main")' => Top("main")'.pc \notin {"insert", "build", "publish"}
      BY <1>2, <2>1 DEF Busy, Top, Settled, MidChange
    <2> QED BY <1>1, <2>1, <2>2, <2>3, QuietStep DEF Lone
  <1>3. CASE \E f \in Frame : Good(f) /\ f.pc \notin MidChange /\ Push("main", f)
    BY <1>1, <1>3, PlainPush
  <1> DEFINE pc == IF c \in {"basic", "gw"} THEN "exists" ELSE "delfind"
             r == NewFrame("refresh", c, d, "prefix", AnyVal, {d})
             a == NewFrame("available", c, d, "services", AnyVal, {})
             u == NewFrame("unavailable", c, d, pc, AnyVal, {})
             h == NewFrame("change", "basic", d, "assign", v, {d})
  <1>4. /\ pc \in {"prefix", "services", "delfind", "exists", "assign"}
        /\ pc \notin MidChange /\ pc # "services"
    BY DEF MidChange
  <1>5. AnyVal \in Val /\ {d} \in SUBSET Dev /\ {} \in SUBSET Dev /\ "basic" \in Cp
    BY AnyValFact DEF Cp
  <1> HIDE DEF pc
  <1>6. /\ r \in Frame /\ r.pc = "prefix" /\ a \in Frame /\ a.pc = "services" /\ a.cb = "available"
        /\ u \in Frame /\ u.pc = pc /\ u.dev = d /\ h \in Frame /\ h.pc = "assign"
    BY <1>4, <1>5, NewFrameFact DEF NewFrame
  <1>7. \/ UNCHANGED stack
        \/ Push("main", r) \/ Push("main", a) \/ Push("main", h)
        \/ d # Self /\ Push("main", u)
    BY DEF Available, Change, Unavailable, NotRemoved, pc
  <1> HIDE DEF r, a, u, h
  <1>8. /\ Good(r) /\ r.pc \notin MidChange /\ Good(a) /\ a.pc \notin MidChange
        /\ Good(h) /\ h.pc \notin MidChange
    BY <1>6 DEF Good, MidChange, Deleting
  <1>9. d # Self => Good(u) /\ u.pc \notin MidChange
    BY <1>4, <1>6 DEF Good
  <1> QED BY <1>2, <1>3, <1>6, <1>7, <1>8, <1>9

\* An attribute changes, or nothing does.
LEMMA ValueRefines ==
    ASSUME Lone, PrefixReply \/ ChangeAssign
    PROVE  Refines
  <1>1. Busy("main") /\ Top("main").pc \in {"prefix", "assign"} /\ UNCHANGED outputcontents
    BY DEF PrefixReply, ChangeAssign, At
  <1>2. /\ "main" \in Thread /\ Top("main") \in Frame
        /\ Top("main").dev \in Dev /\ Top("main").val \in Val
    BY <1>1, TopGood DEF Frame
  <1>3. Settled
    BY <1>1 DEF Settled, MidChange
  <1> DEFINE d == Top("main").dev
  <1>4. \/ UNCHANGED xdevlist /\ (Pop("main") \/ To("main", "copy"))
        \/ \E v \in Val, k \in DOMAIN xdevlist :
              /\ IndexOf(d, k)
              /\ xdevlist' = [xdevlist EXCEPT ![k].val = v]
              /\ To("main", "copy")
    BY <1>2 DEF PrefixReply, ChangeAssign, Return, Send
  <1>5. CASE UNCHANGED xdevlist /\ Pop("main")
    BY <1>1, <1>3, <1>5, PlainPop
  <1>6. CASE UNCHANGED xdevlist /\ To("main", "copy")
    BY <1>1, <1>3, <1>6, PlainTo
  <1>7. ASSUME NEW v \in Val, NEW k \in DOMAIN xdevlist, IndexOf(d, k),
               xdevlist' = [xdevlist EXCEPT ![k].val = v], To("main", "copy")
        PROVE  Refines
    <2>1. /\ Frames' /\ stack'["verify"] = <<>> /\ Pub'
          /\ Replacing = {} /\ Replacing' = {}
      BY <1>1, <1>7, ChangedTo
    <2>2. Contents' = Dir!Others(d) \cup {[sno |-> d, val |-> v]} /\ Dir!Known(d)
      BY <1>7, ValueContents DEF Lone, Base
    <2>3. outputcontents = Contents
      BY <1>3 DEF Lone, Pub, Settled
    <2>4. Dir!Update(d, v)
      BY <1>1, <2>1, <2>2, <2>3 DEF Dir!Update, Dir!Clean
    <2> QED BY <1>2, <2>1, <2>4 DEF Refines, DirStep
  <1> QED BY <1>4, <1>5, <1>6, <1>7

\* The answers of a device.
LEMMA ServicesRefines ==
    ASSUME Lone, ServicesFail \/ ServicesReply
    PROVE  Refines
  <1>1. Busy("main") /\ Top("main").pc = "services" /\ UNCHANGED <<xdevlist, outputcontents>>
    BY DEF ServicesFail, ServicesReply, At
  <1>2. Top("main") \in Frame /\ Good(Top("main"))
    BY <1>1, TopGood
  <1>3. Settled
    BY <1>1 DEF Settled, MidChange
  <1>4. CASE ServicesFail
    BY <1>1, <1>3, <1>4, PlainPop DEF ServicesFail, Return
  <1>5. CASE ServicesReply
    <2>1. PICK v \in Val : Goto("main", [Top("main") EXCEPT !.pc = "find", !.val = v])
      BY <1>5 DEF ServicesReply
    <2> DEFINE g == [Top("main") EXCEPT !.pc = "find", !.val = v]
    <2>2. g \in Frame /\ g.pc = "find" /\ g.cb = Top("main").cb
      BY <1>2 DEF Frame
    <2>3. Goto("main", g)
      BY <2>1
    <2> HIDE DEF g
    <2>4. Good(g) /\ g.pc \notin {"insert", "build", "publish"}
      BY <1>1, <1>2, <2>2 DEF Good
    <2> QED BY <1>1, <1>3, <2>2, <2>3, <2>4, PlainGoto
  <1> QED BY <1>4, <1>5

\* The activation is about to insert an entry: the old one has given way.
LEMMA PrepareRefines ==
    ASSUME Lone, Busy("main"), Settled, NEW f \in Frame, f.pc = "insert",
           f.dev = Top("main").dev, Busy("main")', Top("main")' = f,
           Frames', stack'["verify"] = <<>>, UNCHANGED outputcontents,
           Contents' = Dir!Others(Top("main").dev)
    PROVE  Refines
  <1> DEFINE d == Top("main").dev
  <1>1. d \in Dev
    BY TopGood DEF Frame
  <1>2. Replacing = {} /\ Replacing' = {d}
    BY DEF Replacing, At, Settled, MidChange
  <1>3. outputcontents = Contents
    BY DEF Lone, Pub, Settled
  <1>4. Pub'
    BY DEF Pub, At, MidChange
  <1>5. Dir!Prepare(d)
    BY <1>2, <1>3 DEF Dir!Prepare, Dir!Clean
  <1> QED BY <1>1, <1>4, <1>5 DEF Refines, DirStep

\* update_gwylist starts.
LEMMA UpdateFindRefines ==
    ASSUME Lone, UpdateFind
    PROVE  Refines
  <1>1. Busy("main") /\ Top("main").pc = "find" /\ UNCHANGED <<xdevlist, outputcontents>>
    BY DEF UpdateFind, At
  <1>2. Top("main") \in Frame /\ Good(Top("main"))
    BY <1>1, TopGood
  <1>3. Settled /\ Top("main").pc \in Deleting
    BY <1>1 DEF Settled, MidChange, Deleting
  <1>4. CASE To("main", "delfind")
    BY <1>1, <1>3, <1>4, PlainTo
  <1>5. CASE To("main", "insert") /\ Top("main").dev \notin Listed
    <2> DEFINE g == [Top("main") EXCEPT !.pc = "insert"]
    <2>1. g \in Frame /\ g.pc = "insert" /\ g.dev = Top("main").dev
      BY <1>2 DEF Frame
    <2>2. Goto("main", g)
      BY <1>5 DEF To
    <2> HIDE DEF g
    <2>3. Good(g)
      BY <2>1 DEF Good, Deleting
    <2>4. Busy("main")' /\ Top("main")' = g /\ Frames' /\ stack'["verify"] = <<>>
      BY <1>1, <2>1, <2>2, <2>3, GotoTop DEF Lone, Base, Alone
    <2>5. Contents' = Dir!Others(Top("main").dev)
      <3>1. Contents' = Contents
        BY <1>1 DEF Contents
      <3> QED BY <1>5, <3>1, UnlistedContents
    <2> QED BY <1>1, <1>3, <2>1, <2>4, <2>5, PrepareRefines
  <1>6. PICK found \in BOOLEAN : /\ Lookup("main", Top("main").dev, found)
                                /\ To("main", IF found THEN "delfind" ELSE "insert")
    BY Zenon DEF UpdateFind
  <1>7. CASE found
    BY <1>4, <1>6, <1>7
  <1>8. CASE ~found
    BY <1>5, <1>6, <1>8, LookupLone
  <1> QED BY <1>7, <1>8

\* delete_gwyitem looks the entry up.
LEMMA DeleteFindRefines ==
    ASSUME Lone, DeleteFind("main")
    PROVE  Refines
  <1>1. Busy("main") /\ Top("main").pc = "delfind" /\ UNCHANGED <<xdevlist, outputcontents>>
    BY DEF DeleteFind, At
  <1>2. Top("main") \in Frame /\ Good(Top("main"))
    BY <1>1, TopGood
  <1>3. Settled
    BY <1>1 DEF Settled, MidChange
  <1> DEFINE g == [Top("main") EXCEPT !.pc = "remove", !.held = {Top("main").dev}, !.freed = {}]
  <1>4. /\ g \in Frame /\ g.pc = "remove" /\ g.cb = Top("main").cb
        /\ g.dev = Top("main").dev /\ g.freed = {}
    BY <1>2 DEF Frame
  <1>5. Goto("main", g) \/ Pop("main")
    BY Zenon DEF DeleteFind, Return
  <1> HIDE DEF g
  <1>6. Good(g) /\ g.pc \notin {"insert", "build", "publish"}
    BY <1>1, <1>2, <1>4 DEF Good, Deleting
  <1>7. CASE Goto("main", g)
    BY <1>1, <1>3, <1>4, <1>6, <1>7, PlainGoto
  <1>8. CASE Pop("main")
    BY <1>1, <1>3, <1>8, PlainPop
  <1> QED BY <1>5, <1>7, <1>8

\* delete_gwyitem removes the entry, to replace it or for good.
LEMMA RemoveRefines ==
    ASSUME Lone, Remove("main")
    PROVE  Refines
  <1> DEFINE g == Deleted("main")
             d == Top("main").dev
  <1>1. /\ Busy("main") /\ Busy("main")' /\ Top("main")' = g
        /\ Frames' /\ stack'["verify"] = <<>>
    BY RemoveTop DEF Lone, Base, Alone
  <1>2. /\ Top("main") \in Frame /\ Good(Top("main")) /\ Top("main").pc = "remove"
        /\ d \in Dev /\ UNCHANGED outputcontents /\ "main" \in Thread
    BY <1>1, TopGood DEF Remove, At, Frame
  <1>3. Settled
    BY <1>2 DEF Settled, MidChange
  <1>4. g \in Frame /\ g.dev = d /\ TakenOff(d)
    BY <1>2, RemoveStack DEF Lone, Base
  <1>5. g.pc = IF Top("main").cb = "available" THEN "insert" ELSE "copy"
    BY <1>2 DEF Frame, Deleted
  <1> HIDE DEF g
  <1>6. Contents' = Dir!Others(d) /\ Dir!Known(d)
    BY <1>4, TakenOffContents DEF Lone, Base
  <1>7. CASE Top("main").cb = "available"
    <2>1. g.pc = "insert" /\ Contents' = Dir!Others(d)
      BY <1>5, <1>6, <1>7
    <2> QED BY <1>1, <1>2, <1>3, <1>4, <2>1, PrepareRefines
  <1>8. CASE Top("main").cb # "available"
    <2>1. g.pc = "copy" /\ d # Self
      BY <1>2, <1>5, <1>8 DEF Good, Deleting
    <2>2. Replacing = {} /\ Replacing' = {}
      BY <1>1, <1>2, <2>1 DEF Replacing, At
    <2>3. Pub'
      BY <1>1, <2>1 DEF Pub, At, MidChange
    <2>4. outputcontents = Contents
      BY <1>3 DEF Lone, Pub, Settled
    <2>5. Dir!Drop(d)
      BY <1>2, <1>6, <2>1, <2>2, <2>4 DEF Dir!Drop, Dir!Clean
    <2> QED BY <1>1, <1>2, <2>3, <2>5 DEF Refines, DirStep
  <1> QED BY <1>7, <1>8

\* update_gwylist inserts the new entry.
LEMMA InsertRefines ==
    ASSUME Lone, Insert
    PROVE  Refines
  <1>1. Busy("main") /\ Top("main").pc = "insert" /\ UNCHANGED outputcontents /\ To("main", "copy")
    BY DEF Insert, At, Send
  <1>2. Top("main") \in Frame /\ Top("main").dev \in Dev /\ Top("main").val \in Val
    BY <1>1, TopGood DEF Frame
  <1> DEFINE g == [Top("main") EXCEPT !.pc = "copy"]
             d == Top("main").dev
             v == Top("main").val
  <1>3. g \in Frame /\ g.pc = "copy"
    BY <1>2 DEF Frame
  <1>4. Goto("main", g)
    BY <1>1 DEF To
  <1> HIDE DEF g
  <1>5. Good(g)
    BY <1>3 DEF Good, Deleting
  <1>6. Busy("main")' /\ Top("main")' = g /\ Frames' /\ stack'["verify"] = <<>>
    BY <1>1, <1>3, <1>4, <1>5, GotoTop DEF Lone, Base, Alone
  <1>7. Pub'
    BY <1>3, <1>6 DEF Pub, At, MidChange
  <1>8. Replacing = {d} /\ Replacing' = {}
    BY <1>1, <1>3, <1>6 DEF Replacing, At
  <1>9. Contents' = Contents \cup {[sno |-> d, val |-> v]}
    BY InsertContents DEF Lone, Base
  <1>10. Dir!Enter(d, v)
    BY <1>1, <1>8, <1>9 DEF Dir!Enter
  <1> QED BY <1>2, <1>6, <1>7, <1>10 DEF Refines, DirStep

\* sendDiscoveryResult copies the list, builds the text and publishes it.
LEMMA SendRefines ==
    ASSUME Lone, SendCopy("main") \/ SendBuild("main") \/ SendPublish("main")
    PROVE  Refines
  <1>1. Busy("main") /\ UNCHANGED xdevlist /\ Top("main").pc \in {"copy", "build", "publish"}
    BY DEF SendCopy, SendBuild, SendPublish, At
  <1>2. Top("main") \in Frame
    BY <1>1, TopGood
  <1>3. Contents' = Contents /\ Listed' = Listed
    BY <1>1 DEF Contents, Listed
  <1>4. Replacing = {}
    BY <1>1 DEF Replacing, At
  <1>5. CASE SendCopy("main")
    <2> DEFINE g == [Top("main") EXCEPT !.pc = "build", !.held = Listed, !.freed = {}]
    <2>1. Listed \in SUBSET Dev
      BY ListedFact DEF Lone, Base, RestOK
    <2>2. g \in Frame /\ g.pc = "build" /\ g.held = Listed /\ g.freed = {}
      BY <1>2, <2>1 DEF Frame
    <2>3. Goto("main", g) /\ UNCHANGED outputcontents
      BY <1>5 DEF SendCopy
    <2> HIDE DEF g
    <2>4. Good(g)
      BY <2>2 DEF Good, Deleting
    <2>5. Busy("main")' /\ Top("main")' = g /\ Frames' /\ stack'["verify"] = <<>>
      BY <1>1, <2>2, <2>3, <2>4, GotoTop DEF Lone, Base, Alone
    <2>6. Pub'
      BY <1>3, <2>2, <2>5 DEF Pub, At, MidChange
    <2>7. Replacing' = {}
      BY <2>2, <2>5 DEF Replacing, At
    <2> QED BY <1>3, <1>4, <2>3, <2>5, <2>6, <2>7 DEF Refines, DirStep
  <1>6. CASE SendBuild("main")
    <2> DEFINE live == {e \in Contents : e.sno \in Top("main").held \ Top("main").freed}
               read(garbage) == live \cup {[sno |-> d, val |-> garbage[d]] : d \in Top("main").freed}
               g(l) == [Top("main") EXCEPT !.pc = "publish", !.held = {}, !.freed = {}, !.local = l]
    <2>1. PICK garbage \in [Top("main").freed -> Val] : Goto("main", g(read(garbage)))
      BY <1>6, Zenon DEF SendBuild
    <2>2. Top("main").held = Listed /\ Top("main").freed = {} /\ UNCHANGED outputcontents
      BY <1>6 DEF SendBuild, Lone, Pub
    <2>3. live = Contents
      BY <2>2 DEF Contents, Listed
    <2>4. read(garbage) = Contents
      BY <2>2, <2>3
    <2> HIDE DEF read, live
    <2>5. Contents \in SUBSET Entry
      BY ListedFact DEF Lone, Base, RestOK
    <2>6. g(Contents) \in Frame /\ g(Contents).pc = "publish" /\ g(Contents).local = Contents
      BY <1>2, <2>5 DEF Frame
    <2>7. Goto("main", g(Contents))
      BY <2>1, <2>4
    <2> HIDE DEF g
    <2>8. Good(g(Contents))
      BY <2>6 DEF Good, Deleting
    <2>9. Busy("main")' /\ Top("main")' = g(Contents) /\ Frames' /\ stack'["verify"] = <<>>
      BY <1>1, <2>6, <2>7, <2>8, GotoTop DEF Lone, Base, Alone
    <2>10. Pub'
      BY <1>3, <2>6, <2>9 DEF Pub, At, MidChange
    <2>11. Replacing' = {}
      BY <2>6, <2>9 DEF Replacing, At
    <2> QED BY <1>3, <1>4, <2>2, <2>9, <2>10, <2>11 DEF Refines, DirStep
  <1>7. CASE SendPublish("main")
    <2>1. Pop("main") /\ outputcontents' = Contents
      BY <1>7 DEF SendPublish, Return, Lone, Pub
    <2>2. /\ Busy("main")' => Top("main")'.pc \in Request
          /\ Frames' /\ stack'["verify"] = <<>>
      BY <1>1, <2>1, PopTop DEF Lone, Base, Alone
    <2>3. Pub'
      BY <1>3, <2>1, <2>2 DEF Pub, At, Request
    <2>4. Replacing' = {}
      BY <2>2 DEF Replacing, At, Request
    <2>5. Dir!Publish
      BY <1>3, <1>4, <2>1, <2>4 DEF Dir!Publish
    <2> QED BY <2>2, <2>3, <2>5 DEF Refines, DirStep
  <1> QED BY <1>5, <1>6, <1>7

\* checkDeviceExists and the probe.
LEMMA CheckRefines ==
    ASSUME Lone, CheckDeviceExists("main") \/ Probe("main")
    PROVE  Refines
  <1>1. /\ Busy("main") /\ Top("main").pc \in {"exists", "probe"}
        /\ UNCHANGED <<xdevlist, outputcontents>>
    BY DEF CheckDeviceExists, Probe, At
  <1>2. Settled /\ Top("main").pc \in Deleting
    BY <1>1 DEF Settled, MidChange, Deleting
  <1>3. Pop("main") \/ To("main", "probe") \/ To("main", "delfind")
    BY DEF CheckDeviceExists, Probe, Return
  <1>4. CASE Pop("main")
    BY <1>1, <1>2, <1>4, PlainPop
  <1>5. CASE To("main", "probe") \/ To("main", "delfind")
    BY <1>1, <1>2, <1>5, PlainTo
  <1> QED BY <1>3, <1>4, <1>5

-----------------------------------------------------------------------------
(* Every step. *)

\* A restart of the process is one of the directory.
LEMMA RestartRefines ==
    ASSUME Lone, SelfRestart
    PROVE  Frames' /\ stack'["verify"] = <<>> /\ Pub' /\ Dir!Restart
  <1>1. /\ xdevlist' = <<>> /\ outputcontents' = {}
        /\ stack'["main"] = <<>> /\ stack'["verify"] = <<>>
    BY DEF SelfRestart, Fresh, Thread
  <1>2. Contents' = {} /\ Replacing' = {} /\ ~Busy("main")'
    BY <1>1 DEF Contents, Replacing, At, Busy
  <1>3. Frames'
    BY <1>1 DEF Frames
  <1>4. Pub'
    BY <1>1, <1>2 DEF Pub, At
  <1> QED BY <1>1, <1>2, <1>3, <1>4 DEF Dir!Restart

\* A step that leaves the stacks, the list and the text alone.
LEMMA SameRefines ==
    ASSUME Lone, UNCHANGED <<stack, xdevlist, outputcontents>>
    PROVE  Refines
  <1>1. /\ Contents' = Contents /\ Listed' = Listed /\ Replacing' = Replacing
        /\ Busy("main")' = Busy("main") /\ Top("main")' = Top("main")
    BY DEF Contents, Listed, Replacing, At, Busy, Top
  <1>2. Frames' /\ stack'["verify"] = <<>>
    BY DEF Lone, Frames, Alone
  <1>3. Pub'
    BY <1>1 DEF Lone, Pub, At
  <1> QED BY <1>1, <1>2, <1>3 DEF Refines, DirStep

\* No entry is removed twice, and nothing crashes.
LEMMA NoDoubleFree ==
    ASSUME Lone
    PROVE  ~Crash /\ \A t \in Thread : ~RemoveFreed(t)
  <1>1. ~Crash
    BY DEF Crash, Lone, Base
  <1>2. ASSUME NEW t \in Thread, RemoveFreed(t)
        PROVE  FALSE
    <2>1. Busy(t) /\ Top(t).pc = "remove" /\ Top(t).freed # {}
      BY <1>2 DEF RemoveFreed, At
    <2>2. t = "main"
      BY <2>1 DEF Thread, Busy, Lone, Alone
    <2> QED BY <2>1, <2>2, TopGood DEF Good
  <1> QED BY <1>1, <1>2

\* No step tears the list.
LEMMA NotTorn ==
    ASSUME Lone, [Next]_vars
    PROVE  ~torn'
  <1>1. ~torn
    BY DEF Lone, Base
  <1>2. CASE Network
    BY <1>1, <1>2, LookupLone DEF Network, PowerToggle, Available, ByeBye, Change, vvars
  <1>3. CASE Expiry
    BY <1>1, <1>3 DEF Expiry, Expire, vvars
  <1>4. CASE MainStep
    BY <1>1, <1>4, LookupLone DEF MainStep, PrefixReply, ServicesFail, ServicesReply, UpdateFind,
       Insert, ChangeAssign, vvars
  <1>5. ASSUME NEW t \in Thread, ThreadStep(t)
        PROVE  ~torn'
    <2>1. t = "main"
      BY <1>5 DEF ThreadStep, DeleteFind, Remove, RemoveFreed, SendCopy, SendBuild, SendPublish,
                  CheckDeviceExists, Probe, At, Thread, Busy, Lone, Alone
    <2>2. ~RemoveFreed("main")
      BY <2>1, NoDoubleFree
    <2>3. \A d : ~CutShort("main", d)
      BY DEF CutShort, At, Busy, Thread, Lone, Alone
    <2>4. CASE CheckDeviceExists("main")
      BY <1>1, <2>3, <2>4 DEF CheckDeviceExists
    <2>5. CASE ~CheckDeviceExists("main")
      BY <1>1, <1>5, <2>1, <2>2, <2>5, LookupLone DEF ThreadStep, DeleteFind, Remove, SendCopy,
         SendBuild, SendPublish, Probe, vvars
    <2> QED BY <2>4, <2>5
  <1>6. CASE VerifyStep
    BY <1>1, <1>6 DEF VerifyStep, VerifyCheck, SelfRestart, Fresh, VerifyFlush, VerifyFlushed,
       VerifyActivate, VerifyRescan, vvars
  <1>7. CASE UNCHANGED vars
    BY <1>1, <1>7 DEF vars, vvars
  <1> QED BY <1>2, <1>3, <1>4, <1>5, <1>6, <1>7, NoDoubleFree DEF Next

\* A step is one of the directory, a restart, or changes nothing a reader sees.
LEMMA StepRefines ==
    ASSUME ~ClientXcalServer, Lone, [Next]_vars
    PROVE  /\ Frames' /\ Alone' /\ Pub'
           /\ DirStep \/ (SelfRestart /\ Dir!Restart)
  <1>1. vpc' \notin {"flush", "activate"}
    <2>1. ASSUME VerifyStep PROVE vpc' \notin {"flush", "activate"}
      BY <2>1 DEF VerifyStep, VerifyCheck, SelfRestart, Fresh, VerifyFlush, VerifyFlushed,
                  VerifyActivate, VerifyRescan, NeedFlush, Lone, Alone
    <2>2. ASSUME MainStep PROVE UNCHANGED vpc
      BY <2>2 DEF MainStep, PrefixReply, ServicesFail, ServicesReply, UpdateFind, Insert,
                  ChangeAssign, vvars, watch
    <2>3. ASSUME NEW t \in Thread, ThreadStep(t) PROVE UNCHANGED vpc
      BY <2>3 DEF ThreadStep, DeleteFind, Remove, RemoveFreed, SendCopy, SendBuild, SendPublish,
                  CheckDeviceExists, Probe, vvars, watch
    <2>4. ASSUME Network \/ Expiry PROVE UNCHANGED vpc
      BY <2>4 DEF Network, Expiry, PowerToggle, Available, ByeBye, Change, Expire, vvars, watch
    <2> QED BY <2>1, <2>2, <2>3, <2>4, NoDoubleFree DEF Next, vars, vvars, watch, Lone, Alone
  <1>2. ASSUME NEW d \in Dev, NEW c \in Cp, ByeBye(c, d) \/ Expire(c, d)
        PROVE  Refines
    <2>1. PICK v : v \in Val
      BY DevAssumption
    <2>2. CanDispatch /\ Unavailable("main", c, d)
      BY <1>2 DEF ByeBye, Expire
    <2> QED BY <2>1, <2>2, StartRefines
  <1>3. ASSUME NEW d \in Dev, NEW c \in Cp, Available(c, d)
        PROVE  Refines
    <2>1. PICK v : v \in Val
      BY DevAssumption
    <2> QED BY <1>3, <2>1, StartRefines
  <1>4. ASSUME NEW d \in Dev, NEW v \in Val, Change(d, v)
        PROVE  Refines
    <2>1. "basic" \in Cp
      BY DEF Cp
    <2> QED BY <1>4, <2>1, StartRefines
  <1>5. ASSUME NEW d \in Dev, PowerToggle(d)
        PROVE  Refines
    BY <1>5, SameRefines DEF PowerToggle
  <1>6. ASSUME Network \/ Expiry
        PROVE  Refines
    BY <1>2, <1>3, <1>4, <1>5, <1>6 DEF Network, Expiry
  <1>7. ASSUME MainStep
        PROVE  Refines
    BY <1>7, ValueRefines, ServicesRefines, UpdateFindRefines, InsertRefines DEF MainStep
  <1>8. ASSUME NEW t \in Thread, ThreadStep(t)
        PROVE  Refines
    <2>1. Busy(t)
      BY <1>8 DEF ThreadStep, DeleteFind, Remove, RemoveFreed, SendCopy, SendBuild,
                  SendPublish, CheckDeviceExists, Probe, At
    <2>2. t = "main"
      BY <2>1 DEF Thread, Busy, Lone, Alone
    <2> QED BY <1>8, <2>2, NoDoubleFree, DeleteFindRefines, RemoveRefines, SendRefines,
            CheckRefines DEF ThreadStep
  <1>9. ASSUME VerifyStep
        PROVE  Refines \/ (SelfRestart /\ Frames' /\ stack'["verify"] = <<>> /\ Pub' /\ Dir!Restart)
    <2>1. CASE VerifyCheck \/ VerifyRescan
      BY <2>1, SameRefines DEF VerifyCheck, VerifyRescan
    <2>2. CASE SelfRestart
      BY <2>2, RestartRefines
    <2>3. ~VerifyFlush /\ ~VerifyFlushed /\ ~VerifyActivate
      BY DEF VerifyFlush, VerifyFlushed, VerifyActivate, Lone, Alone
    <2> QED BY <1>9, <2>1, <2>2, <2>3 DEF VerifyStep
  <1>10. ASSUME UNCHANGED vars
         PROVE  Refines
    BY <1>10, SameRefines DEF vars
  <1> QED BY <1>1, <1>6, <1>7, <1>8, <1>9, <1>10, NoDoubleFree DEF Next, Refines, Alone

\* The invariant holds at first.
LEMMA LoneInit == Init => Lone /\ Dir!DirInit
  <1> SUFFICES ASSUME Init PROVE Lone /\ Dir!DirInit
    OBVIOUS
  <1>1. /\ xdevlist = <<>> /\ stack["main"] = <<>> /\ stack["verify"] = <<>>
        /\ outputcontents = {} /\ vpc = "check"
    BY DEF Init, Thread
  <1>2. Stk /\ RestOK /\ ~torn
    BY StackTypedInit DEF Init
  <1>3. DOMAIN xdevlist = {} /\ ~Busy("main")
    BY <1>1 DEF Busy
  <1>4. Sorted /\ FreshInv
    BY <1>3 DEF Sorted, FreshInv, At
  <1>5. Contents = {} /\ Replacing = {}
    BY <1>3 DEF Contents, Replacing, At
  <1>6. Frames /\ Alone
    BY <1>1 DEF Frames, Alone
  <1>7. Pub
    BY <1>1, <1>3, <1>5 DEF Pub, At
  <1> QED BY <1>1, <1>2, <1>4, <1>5, <1>6, <1>7 DEF Lone, Base, Dir!DirInit

\* Every step keeps the invariant.
LEMMA LoneNext == ~ClientXcalServer /\ Lone /\ [Next]_vars => Lone'
  <1> SUFFICES ASSUME ~ClientXcalServer, Lone, [Next]_vars PROVE Lone'
    OBVIOUS
  <1>1. Base'
    BY StackTypedNext, SortedNext, NotTorn DEF Lone, Base, Sure
  <1> QED BY <1>1, StepRefines DEF Lone

\* With no callback running, what is published is what the list holds: in every
\* build in which only the main thread runs callbacks, for any devices, any
\* nesting of them and whatever requests fail.
THEOREM PublishedList == ~ClientXcalServer => (Spec => []PublishedWhenQuiet)
  <1> SUFFICES ASSUME ~ClientXcalServer PROVE Spec => []PublishedWhenQuiet
    OBVIOUS
  <1>1. Init => Lone
    BY LoneInit
  <1>2. Lone /\ [Next]_vars => Lone'
    BY LoneNext
  <1>3. Lone => PublishedWhenQuiet
    <2>1. "main" \in Thread
      BY DEF Thread
    <2> QED BY <2>1 DEF Lone, Pub, PublishedWhenQuiet, Quiet
  <1> QED BY <1>1, <1>2, <1>3, PTL DEF Spec

\* Every step is a step of the directory, or leaves it alone.
LEMMA DirNextStep == ~ClientXcalServer /\ Lone /\ [Next]_vars => [Dir!DirNext]_(Dir!dvars)
  <1> SUFFICES ASSUME ~ClientXcalServer, Lone, [Next]_vars
               PROVE  Dir!DirNext \/ UNCHANGED Dir!dvars
    OBVIOUS
  <1>1. DirStep \/ Dir!Restart
    BY StepRefines
  <1>2. ASSUME UNCHANGED <<Contents, outputcontents, Replacing>> PROVE UNCHANGED Dir!dvars
    BY <1>2 DEF Dir!dvars
  <1> QED BY <1>1, <1>2 DEF DirStep, Dir!DirNext

\* xdiscovery implements the directory: the list changes one device at a time,
\* every change is published, whole, before the next one is made, and this device
\* leaves it only in a restart.
THEOREM DirectoryImplemented == ~ClientXcalServer => (Spec => ImplementsDirectory)
  <1> SUFFICES ASSUME ~ClientXcalServer PROVE Spec => ImplementsDirectory
    OBVIOUS
  <1>1. Init => Lone /\ Dir!DirInit
    BY LoneInit
  <1>2. Lone /\ [Next]_vars => Lone'
    BY LoneNext
  <1>3. Lone /\ [Next]_vars => [Dir!DirNext]_(Dir!dvars)
    BY DirNextStep
  <1> QED BY <1>1, <1>2, <1>3, PTL DEF Spec, ImplementsDirectory, Dir!DirSpec

-----------------------------------------------------------------------------
(* This device stays published. *)

\* A published device that is this one is still in the directory, or about to be.
SelfKept ==
    (\E e \in outputcontents : e.sno = Self) => Dir!Known(Self) \/ Self \in Replacing

\* Steps of the directory keep this device in it, and published.
LEMMA SelfKeptStep ==
    ASSUME SelfKept, DirStep
    PROVE  /\ SelfKept'
           /\ (\E e \in outputcontents : e.sno = Self) => \E e \in outputcontents' : e.sno = Self
  <1>1. ASSUME NEW d \in Dev, Dir!Prepare(d)
        PROVE  SelfKept' /\ outputcontents' = outputcontents
    BY <1>1 DEF Dir!Prepare, Dir!Clean, Dir!Others, Dir!Known, SelfKept
  <1>2. ASSUME NEW d \in Dev, Dir!Drop(d)
        PROVE  SelfKept' /\ outputcontents' = outputcontents
    BY <1>2 DEF Dir!Drop, Dir!Clean, Dir!Others, Dir!Known, SelfKept
  <1>3. ASSUME NEW d \in Dev, NEW v \in Val, Dir!Enter(d, v)
        PROVE  SelfKept' /\ outputcontents' = outputcontents
    <2>1. [sno |-> d, val |-> v].sno = d
      OBVIOUS
    <2> QED BY <1>3, <2>1 DEF Dir!Enter, Dir!Known, SelfKept
  <1>4. ASSUME NEW d \in Dev, NEW v \in Val, Dir!Update(d, v)
        PROVE  SelfKept' /\ outputcontents' = outputcontents
    <2>1. [sno |-> d, val |-> v].sno = d
      OBVIOUS
    <2> QED BY <1>4, <2>1 DEF Dir!Update, Dir!Clean, Dir!Others, Dir!Known, SelfKept
  <1>5. CASE Dir!Publish
    BY <1>5 DEF Dir!Publish, Dir!Known, SelfKept
  <1>6. CASE UNCHANGED <<Contents, outputcontents, Replacing>>
    BY <1>6 DEF Dir!Known, SelfKept
  <1> QED BY <1>1, <1>2, <1>3, <1>4, <1>5, <1>6 DEF DirStep

\* Once published, this device is in everything that is published until the
\* process restarts: no byebye, flush or replacement of its entry takes it out.
THEOREM SelfPublished == ~ClientXcalServer => (Spec => SelfStaysPublished)
  <1> SUFFICES ASSUME ~ClientXcalServer PROVE Spec => SelfStaysPublished
    OBVIOUS
  <1> DEFINE Stays == \/ (\E e \in outputcontents : e.sno = Self)
                            => \/ \E e \in outputcontents' : e.sno = Self
                               \/ restartFile' # restartFile
                      \/ UNCHANGED outputcontents
  <1>1. Init => Lone /\ SelfKept
    <2>1. Init => outputcontents = {}
      BY DEF Init
    <2> QED BY <2>1, LoneInit DEF SelfKept
  <1>2. Lone /\ SelfKept /\ [Next]_vars => Lone' /\ SelfKept' /\ Stays
    <2> SUFFICES ASSUME Lone, SelfKept, [Next]_vars PROVE Lone' /\ SelfKept' /\ Stays
      OBVIOUS
    <2>1. Lone'
      BY LoneNext
    <2>2. CASE DirStep
      BY <2>1, <2>2, SelfKeptStep
    <2>3. CASE SelfRestart
      <3>1. outputcontents' = {} /\ restartFile' = TRUE /\ restartFile \in BOOLEAN /\ ~restartFile
        BY <2>3 DEF SelfRestart, Fresh, SelfMissing, Lone, Base, RestOK
      <3> QED BY <2>1, <3>1 DEF SelfKept
    <2> QED BY <2>2, <2>3, StepRefines
  <1> QED BY <1>1, <1>2, PTL DEF Spec, SelfStaysPublished

-----------------------------------------------------------------------------
(* The count of additions. *)

Exact == deviceAddNo = Counted

\* An addition on its way to delete_gwyitem has found its device, which nothing takes
\* off meanwhile; the places of the callbacks that are not counted.
Found(f, listed) ==
    /\ f.pc = "delfind" /\ f.cb = "available" => f.dev \in listed
    /\ f.pc \in {"exists", "probe"} => f.cb # "available"
    /\ f.pc = "assign" => f.cb \notin Adding

FindInv == Busy("main") => Found(Top("main"), Listed)

Calm == Exact /\ FindInv

\* A callback starts.
LEMMA CalmPush ==
    ASSUME Stk, CanDispatch, Calm, NEW f \in Frame, Found(f, Listed'),
           Push("main", f),
           deviceAddNo' = IF f.cb \in Adding THEN deviceAddNo + 1 ELSE deviceAddNo
    PROVE  Calm'
  <1> DEFINE n == Len(stack["main"])
  <1>1. "main" \in Thread /\ stack["main"] \in Seq(Frame) /\ n \in Nat
    BY DEF Thread, Stk, Stacks
  <1>2. Len(stack'["main"]) = n + 1 /\ stack'["main"][n + 1] = f /\ stack' \in Stacks
    BY <1>1, PushFact DEF Stk
  <1>3. Busy("main")' /\ Top("main")' = f
    BY <1>1, <1>2 DEF Busy, Top
  <1>4. n # 0 => Busy("main") /\ n \in 1..n
    BY <1>1 DEF Busy
  <1>5. n # 0 => Top("main").cb \in Adding
    BY <1>4 DEF CanDispatch, Top, Request, Stk, StackInv
  <1>6. Counted = n
    BY <1>1, <1>5 DEF Counted, Busy
  <1>7. Counted' = IF f.cb \in Adding THEN n + 1 ELSE n
    BY <1>1, <1>2, <1>3 DEF Counted
  <1>8. Exact'
    BY <1>6, <1>7 DEF Calm, Exact
  <1>9. FindInv'
    BY <1>3 DEF FindInv
  <1> QED BY <1>8, <1>9 DEF Calm

\* A callback ends, and takes itself off the count if it was on it.
LEMMA CalmPop ==
    ASSUME Stk, Calm, Busy("main"), Pop("main"),
           deviceAddNo' = IF Top("main").cb \in Adding THEN deviceAddNo - 1 ELSE deviceAddNo
    PROVE  Calm'
  <1> DEFINE n == Len(stack["main"])
  <1>1. "main" \in Thread /\ n \in Nat \ {0}
    BY TopFact DEF Thread, Stk
  <1>2. /\ stack' \in Stacks
        /\ Len(stack'["main"]) = n - 1
        /\ \A i \in 1..(n - 1) : stack'["main"][i] = stack["main"][i]
    BY <1>1, PopFact DEF Stk
  <1>3. stack'["main"] \in Seq(Frame)
    BY <1>1, <1>2 DEF Stacks
  <1>4. Busy("main")' => n - 1 \in 1..(n - 1) /\ n - 1 \in 1..n
    BY <1>1, <1>2, <1>3 DEF Busy
  <1>5. Busy("main")' => Top("main")'.pc \in Request /\ Top("main")'.cb \in Adding
    BY <1>2, <1>4 DEF Top, Stk, StackInv
  <1>6. Counted' = n - 1
    BY <1>2, <1>5 DEF Counted
  <1>7. Counted = IF Top("main").cb \in Adding THEN n ELSE n - 1
    BY DEF Counted
  <1>8. Exact'
    BY <1>1, <1>6, <1>7 DEF Calm, Exact
  <1>9. FindInv'
    BY <1>5 DEF FindInv, Found, Request
  <1> QED BY <1>8, <1>9 DEF Calm

\* A callback moves on.
LEMMA CalmMoved ==
    ASSUME Stk, Calm, Busy("main"), NEW f, f.cb = Top("main").cb, Found(f, Listed'),
           Busy("main")', Top("main")' = f, Len(stack'["main"]) = Len(stack["main"]),
           UNCHANGED deviceAddNo
    PROVE  Calm'
  <1>1. Exact'
    BY DEF Calm, Exact, Counted
  <1>2. FindInv'
    BY DEF FindInv
  <1> QED BY <1>1, <1>2 DEF Calm

\* The same, by Goto.
LEMMA CalmGoto ==
    ASSUME Stk, Calm, Busy("main"), NEW f \in Frame, f.cb = Top("main").cb, Found(f, Listed'),
           Goto("main", f), UNCHANGED deviceAddNo
    PROVE  Calm'
  <1> DEFINE n == Len(stack["main"])
  <1>1. "main" \in Thread /\ n \in Nat \ {0}
    BY TopFact DEF Thread, Stk
  <1>2. Len(stack'["main"]) = n /\ stack'["main"][n] = f
    BY <1>1, GotoFact DEF Stk
  <1>3. Busy("main")' /\ Top("main")' = f
    BY <1>1, <1>2 DEF Busy, Top
  <1> QED BY <1>2, <1>3, CalmMoved

\* A callback goes on to another place.
LEMMA CalmTo ==
    ASSUME Lone, Calm, Busy("main"),
           NEW pc \in {"insert", "copy", "delfind", "probe"}, To("main", pc),
           pc = "delfind" /\ Top("main").cb = "available" => Top("main").dev \in Listed',
           pc = "probe" => Top("main").cb # "available",
           UNCHANGED deviceAddNo
    PROVE  Calm'
  <1>1. Top("main") \in Frame
    BY TopGood
  <1> DEFINE g == [Top("main") EXCEPT !.pc = pc]
  <1>2. g \in Frame /\ g.pc = pc /\ g.cb = Top("main").cb /\ g.dev = Top("main").dev
    BY <1>1 DEF Frame
  <1>3. Goto("main", g)
    BY DEF To
  <1> HIDE DEF g
  <1>4. Found(g, Listed')
    BY <1>2 DEF Found
  <1> QED BY <1>2, <1>3, <1>4, CalmGoto DEF Lone, Base

\* Callbacks that start.
LEMMA StartCalm ==
    ASSUME Lone, Calm, NEW c \in Cp, NEW d \in Dev, NEW v \in Val,
           Available(c, d) \/ Change(d, v) \/ (CanDispatch /\ Unavailable("main", c, d))
    PROVE  Calm'
  <1>1. UNCHANGED xdevlist /\ CanDispatch /\ Stk /\ Listed' = Listed
    BY DEF Available, Change, Unavailable, Lone, Base, Listed
  <1>2. CASE UNCHANGED <<stack, deviceAddNo>>
    BY <1>1, <1>2 DEF Calm, Exact, Counted, FindInv, Busy, Top
  <1> DEFINE pc == IF c \in {"basic", "gw"} THEN "exists" ELSE "delfind"
             r == NewFrame("refresh", c, d, "prefix", AnyVal, {d})
             a == NewFrame("available", c, d, "services", AnyVal, {})
             u == NewFrame("unavailable", c, d, pc, AnyVal, {})
             h == NewFrame("change", "basic", d, "assign", v, {d})
  <1>4. pc \in {"prefix", "services", "delfind", "exists", "assign"} /\ pc # "assign"
    OBVIOUS
  <1>5. AnyVal \in Val /\ {d} \in SUBSET Dev /\ {} \in SUBSET Dev /\ "basic" \in Cp
    BY AnyValFact DEF Cp
  <1>6. \/ UNCHANGED <<stack, deviceAddNo>>
        \/ (Push("main", r) \/ Push("main", a)) /\ deviceAddNo' = deviceAddNo + 1
        \/ (Push("main", u) \/ Push("main", h)) /\ UNCHANGED deviceAddNo
    BY DEF Available, Change, Unavailable, flags
  <1> HIDE DEF pc
  <1>7. /\ r \in Frame /\ r.pc = "prefix" /\ r.cb = "refresh"
        /\ a \in Frame /\ a.pc = "services" /\ a.cb = "available"
    BY <1>5, NewFrameFact DEF NewFrame
  <1>8. /\ u \in Frame /\ u.pc = pc /\ u.cb = "unavailable"
        /\ h \in Frame /\ h.pc = "assign" /\ h.cb = "change"
    BY <1>4, <1>5, NewFrameFact DEF NewFrame
  <1> HIDE DEF r, a, u, h
  <1>9. Found(r, Listed') /\ Found(a, Listed') /\ r.cb \in Adding /\ a.cb \in Adding
    BY <1>7 DEF Found, Adding
  <1>10. Found(u, Listed') /\ Found(h, Listed') /\ u.cb \notin Adding /\ h.cb \notin Adding
    BY <1>4, <1>8 DEF Found, Adding
  <1>11. CASE (Push("main", r) \/ Push("main", a)) /\ deviceAddNo' = deviceAddNo + 1
    BY <1>1, <1>7, <1>9, <1>11, CalmPush
  <1>12. CASE (Push("main", u) \/ Push("main", h)) /\ UNCHANGED deviceAddNo
    BY <1>1, <1>8, <1>10, <1>12, CalmPush
  <1> QED BY <1>2, <1>6, <1>11, <1>12

\* The steps of the main thread's callbacks.
LEMMA MainCalm ==
    ASSUME Lone, Calm, MainStep
    PROVE  Calm'
  <1>1. Busy("main") /\ Stk
    BY DEF MainStep, PrefixReply, ServicesFail, ServicesReply, UpdateFind, Insert, ChangeAssign,
           At, Lone, Base
  <1>2. Top("main") \in Frame
    BY <1>1, TopGood
  <1>3. CASE PrefixReply
    <2>1. Return("main") \/ (To("main", "copy") /\ UNCHANGED deviceAddNo)
      BY <1>3 DEF PrefixReply, Send
    <2> QED BY <1>1, <2>1, CalmPop, CalmTo DEF Return
  <1>4. CASE ServicesFail
    BY <1>1, <1>4, CalmPop DEF ServicesFail, Return
  <1>5. CASE ServicesReply
    <2>1. PICK v \in Val : Goto("main", [Top("main") EXCEPT !.pc = "find", !.val = v])
      BY <1>5 DEF ServicesReply
    <2> DEFINE g == [Top("main") EXCEPT !.pc = "find", !.val = v]
    <2>2. g \in Frame /\ g.pc = "find" /\ g.cb = Top("main").cb
      BY <1>2 DEF Frame
    <2>3. Goto("main", g) /\ UNCHANGED deviceAddNo
      BY <1>5, <2>1 DEF ServicesReply, flags
    <2> HIDE DEF g
    <2>4. Found(g, Listed')
      BY <2>2 DEF Found
    <2> QED BY <1>1, <2>2, <2>3, <2>4, CalmGoto
  <1>6. CASE UpdateFind
    <2>1. UNCHANGED deviceAddNo /\ Listed' = Listed
      BY <1>6 DEF UpdateFind, flags, Listed
    <2>2. PICK found \in BOOLEAN : /\ Lookup("main", Top("main").dev, found)
                                  /\ To("main", IF found THEN "delfind" ELSE "insert")
      BY <1>6, Zenon DEF UpdateFind
    <2>3. CASE found
      <3>1. Top("main").dev \in Listed'
        BY <2>1, <2>2, <2>3, LookupLone
      <3> QED BY <1>1, <2>1, <2>2, <2>3, <3>1, CalmTo
    <2>4. CASE ~found
      BY <1>1, <2>1, <2>2, <2>4, CalmTo
    <2> QED BY <2>3, <2>4
  <1>7. CASE Insert
    BY <1>1, <1>7, CalmTo DEF Insert, Send, flags
  <1>8. CASE ChangeAssign
    <2>1. Top("main").cb \notin Adding
      BY <1>1, <1>8 DEF Calm, FindInv, Found, ChangeAssign, At
    <2>2. UNCHANGED deviceAddNo /\ (Pop("main") \/ To("main", "copy"))
      BY <1>8 DEF ChangeAssign, Send, flags
    <2> QED BY <1>1, <2>1, <2>2, CalmPop, CalmTo
  <1> QED BY <1>3, <1>4, <1>5, <1>6, <1>7, <1>8 DEF MainStep

\* The steps shared with the other thread.
LEMMA ThreadCalm ==
    ASSUME Lone, Calm, ThreadStep("main"), ~RemoveFreed("main")
    PROVE  Calm'
  <1>1. Busy("main") /\ Stk /\ "main" \in Thread
    BY DEF ThreadStep, DeleteFind, Remove, SendCopy, SendBuild, SendPublish, CheckDeviceExists,
           Probe, At, Lone, Base, Thread
  <1>2. Top("main") \in Frame
    BY <1>1, TopGood
  <1>3. CASE DeleteFind("main")
    <2>1. Top("main").pc = "delfind"
      BY <1>3 DEF DeleteFind, At
    <2> DEFINE f == Top("main")
               g == [f EXCEPT !.pc = "remove", !.held = {f.dev}, !.freed = {}]
    <2>2. PICK found \in BOOLEAN :
             /\ Lookup("main", f.dev, found)
             /\ IF found THEN Goto("main", g) /\ UNCHANGED deviceAddNo
                ELSE f.cb # "available" => Return("main")
      BY <1>3, Zenon DEF DeleteFind
    <2>3. CASE found
      <3>1. g \in Frame /\ g.pc = "remove" /\ g.cb = f.cb
        BY <1>2 DEF Frame
      <3>2. Goto("main", g) /\ UNCHANGED deviceAddNo
        BY <2>2, <2>3
      <3> HIDE DEF g
      <3>3. Found(g, Listed')
        BY <3>1 DEF Found
      <3> QED BY <1>1, <3>1, <3>2, <3>3, CalmGoto
    <2>4. CASE ~found
      <3>1. f.dev \notin Listed
        BY <2>2, <2>4, LookupLone
      <3>2. f.cb # "available"
        BY <1>1, <2>1, <3>1 DEF Calm, FindInv, Found
      <3>3. Return("main")
        BY <2>2, <2>4, <3>2
      <3> QED BY <1>1, <3>3, CalmPop DEF Return
    <2> QED BY <2>3, <2>4
  <1>4. CASE Remove("main")
    <2> DEFINE g == Deleted("main")
    <2>1. Busy("main")' /\ Top("main")' = g
      BY <1>4, RemoveTop DEF Lone, Base, Alone
    <2>2. /\ g \in Frame /\ g.cb = Top("main").cb /\ g.pc \in {"insert", "copy"}
          /\ Len(stack'["main"]) = Len(stack["main"])
      BY <1>1, <1>4, RemoveStack DEF OthersMarked, Lone, Base
    <2> HIDE DEF g
    <2>3. Found(g, Listed')
      BY <2>2 DEF Found
    <2>4. UNCHANGED deviceAddNo
      BY <1>4 DEF Remove
    <2> QED BY <1>1, <2>1, <2>2, <2>3, <2>4, CalmMoved
  <1>5. CASE SendCopy("main")
    <2> DEFINE g == [Top("main") EXCEPT !.pc = "build", !.held = Listed, !.freed = {}]
    <2>1. Listed \in SUBSET Dev
      BY ListedFact DEF Lone, Base, RestOK
    <2>2. g \in Frame /\ g.pc = "build" /\ g.cb = Top("main").cb
      BY <1>2, <2>1 DEF Frame
    <2>3. Goto("main", g) /\ UNCHANGED deviceAddNo
      BY <1>5 DEF SendCopy, flags
    <2> HIDE DEF g
    <2>4. Found(g, Listed')
      BY <2>2 DEF Found
    <2> QED BY <1>1, <2>2, <2>3, <2>4, CalmGoto
  <1>6. CASE SendBuild("main")
    <2> DEFINE live == {e \in Contents : e.sno \in Top("main").held \ Top("main").freed}
               read(garbage) == live \cup {[sno |-> d, val |-> garbage[d]] : d \in Top("main").freed}
               g(l) == [Top("main") EXCEPT !.pc = "publish", !.held = {}, !.freed = {}, !.local = l]
    <2>1. PICK garbage \in [Top("main").freed -> Val] : Goto("main", g(read(garbage)))
      BY <1>6, Zenon DEF SendBuild
    <2>2. Top("main").freed = {} /\ UNCHANGED deviceAddNo
      BY <1>6 DEF SendBuild, Lone, Pub
    <2>3. Contents \in SUBSET Entry
      BY ListedFact DEF Lone, Base, RestOK
    <2>4. read(garbage) \in SUBSET Entry
      BY <2>2, <2>3
    <2> HIDE DEF read
    <2> DEFINE f == g(read(garbage))
    <2>5. f \in Frame /\ f.pc = "publish" /\ f.cb = Top("main").cb
      BY <1>2, <2>4 DEF Frame
    <2>6. Goto("main", f)
      BY <2>1
    <2> HIDE DEF g, f
    <2>7. Found(f, Listed')
      BY <2>5 DEF Found
    <2> QED BY <1>1, <2>2, <2>5, <2>6, <2>7, CalmGoto
  <1>7. CASE SendPublish("main")
    BY <1>1, <1>7, CalmPop DEF SendPublish, Return
  <1>8. CASE CheckDeviceExists("main") \/ Probe("main")
    <2>1. Top("main").cb # "available"
      BY <1>1, <1>8 DEF Calm, FindInv, Found, CheckDeviceExists, Probe, At
    <2>2. \/ Return("main")
          \/ (To("main", "probe") \/ To("main", "delfind")) /\ UNCHANGED deviceAddNo
      BY <1>8 DEF CheckDeviceExists, Probe
    <2> QED BY <1>1, <2>1, <2>2, CalmPop, CalmTo DEF Return
  <1> QED BY <1>3, <1>4, <1>5, <1>6, <1>7, <1>8 DEF ThreadStep

\* Every step keeps the count exact.
LEMMA CalmNext == ~ClientXcalServer /\ Lone /\ Calm /\ [Next]_vars => Calm'
  <1> SUFFICES ASSUME ~ClientXcalServer, Lone, Calm, [Next]_vars PROVE Calm'
    OBVIOUS
  <1>1. ASSUME UNCHANGED <<stack, xdevlist, deviceAddNo>> PROVE Calm'
    BY <1>1 DEF Calm, Exact, Counted, FindInv, Busy, Top, Listed
  <1>2. PICK v0 : v0 \in Val
    BY DevAssumption
  <1>3. ASSUME NEW d \in Dev, NEW c \in Cp, ByeBye(c, d) \/ Expire(c, d) \/ Available(c, d)
        PROVE  Calm'
    <2>1. (CanDispatch /\ Unavailable("main", c, d)) \/ Available(c, d)
      BY <1>3 DEF ByeBye, Expire
    <2> QED BY <1>2, <2>1, StartCalm
  <1>4. ASSUME NEW d \in Dev, NEW v \in Val, Change(d, v)
        PROVE  Calm'
    <2>1. "basic" \in Cp
      BY DEF Cp
    <2> QED BY <1>4, <2>1, StartCalm
  <1>5. ASSUME NEW d \in Dev, PowerToggle(d)
        PROVE  Calm'
    BY <1>1, <1>5 DEF PowerToggle, flags
  <1>6. CASE Network \/ Expiry
    BY <1>3, <1>4, <1>5, <1>6 DEF Network, Expiry
  <1>7. CASE MainStep
    BY <1>7, MainCalm
  <1>8. ASSUME NEW t \in Thread, ThreadStep(t)
        PROVE  Calm'
    <2>1. Busy(t)
      BY <1>8 DEF ThreadStep, DeleteFind, Remove, RemoveFreed, SendCopy, SendBuild,
                  SendPublish, CheckDeviceExists, Probe, At
    <2>2. t = "main"
      BY <2>1 DEF Thread, Busy, Lone, Alone
    <2> QED BY <1>8, <2>2, NoDoubleFree, ThreadCalm
  <1>9. CASE VerifyStep
    <2>1. CASE VerifyCheck \/ VerifyRescan
      BY <1>1, <2>1 DEF VerifyCheck, VerifyRescan, flags
    <2>2. CASE SelfRestart
      <3>1. stack'["main"] = <<>> /\ deviceAddNo' = 0
        BY <2>2 DEF SelfRestart, Fresh, Thread
      <3>2. ~Busy("main")' /\ Len(stack'["main"]) = 0
        BY <3>1 DEF Busy
      <3> QED BY <3>1, <3>2 DEF Calm, Exact, Counted, FindInv
    <2>3. ~VerifyFlush /\ ~VerifyFlushed /\ ~VerifyActivate
      BY DEF VerifyFlush, VerifyFlushed, VerifyActivate, Lone, Alone
    <2> QED BY <1>9, <2>1, <2>2, <2>3 DEF VerifyStep
  <1>10. CASE UNCHANGED vars
    BY <1>1, <1>10 DEF vars, flags
  <1> QED BY <1>6, <1>7, <1>8, <1>9, <1>10, NoDoubleFree DEF Next

\* The invariant holds at first.
LEMMA CalmInit == Init => Calm
  <1> SUFFICES ASSUME Init PROVE Calm
    OBVIOUS
  <1>1. stack["main"] = <<>> /\ deviceAddNo = 0
    BY DEF Init, Thread
  <1>2. ~Busy("main") /\ Len(stack["main"]) = 0
    BY <1>1 DEF Busy
  <1> QED BY <1>1, <1>2 DEF Calm, Exact, Counted, FindInv

\* The additions are the activations that are counted.
LEMMA ExactCount == Stk /\ Exact => AddCountExact
  <1> SUFFICES ASSUME Stk, Exact PROVE AddCountExact
    OBVIOUS
  <1> DEFINE n == Len(stack["main"])
             c == Counted
  <1>1. stack["main"] \in Seq(Frame) /\ n \in Nat /\ DOMAIN stack["main"] = 1..n
    BY DEF Stk, Stacks, Thread
  <1>2. Busy("main") => n # 0
    BY <1>1 DEF Busy
  <1>3. c \in Nat
    BY <1>1, <1>2 DEF Counted
  <1>4. \A i \in 1..(n - 1) : stack["main"][i].cb \in Adding
    <2>1. \A i \in 1..(n - 1) : i \in 1..n
      BY <1>1
    <2> QED BY <2>1 DEF Stk, StackInv
  <1>5. Additions = 1..c
    <2>1. \A i \in 1..n : i \in 1..(n - 1) \/ i = n
      BY <1>1
    <2>2. CASE Busy("main") /\ Top("main").cb \notin Adding
      <3>1. c = n - 1 /\ n \notin Additions
        BY <2>2 DEF Counted, Additions, Top
      <3>2. \A i \in 1..(n - 1) : i \in 1..n
        BY <1>1
      <3> QED BY <1>1, <1>4, <2>1, <3>1, <3>2 DEF Additions
    <2>3. CASE ~(Busy("main") /\ Top("main").cb \notin Adding)
      <3>1. c = n
        BY <2>3 DEF Counted
      <3>2. n # 0 => stack["main"][n].cb \in Adding
        BY <1>1, <2>3 DEF Busy, Top
      <3>3. \A i \in 1..n : stack["main"][i].cb \in Adding
        BY <1>1, <1>4, <2>1, <3>2
      <3> QED BY <1>1, <3>1, <3>3 DEF Additions
    <2> QED BY <2>2, <2>3
  <1> HIDE DEF c
  <1>6. Cardinality(1..c) = c
    <2>1. Cardinality(1..c) = IF 1 > c THEN 0 ELSE c - 1 + 1
      BY <1>3, FS_Interval
    <2> QED BY <1>3, <2>1
  <1> QED BY <1>5, <1>6 DEF AddCountExact, Exact, c

\* deviceAddNo is the number of additions in progress, no more and no less, for
\* any nesting: it comes back to 0, and verify_devices to its rescans.
THEOREM AdditionsExact == ~ClientXcalServer => (Spec => []AddCountExact)
  <1> SUFFICES ASSUME ~ClientXcalServer PROVE Spec => []AddCountExact
    OBVIOUS
  <1>1. Init => Lone /\ Calm
    BY LoneInit, CalmInit
  <1>2. Lone /\ Calm /\ [Next]_vars => Lone' /\ Calm'
    BY LoneNext, CalmNext
  <1>3. Lone /\ Calm => AddCountExact
    BY ExactCount DEF Lone, Base, Calm
  <1> QED BY <1>1, <1>2, <1>3, PTL DEF Spec

-----------------------------------------------------------------------------
(* The IARM interface: the reader and the update events. *)

\* Nothing was published since a restart: readers keep what they had.
Empty == restartFile /\ outputcontents = {}

Reader == [length : Nat, status : {"text", "waiting", "unwritten", "none"},
           text : SUBSET Entry, over : Nat]

IarmTypes == bus \in Seq(Nat) /\ reader \in Reader

\* The newest event on its way carries the length of the text that is published;
\* with none on its way it is the length of the reader's buffer, and a reader that
\* has made its call has the text.
Newest ==
    IF bus # <<>> THEN bus[Len(bus)] = TextLength(outputcontents) + 1
    ELSE IF reader.length > 0 THEN reader.length = TextLength(outputcontents) + 1
    ELSE reader.status = "none" \/ (reader.status = "text" /\ reader.text = outputcontents)

IarmInv == Lone /\ IarmTypes /\ (Empty \/ Newest) /\ reader.over <= 1

\* The published text is a set of entries, and its length a number.
LEMMA LengthFact ==
    ASSUME RestOK
    PROVE  TextLength(outputcontents) \in Nat
  BY IarmAssumption DEF RestOK

\* An event is sent: it is the newest.
LEMMA NotifyKeeps ==
    ASSUME IarmTypes, RestOK', notifyXUPnPDataUpdateEvent, UNCHANGED reader
    PROVE  IarmTypes' /\ Newest'
  <1> DEFINE l == TextLength(outputcontents') + 1
  <1>1. TextLength(outputcontents') \in Nat
    BY IarmAssumption DEF RestOK
  <1>2. l \in Nat
    BY <1>1
  <1>3. bus' = Append(bus, l)
    BY DEF notifyXUPnPDataUpdateEvent, deviceInfoLength
  <1> HIDE DEF l
  <1>4. bus' \in Seq(Nat) /\ bus' # <<>> /\ bus'[Len(bus')] = l
    BY <1>2, <1>3 DEF IarmTypes
  <1>5. IarmTypes'
    BY <1>4 DEF IarmTypes
  <1>6. Newest'
    BY <1>4 DEF Newest, l
  <1> QED BY <1>5, <1>6

\* Only a publication and a restart change the text.
LEMMA TextChanges ==
    ASSUME Lone, [Next]_vars, ~\E t \in Thread : SendPublish(t)
    PROVE  \/ UNCHANGED <<outputcontents, restartFile>>
           \/ restartFile' /\ outputcontents' = {}
  <1>1. ASSUME VerifyStep
        PROVE  \/ UNCHANGED <<outputcontents, restartFile>>
               \/ restartFile' /\ outputcontents' = {}
    BY <1>1 DEF VerifyStep, VerifyCheck, SelfRestart, Fresh, VerifyFlush, Unavailable, VerifyFlushed,
                VerifyActivate, VerifyRescan, vvars, watch
  <1>2. ASSUME MainStep PROVE UNCHANGED <<outputcontents, restartFile>>
    BY <1>2 DEF MainStep, PrefixReply, ServicesFail, ServicesReply, UpdateFind, Insert,
                ChangeAssign, vvars, watch
  <1>3. ASSUME NEW t \in Thread, ThreadStep(t) PROVE UNCHANGED <<outputcontents, restartFile>>
    BY <1>3 DEF ThreadStep, DeleteFind, Remove, RemoveFreed, SendCopy, SendBuild,
                CheckDeviceExists, Probe, vvars, watch
  <1>4. ASSUME Network \/ Expiry PROVE UNCHANGED <<outputcontents, restartFile>>
    BY <1>4 DEF Network, Expiry, PowerToggle, Available, ByeBye, Change, Expire, Unavailable, vvars, watch
  <1> QED BY <1>1, <1>2, <1>3, <1>4, NoDoubleFree DEF Next, vars, vvars, watch

\* A step of the daemon.
LEMMA DaemonKeeps ==
    ASSUME ~ClientXcalServer, IarmInv, Daemon
    PROVE  IarmInv'
  <1>1. Lone' /\ RestOK'
    BY LoneNext DEF Daemon, IarmInv, Lone, Base
  <1>2. CASE \E t \in Thread : SendPublish(t)
    <2>1. notifyXUPnPDataUpdateEvent /\ UNCHANGED reader
      BY <1>2 DEF Daemon
    <2> QED BY <1>1, <2>1, NotifyKeeps DEF IarmInv
  <1>3. CASE ~\E t \in Thread : SendPublish(t)
    <2>1. UNCHANGED <<bus, reader>> /\ [Next]_vars /\ Lone
      BY <1>3 DEF Daemon, IarmInv
    <2>2. IarmTypes' /\ (reader.over <= 1)'
      BY <2>1 DEF IarmInv, IarmTypes
    <2>3. CASE UNCHANGED <<outputcontents, restartFile>>
      BY <1>1, <2>1, <2>2, <2>3 DEF IarmInv, Empty, Newest
    <2>4. CASE restartFile' /\ outputcontents' = {}
      BY <1>1, <2>2, <2>4 DEF IarmInv, Empty
    <2> QED BY <1>3, <2>1, <2>3, <2>4, TextChanges
  <1> QED BY <1>2, <1>3

\* A step that leaves the daemon alone keeps its invariant.
LEMMA DaemonSame ==
    ASSUME ~ClientXcalServer, Lone, UNCHANGED vars
    PROVE  Lone' /\ Empty' = Empty /\ UNCHANGED outputcontents
  BY LoneNext DEF vars, vvars, watch, Empty

\* The reader handles an event.
LEMMA DataUpdateKeeps ==
    ASSUME ~ClientXcalServer, IarmInv, DataUpdate
    PROVE  IarmInv'
  <1>1. Lone' /\ Empty' = Empty /\ UNCHANGED outputcontents
    BY DaemonSame DEF DataUpdate, IarmInv
  <1>2. /\ bus \in Seq(Nat) /\ bus # <<>> /\ bus' = Tail(bus)
        /\ reader' = [length |-> Head(bus), status |-> "waiting", text |-> {}, over |-> 0]
    BY DEF DataUpdate, IarmInv, IarmTypes
  <1>3. Head(bus) \in Nat /\ Tail(bus) \in Seq(Nat) /\ Len(bus) \in Nat \ {0}
    BY <1>2
  <1>4. IarmTypes' /\ (reader.over <= 1)'
    BY <1>2, <1>3 DEF IarmTypes, Reader
  <1>5. Newest => Newest'
    <2> SUFFICES ASSUME Newest PROVE Newest'
      OBVIOUS
    <2>1. bus[Len(bus)] = TextLength(outputcontents) + 1
      BY <1>2 DEF Newest
    <2>2. TextLength(outputcontents) \in Nat
      BY LengthFact DEF IarmInv, Lone, Base
    <2>3. CASE Len(bus) = 1
      <3>1. Tail(bus) = <<>> /\ Head(bus) = bus[Len(bus)]
        BY <1>2, <2>3
      <3> QED BY <1>1, <1>2, <2>1, <2>2, <3>1 DEF Newest
    <2>4. CASE Len(bus) # 1
      <3>1. Tail(bus) # <<>> /\ Tail(bus)[Len(Tail(bus))] = bus[Len(bus)]
        <4> DEFINE n == Len(bus)
        <4>1. Len(Tail(bus)) = n - 1 /\ \A i \in 1..(n - 1) : Tail(bus)[i] = bus[i + 1]
          BY <1>2, HeadTailProperties
        <4>2. n \in Nat \ {0} /\ n # 1
          BY <1>3, <2>4
        <4> HIDE DEF n
        <4>3. n - 1 \in 1..(n - 1) /\ n - 1 + 1 = n /\ n - 1 # 0
          BY <4>2
        <4>4. Tail(bus)[n - 1] = bus[n]
          BY <4>1, <4>3
        <4> QED BY <4>1, <4>3, <4>4 DEF n
      <3> QED BY <1>1, <1>2, <2>1, <3>1 DEF Newest
    <2> QED BY <2>3, <2>4
  <1> QED BY <1>1, <1>4, <1>5 DEF IarmInv

\* The reader makes its call.
LEMMA GetKeeps ==
    ASSUME ~ClientXcalServer, IarmInv, GetXUPNPDeviceInfo
    PROVE  IarmInv'
  <1>1. Lone' /\ Empty' = Empty /\ UNCHANGED <<outputcontents, bus>>
    BY DaemonSame DEF GetXUPNPDeviceInfo, IarmInv
  <1> DEFINE l == TextLength(outputcontents)
             n == reader.length
  <1>2. /\ l \in Nat /\ n \in Nat /\ n > 0 /\ reader \in Reader
        /\ outputcontents \in SUBSET Entry
    BY LengthFact DEF GetXUPNPDeviceInfo, IarmInv, IarmTypes, Reader, RestOK, Lone, Base
  <1>3. bus = <<>> /\ Newest => Fits(n)
    BY <1>2 DEF Newest, Fits
  <1>4. CASE /\ Fits(n)
             /\ reader' = [length |-> 0, status |-> "text", text |-> outputcontents,
                           over |-> IF l + 1 > n THEN l + 1 - n ELSE 0]
    <2>1. (IF l + 1 > n THEN l + 1 - n ELSE 0) \in 0..1
      BY <1>2, <1>4 DEF Fits
    <2> HIDE DEF l, n
    <2>2. IarmTypes' /\ (reader.over <= 1)'
      BY <1>1, <1>2, <1>4, <2>1 DEF IarmInv, IarmTypes, Reader
    <2>3. Newest => Newest'
      BY <1>1, <1>4 DEF Newest
    <2> QED BY <1>1, <2>2, <2>3 DEF IarmInv
  <1>5. CASE ~Fits(n) /\ reader' = [reader EXCEPT !.length = 0, !.status = "unwritten"]
    <2>1. IarmTypes' /\ (reader.over <= 1)'
      BY <1>1, <1>2, <1>5 DEF IarmInv, IarmTypes, Reader
    <2>2. Newest => Newest'
      BY <1>1, <1>3, <1>5 DEF Newest
    <2> QED BY <1>1, <2>1, <2>2 DEF IarmInv
  <1>6. CASE reader' = [reader EXCEPT !.length = 0, !.status = "none"]
    <2>1. IarmTypes' /\ (reader.over <= 1)'
      BY <1>1, <1>2, <1>6 DEF IarmInv, IarmTypes, Reader
    <2>2. reader'.status = "none" /\ reader'.length = 0
      BY <1>2, <1>6 DEF Reader
    <2>3. Newest => Newest'
      BY <1>1, <2>2 DEF Newest
    <2> QED BY <1>1, <2>1, <2>3 DEF IarmInv
  <1> QED BY <1>4, <1>5, <1>6 DEF GetXUPNPDeviceInfo

\* Every step keeps the invariant.
LEMMA IarmKeeps == ~ClientXcalServer /\ IarmInv /\ [IarmNext]_ivars => IarmInv'
  <1> SUFFICES ASSUME ~ClientXcalServer, IarmInv, [IarmNext]_ivars PROVE IarmInv'
    OBVIOUS
  <1>1. CASE DataRequest
    <2>1. Lone' /\ RestOK'
      BY <1>1, DaemonSame DEF DataRequest, IarmInv, Lone, Base
    <2>2. notifyXUPnPDataUpdateEvent /\ UNCHANGED reader
      BY <1>1 DEF DataRequest
    <2> QED BY <2>1, <2>2, NotifyKeeps DEF IarmInv
  <1>2. CASE UNCHANGED ivars
    <2>1. UNCHANGED vars /\ UNCHANGED <<bus, reader>>
      BY <1>2 DEF ivars
    <2>2. Lone' /\ Empty' = Empty /\ UNCHANGED outputcontents
      BY <2>1, DaemonSame DEF IarmInv
    <2> QED BY <2>1, <2>2 DEF IarmInv, IarmTypes, Newest
  <1> QED BY <1>1, <1>2, DaemonKeeps, DataUpdateKeeps, GetKeeps DEF IarmNext

\* ... which holds at first.
LEMMA IarmStarts == IarmInit => IarmInv
  <1> SUFFICES ASSUME IarmInit PROVE IarmInv
    OBVIOUS
  <1>1. Lone /\ outputcontents = {}
    BY LoneInit DEF IarmInit, Init
  <1>2. /\ bus = <<>>
        /\ reader = [length |-> 0, status |-> "text", text |-> {}, over |-> 0]
    BY DEF IarmInit
  <1> QED BY <1>1, <1>2 DEF IarmInv, IarmTypes, Reader, Newest

\* A reader that has handled every update event, and was given a buffer, has the
\* published text, however it changed between event and call: the length in the
\* newest event is never too small.
THEOREM ReaderHasText == ~ClientXcalServer => (IarmSpec => []ReaderCurrent)
  <1> SUFFICES ASSUME ~ClientXcalServer PROVE IarmSpec => []ReaderCurrent
    OBVIOUS
  <1>1. IarmInv => ReaderCurrent
    BY DEF IarmInv, Empty, Newest, ReaderCurrent
  <1>2. IarmInv /\ [IarmNext]_ivars => IarmInv'
    BY IarmKeeps
  <1> QED BY <1>1, <1>2, IarmStarts, PTL DEF IarmSpec

\* However a text grows between event and call, nothing but one terminating zero is
\* written past the buffer of the reader.
THEOREM OneByteAtMost == ~ClientXcalServer => (IarmSpec => []OnlyZeroPast)
  <1> SUFFICES ASSUME ~ClientXcalServer PROVE IarmSpec => []OnlyZeroPast
    OBVIOUS
  <1>1. IarmInv => OnlyZeroPast
    BY DEF IarmInv, OnlyZeroPast
  <1>2. IarmInv /\ [IarmNext]_ivars => IarmInv'
    BY IarmKeeps
  <1> QED BY <1>1, <1>2, IarmStarts, PTL DEF IarmSpec
=============================================================================
