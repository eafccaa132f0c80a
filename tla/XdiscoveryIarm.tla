----------------------------- MODULE XdiscoveryIarm ----------------------------
(***************************************************************************)
(* The IARM interface of xdiscovery (src/src/xdiscovery.c): every          *)
(* publication posts an update event that carries the length of the text;  *)
(* a reader allocates a buffer of that length and calls                    *)
(* GetXUPNPDeviceInfo.  The text may be another one by then.               *)
(*                                                                         *)
(* The bus and the reader are external.  Only the main thread publishes    *)
(* here (~ClientXcalServer), so a publication and its event are one step.  *)
(***************************************************************************)
EXTENDS XdiscoveryDirectory

CONSTANTS
    TextLength(_),  \* the length of a published text
    MaxBus          \* bound: update events on their way

ASSUME IarmAssumption ==
    /\ MaxBus \in Nat
    /\ \A text \in SUBSET Entry : TextLength(text) \in Nat

VARIABLES
    bus,            \* lengths in the update events on their way
    reader          \* the length of its buffer, or 0; what it got; bytes past the buffer

ivars == <<vars, bus, reader>>

IarmInit ==
    /\ Init
    /\ bus = <<>>
    /\ reader = [length |-> 0, status |-> "text", text |-> {}, over |-> 0]

\* Mutant: the length is taken before the text is replaced.
MutdeviceInfoLength == TextLength(outputcontents) + 1

\* "Add the length to accommodate NULL character"
deviceInfoLength == TextLength(outputcontents') + 1

\* notifyXUPnPDataUpdateEvent
notifyXUPnPDataUpdateEvent ==
    /\ Len(bus) < MaxBus
    /\ bus' = Append(bus, deviceInfoLength)

\* A step of the daemon; a publication ends with the update event.
Daemon ==
    /\ Next
    /\ IF \E t \in Thread : SendPublish(t) THEN notifyXUPnPDataUpdateEvent ELSE UNCHANGED bus
    /\ UNCHANGED reader

\* _evtHandler: another process asks for an update event.
DataRequest ==
    /\ UNCHANGED <<vars, reader>>
    /\ notifyXUPnPDataUpdateEvent

\* The reader handles an event: it allocates a buffer.
DataUpdate ==
    /\ reader.length = 0
    /\ bus # <<>>
    /\ reader' = [length |-> Head(bus), status |-> "waiting", text |-> {}, over |-> 0]
    /\ bus' = Tail(bus)
    /\ UNCHANGED vars

\* Mutant: the length of the buffer is not looked at.
MutFits(length) == TRUE

Fits(length) == TextLength(outputcontents) <= length

\* _GetXUPNPDeviceInfo returns success whatever happens: the text and a zero after
\* it, a buffer that nothing was written to, or none.
GetXUPNPDeviceInfo ==
    /\ reader.length > 0
    /\ \/ /\ Fits(reader.length)
          /\ reader' = [length |-> 0, status |-> "text", text |-> outputcontents,
                        over |-> IF TextLength(outputcontents) + 1 > reader.length
                                 THEN TextLength(outputcontents) + 1 - reader.length ELSE 0]
       \/ /\ ~Fits(reader.length)
          /\ reader' = [reader EXCEPT !.length = 0, !.status = "unwritten"]
       \/ /\ MayFail                        \* IARM_Malloc
          /\ reader' = [reader EXCEPT !.length = 0, !.status = "none"]
    /\ UNCHANGED <<vars, bus>>

IarmNext == Daemon \/ DataRequest \/ DataUpdate \/ GetXUPNPDeviceInfo

IarmSpec == IarmInit /\ [][IarmNext]_ivars

-----------------------------------------------------------------------------
\* However the list changes between an update event and the call that answers it:
\* a reader that has handled every event, and was given a buffer, has the text
\* that is published; but for one that was published before a restart.
ReaderCurrent ==
    bus = <<>> /\ reader.length = 0 /\ reader.status # "none"
        /\ (restartFile => outputcontents # {}) =>
            reader.status = "text" /\ reader.text = outputcontents

\* A text that grew since the event is not copied, unless by one byte: then its
\* terminating zero is written past the buffer, and nothing else is ever.
OnlyZeroPast == reader.over <= 1
=============================================================================
