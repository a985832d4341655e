---------------------------- MODULE UsbTvSession ----------------------------
(***************************************************************************)
(* Sessions of UsbTv.java over the one native driver of usbtv.cpp.         *)
(*                                                                         *)
(* open() and the permission broadcast run on the main thread under        *)
(* OPEN_LOCK.  They make UsbTv instances, keep them in mReferenceList and  *)
(* send them messages.  Each instance has a handler thread of its own that *)
(* takes its messages in order: it opens the connection, initializes the   *)
(* native driver, starts and stops its stream, and closes.  The native     *)
(* driver is one global pointer, which no lock protects.                   *)
(*                                                                         *)
(* The streams themselves are in UsbTvDriver: here a start succeeds or     *)
(* fails, and a stop is a place of its handler that it may never leave     *)
(* (UsbTv.java:543: "This is hanging sometimes").  mHasUsbPermission is     *)
(* set whenever OPEN_DEVICE is sent, so that initDevice never finds it     *)
(* unset.                                                                  *)
(***************************************************************************)
EXTENDS Naturals, Sequences

CONSTANTS
  Devices,       \* USB devices
  MaxOpens,      \* bound: instances that are made
  MaxMessages,   \* bound: messages in the queue of a handler
  SerialOpens,   \* does the client wait for the end of an open
  QuietClosed    \* does the client leave a closed instance alone

ASSUME SessionAssumption ==
  /\ MaxOpens \in Nat /\ MaxMessages \in Nat
  /\ SerialOpens \in BOOLEAN /\ QuietClosed \in BOOLEAN

Instances == 1..MaxOpens
Nobody == 0
Requests == {"CLOSE", "START", "STOP", "SET_NORM"}

VARIABLES
  made,       \* how many instances there are
  dev,        \* mUsbtvDevice: a set of at most one
  refs,       \* mReferenceList
  allowed,    \* devices the application has permission for
  asked,      \* devices with a permission dialog
  lock,       \* who holds OPEN_LOCK over steps: Nobody or an instance
  queue,      \* the messages of each handler
  pc,         \* where each handler is
  connected,  \* instances whose mUsbtvConnection is open
  isOpen,     \* instances whose mIsOpen is set
  isStreaming, \* instances whose mIsStreaming is set
  driver,     \* usbtv: who made it
  active,     \* its stream: "off", "on", or "half": _streamActive is set, and
              \* there is no stream
  told        \* what the client was told last of each instance

listVars   == <<made, dev, refs, allowed, asked>>
nativeVars == <<driver, active>>
flagVars   == <<connected, isOpen, isStreaming>>
vars == <<listVars, lock, queue, pc, flagVars, nativeVars, told>>

Init ==
  /\ made = 0 /\ dev = [i \in Instances |-> {}] /\ refs = {}
  /\ allowed = {} /\ asked = {}
  /\ lock = Nobody
  /\ queue = [i \in Instances |-> <<>>] /\ pc = [i \in Instances |-> "idle"]
  /\ connected = {} /\ isOpen = {} /\ isStreaming = {}
  /\ driver = Nobody /\ active = "off"
  /\ told = [i \in Instances |-> "nothing"]

Has(i, message) == \E k \in 1..Len(queue[i]) : queue[i][k] = message

\* Opens that are not over: a dialog, a message, or a handler in initDevice.
Unanswered ==
  {i \in Instances : \/ dev[i] \cap asked # {}
                     \/ Has(i, "OPEN")
                     \/ pc[i] \in {"initialize", "construct", "opened"}}

-----------------------------------------------------------------------------
(***************************************************************************)
(* The main thread.                                                        *)
(***************************************************************************)

\* Mutant: an instance of the device is replaced also when it is open.
Stale_AnyInstance(d) == {i \in refs : d \in dev[i]}

\* The instances of a device that open() takes for errors.
Stale(d) == {i \in refs \ isOpen : d \in dev[i]}

\* Mutant: the old instance stays in the list.
Listed_KeepsStale(d) == refs \cup {made + 1}

\* mReferenceList with the new instance.
Listed(d) == (refs \ Stale(d)) \cup {made + 1}

\* open(): false if the device is open; else it makes an instance, which
\* opens at once, after the permission, or never when no receiver is
\* registered for the broadcast.
Open(d) ==
  /\ lock = Nobody /\ made < MaxOpens
  /\ SerialOpens => Unanswered = {}
  /\ \A i \in refs \ Stale(d) : d \notin dev[i]
  /\ made' = made + 1
  /\ dev' = [dev EXCEPT ![made'] = {d}]
  /\ refs' = Listed(d)
  /\ \/ d \in allowed /\ queue' = [queue EXCEPT ![made'] = <<"OPEN">>]
                      /\ UNCHANGED asked
     \/ d \notin allowed /\ asked' \in {asked, asked \cup {d}}
                         /\ UNCHANGED queue
  /\ UNCHANGED <<allowed, lock, pc, flagVars, nativeVars, told>>

\* The broadcast of a granted permission.  It also calls onOpen(null, isOpen),
\* before the handler has opened anything.
Granted(d) ==
  /\ lock = Nobody /\ d \in asked
  /\ asked' = asked \ {d} /\ allowed' = allowed \cup {d}
  /\ queue' = [i \in Instances |->
                 IF i \in Stale(d) THEN Append(queue[i], "OPEN") ELSE queue[i]]
  /\ UNCHANGED <<made, dev, refs, lock, pc, flagVars, nativeVars, told>>

Denied(d) ==
  /\ lock = Nobody /\ d \in asked
  /\ asked' = asked \ {d}
  /\ LET matching == {i \in refs : d \in dev[i]}
     IN  /\ refs' = refs \ matching
         /\ told' = [i \in Instances |->
                       IF i \in matching \ isOpen THEN "failed" ELSE told[i]]
  /\ UNCHANGED <<made, dev, allowed, lock, queue, pc, flagVars, nativeVars>>

\* A call on the IUsbTvDriver that onOpen gave to the client.
Send(i, message) ==
  /\ told[i] \in {"open", "closed"}
  /\ QuietClosed => told[i] = "open" /\ ~Has(i, "CLOSE") /\ lock # i
  /\ Len(queue[i]) < MaxMessages
  /\ queue' = [queue EXCEPT ![i] = Append(@, message)]
  /\ UNCHANGED <<listVars, lock, pc, flagVars, nativeVars, told>>

-----------------------------------------------------------------------------
(***************************************************************************)
(* The handler thread of an instance: initDevice and initialize.           *)
(***************************************************************************)

Takes(i, message) ==
  /\ pc[i] = "idle" /\ queue[i] # <<>> /\ Head(queue[i]) = message
  /\ queue' = [queue EXCEPT ![i] = Tail(@)]

Goes(i, place) == pc' = [pc EXCEPT ![i] = place]
Tells(i, answer) == told' = [told EXCEPT ![i] = answer]

\* The connection is opened.
OpenDevice(i) ==
  /\ Takes(i, "OPEN") /\ Goes(i, "initialize")
  /\ connected' = connected \cup {i}
  /\ UNCHANGED <<listVars, lock, isOpen, isStreaming, nativeVars, told>>

\* There is no connection, or not the right endpoint or interface: then the
\* connection stays open.  The instance leaves the list without OPEN_LOCK.
OpenDeviceFails(i) ==
  /\ Takes(i, "OPEN") /\ UNCHANGED pc
  /\ connected' \in {connected, connected \cup {i}}
  /\ refs' = refs \ {i} /\ Tells(i, "failed")
  /\ UNCHANGED <<made, dev, allowed, asked, lock, isOpen, isStreaming,
                 nativeVars>>

\* Mutant: a handler whose driver is refused says nothing.
InitializeFails_Silent(i) ==
  /\ \/ pc[i] = "initialize" /\ driver # Nobody
     \/ pc[i] = "construct"
  /\ Goes(i, "idle")
  /\ connected' = connected \ {i} /\ refs' = refs \ {i}
  /\ driver' = (IF pc[i] = "construct" THEN Nobody ELSE driver)
  /\ active' = (IF pc[i] = "construct" THEN "off" ELSE active)
  /\ UNCHANGED <<made, dev, allowed, asked, lock, queue, isOpen, isStreaming,
                 told>>

\* initialize() finds a driver, or the one it made is not initialized and is
\* deleted.  The connection is closed.
InitializeFails(i) ==
  /\ \/ pc[i] = "initialize" /\ driver # Nobody
     \/ pc[i] = "construct"
  /\ Goes(i, "idle")
  /\ connected' = connected \ {i} /\ refs' = refs \ {i} /\ Tells(i, "failed")
  /\ driver' = (IF pc[i] = "construct" THEN Nobody ELSE driver)
  /\ active' = (IF pc[i] = "construct" THEN "off" ELSE active)
  /\ UNCHANGED <<made, dev, allowed, asked, lock, queue, isOpen, isStreaming>>

\* initialize() looks at the pointer,
FindsNoDriver(i) ==
  /\ pc[i] = "initialize" /\ driver = Nobody
  /\ Goes(i, "construct")
  /\ UNCHANGED <<listVars, lock, queue, flagVars, nativeVars, told>>

\* and assigns it when the driver is constructed.
Construct(i) ==
  /\ pc[i] = "construct"
  /\ Goes(i, "opened")
  /\ driver' = i /\ active' = "off"
  /\ UNCHANGED <<listVars, lock, queue, flagVars, told>>

OpenEnds(i) ==
  /\ pc[i] = "opened"
  /\ Goes(i, "idle")
  /\ isOpen' = isOpen \cup {i} /\ Tells(i, "open")
  /\ UNCHANGED <<listVars, lock, queue, connected, isStreaming, nativeVars>>

-----------------------------------------------------------------------------
(***************************************************************************)
(* The handler thread: closeDevice, and the messages of a stream.          *)
(***************************************************************************)

\* Up to the native stop, or to dispose() if mIsStreaming was not set.
CloseBegins(i) ==
  /\ lock = Nobody /\ Takes(i, "CLOSE")
  /\ lock' = i
  /\ Goes(i, IF i \notin isOpen THEN "leave"
             ELSE IF i \in isStreaming THEN "stop" ELSE "dispose")
  /\ isStreaming' = (IF i \in isOpen THEN isStreaming \ {i} ELSE isStreaming)
  /\ UNCHANGED <<listVars, connected, isOpen, nativeVars, told>>

\* Mutant: closeDevice leaves the stop to dispose().
CloseStops_Not(i) ==
  /\ pc[i] = "stop"
  /\ Goes(i, "dispose")
  /\ UNCHANGED <<listVars, lock, queue, flagVars, driver, told, active>>

\* The native stop returns.
CloseStops(i) ==
  /\ pc[i] = "stop"
  /\ Goes(i, "dispose")
  /\ active' = "off"
  /\ UNCHANGED <<listVars, lock, queue, flagVars, driver, told>>

\* dispose() deletes the driver that is there, whoever made it; a stream that
\* it has is stopped.
Dispose(i) ==
  /\ pc[i] = "dispose"
  /\ Goes(i, "leave")
  /\ driver' = Nobody /\ active' = "off"
  /\ UNCHANGED <<listVars, lock, queue, flagVars, told>>

\* What closeDevice does of an instance that is open, and the end of it.
CloseEnds(i) ==
  /\ pc[i] = "leave"
  /\ Goes(i, "idle")
  /\ lock' = Nobody
  /\ isOpen' = isOpen \ {i}
  /\ connected' = (IF i \in isOpen THEN connected \ {i} ELSE connected)
  /\ dev' = (IF i \in isOpen THEN [dev EXCEPT ![i] = {}] ELSE dev)
  /\ refs' = refs \ {i} /\ Tells(i, "closed")
  /\ UNCHANGED <<made, allowed, asked, queue, isStreaming, nativeVars>>

\* The native startStreaming of a driver whose stream was `from'.  When
\* _streamActive is set it succeeds and does nothing.
StartSucceeds(i, from) ==
  /\ driver # Nobody
  /\ active' = (IF from = "off" THEN "on" ELSE from)
  /\ isStreaming' = isStreaming \cup {i}

\* Of all that can fail only the first setInterface leaves _streamActive set.
StartFails(i, from) ==
  /\ \/ driver = Nobody /\ active' = from
     \/ driver # Nobody /\ from = "off" /\ active' \in {"off", "half"}
  /\ isStreaming' = isStreaming \ {i}

StartStreaming(i) ==
  /\ Takes(i, "START") /\ UNCHANGED pc
  /\ IF i \in isStreaming
       THEN UNCHANGED <<active, isStreaming>>
       ELSE StartSucceeds(i, active) \/ StartFails(i, active)
  /\ UNCHANGED <<listVars, lock, connected, isOpen, driver, told>>

\* STOP_STREAMING, and SET_NORM or SET_SCANTYPE: up to the native stop, which
\* mIsStreaming outlives.
StopStreaming(i) ==
  /\ Takes(i, "STOP")
  /\ IF i \in isStreaming THEN Goes(i, "stopping") ELSE UNCHANGED pc
  /\ UNCHANGED <<listVars, lock, flagVars, nativeVars, told>>

RestartStream(i) ==
  /\ Takes(i, "SET_NORM")
  /\ IF i \in isStreaming THEN Goes(i, "restarting") ELSE UNCHANGED pc
  /\ UNCHANGED <<listVars, lock, flagVars, nativeVars, told>>

\* The native stop returns.
StopEnds(i) ==
  /\ pc[i] = "stopping"
  /\ Goes(i, "idle")
  /\ active' = "off" /\ isStreaming' = isStreaming \ {i}
  /\ UNCHANGED <<listVars, lock, queue, connected, isOpen, driver, told>>

\* The native stop returns, and the stream is started again.
RestartEnds(i) ==
  /\ pc[i] = "restarting"
  /\ Goes(i, "idle")
  /\ StartSucceeds(i, "off") \/ StartFails(i, "off")
  /\ UNCHANGED <<listVars, lock, queue, connected, isOpen, driver, told>>

\* The handler is in a native stop.
Stopping(i) == \/ pc[i] \in {"stop", "stopping", "restarting"}
               \/ pc[i] = "dispose" /\ active = "on"

-----------------------------------------------------------------------------
Handler(i) ==
  \/ OpenDevice(i) \/ OpenDeviceFails(i) \/ FindsNoDriver(i)
  \/ InitializeFails(i) \/ Construct(i) \/ OpenEnds(i)
  \/ CloseBegins(i) \/ CloseStops(i) \/ Dispose(i) \/ CloseEnds(i)
  \/ StartStreaming(i) \/ StopStreaming(i) \/ StopEnds(i)
  \/ RestartStream(i) \/ RestartEnds(i)

MainThread == \E d \in Devices : Open(d) \/ Granted(d) \/ Denied(d)

Client == \E i \in Instances, message \in Requests : Send(i, message)

Next == MainThread \/ Client \/ \E i \in Instances : Handler(i)

Spec == Init /\ [][Next]_vars

\* The handlers run, but a native stop need not return.  Nobody has to open,
\* to answer a dialog or to call.
FairSpec == Spec /\ \A i \in Instances : WF_vars(~Stopping(i) /\ Handler(i))

-----------------------------------------------------------------------------
\* Every variable keeps its type, and a device is in mReferenceList once.
TypeOK ==
  /\ made \in 0..MaxOpens /\ dev \in [Instances -> SUBSET Devices]
  /\ refs \subseteq Instances /\ allowed \subseteq Devices
  /\ asked \subseteq Devices /\ lock \in Instances \cup {Nobody}
  /\ queue \in [Instances -> Seq(Requests \cup {"OPEN"})]
  /\ pc \in [Instances -> {"idle", "initialize", "construct", "opened",
                           "stop", "dispose", "leave", "stopping",
                           "restarting"}]
  /\ connected \subseteq Instances /\ isOpen \subseteq Instances
  /\ isStreaming \subseteq Instances
  /\ driver \in Instances \cup {Nobody} /\ active \in {"off", "half", "on"}
  /\ told \in [Instances -> {"nothing", "open", "failed", "closed"}]
  /\ \A i, j \in refs : dev[i] \cap dev[j] # {} => i = j

\* An instance that says it is open has the native driver, is in the list
\* where open() looks for it, and has its connection: until it disposes of
\* the driver.
OpenOwnsDriver ==
  \A i \in isOpen : i \in refs /\ i \in connected
                    /\ (pc[i] # "leave" => driver = i)

\* Who takes the native driver to stream for it: in a close mIsStreaming is
\* reset before the native stop.
Believers == isStreaming \cup {i \in Instances : pc[i] = "stop"}

Owner == INSTANCE DriverOwner WITH
  owner     <- driver,
  streaming <- IF active = "on" THEN {driver} ELSE {},
  believes  <- Believers,
  wedged    <- active = "half"

\* The native driver has one owner at a time; it streams exactly when its owner
\* believes so, but for the start that leaves _streamActive set without a
\* stream, until the next stop; and it is disposed of with its stream stopped.
DriverSpec == Owner!Spec

\* Every OPEN_DEVICE is answered.  So is every close, unless some native stop
\* never returns: that of the instance itself, or one that another close waits
\* for under OPEN_LOCK.
Answered ==
  \A i \in Instances :
    /\ Has(i, "OPEN") ~> told[i] # "nothing"
    /\ Has(i, "CLOSE") ~>
         (told[i] = "closed" \/ \E j \in Instances : []Stopping(j))

=============================================================================
