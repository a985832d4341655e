-------------------------- MODULE UsbTvSessionProofs --------------------------
(***************************************************************************)
(* The sessions of UsbTv share one native driver without a lock.  What     *)
(* keeps them apart is the client: it opens one instance at a time and     *)
(* leaves closed ones alone (PoliteClient).  Then an instance goes through *)
(* phases, never more than one of them is opening, and whoever has the     *)
(* driver is the one that opened last.                                     *)
(***************************************************************************)
EXTENDS UsbTvSession, TLAPS

PoliteClient == SerialOpens = TRUE /\ QuietClosed = TRUE

-----------------------------------------------------------------------------
(***************************************************************************)
(* The phases of an instance.                                              *)
(***************************************************************************)
Idle(i) == i \notin isOpen /\ i \notin isStreaming

\* It was made, and waits for a permission or for nothing.
Fresh(i) ==
  told[i] = "nothing" /\ pc[i] = "idle" /\ queue[i] = <<>> /\ Idle(i)

\* OPEN_DEVICE was sent.
Queued(i) ==
  /\ told[i] = "nothing" /\ pc[i] = "idle" /\ queue[i] = <<"OPEN">> /\ Idle(i)
  /\ i \in refs

\* The handler is in initDevice.
Initializing(i) ==
  /\ told[i] = "nothing" /\ pc[i] \in {"initialize", "construct", "opened"}
  /\ queue[i] = <<>> /\ Idle(i)
  /\ i \in refs /\ i \in connected

\* It is open; the handler may be in a stop.  A close is the last message of an
\* instance.
Orderly(q) ==
  q \in Seq(Requests) /\ \A k \in 1..Len(q) : q[k] = "CLOSE" => k = Len(q)

Opened(i) ==
  /\ told[i] = "open" /\ pc[i] \in {"idle", "stopping", "restarting"}
  /\ Orderly(queue[i])
  /\ i \in isOpen /\ i \in refs /\ i \in connected

\* The handler is in closeDevice.
Closing(i) ==
  /\ told[i] = "open" /\ pc[i] \in {"stop", "dispose", "leave"}
  /\ queue[i] = <<>> /\ lock = i
  /\ i \in isOpen /\ i \in refs /\ i \in connected

\* It was closed, or was never opened.
Over(i) ==
  /\ told[i] \in {"failed", "closed"} /\ pc[i] = "idle" /\ queue[i] = <<>>
  /\ Idle(i) /\ i \notin refs

Phase(i) ==
  \/ Fresh(i) \/ Queued(i) \/ Initializing(i)
  \/ Opened(i) \/ Closing(i) \/ Over(i)

Phases == \A i \in Instances : Phase(i)

-----------------------------------------------------------------------------
(***************************************************************************)
(* The inductive invariant.                                                *)
(***************************************************************************)
Opens(i) == Queued(i) \/ Initializing(i)

OneOpens == \A i, j \in Instances : Opens(i) /\ Opens(j) => i = j

\* A dialog is about an instance in the list, and nobody opens meanwhile.
Dialog ==
  /\ \A d, e \in asked : d = e
  /\ \A d \in asked : \E j \in refs : d \in dev[j] /\ Fresh(j)
  /\ asked # {} => \A i \in Instances : ~Opens(i)

Unmade == \A i \in Instances : i > made => Fresh(i) /\ i \notin refs

\* An instance that has the native driver, and knows it.
HasDriver(i) ==
  pc[i] = "opened" \/ (i \in isOpen /\ pc[i] # "leave")

Driving ==
  /\ \A i \in Instances : HasDriver(i) => driver = i
  /\ driver # Nobody => HasDriver(driver)
  /\ \A i \in Instances : pc[i] = "construct" => driver = Nobody

\* Only a start that leaves _streamActive set lets the stream and what the
\* instances believe of it disagree.
Streaming ==
  /\ \A i \in Believers : driver = i
  /\ \A i \in isStreaming : pc[i] \in {"idle", "stopping", "restarting"}
  /\ \A i \in Instances :
       pc[i] \in {"stopping", "restarting"} => i \in isStreaming
  /\ active = "on" => Believers # {}
  /\ active = "off" => Believers = {}
  /\ driver = Nobody => active = "off"

SInv == TypeOK /\ Phases /\ OneOpens /\ Dialog /\ Unmade /\ Driving /\ Streaming

-----------------------------------------------------------------------------
(***************************************************************************)
(* Types.                                                                  *)
(***************************************************************************)
Messages == Requests \cup {"OPEN"}

LEMMA NobodyIsNone == Nobody \notin Instances /\ 0 \notin Instances
  BY DEF Instances, Nobody

LEMMA TypeInit == Init => TypeOK
<1> SUFFICES ASSUME Init PROVE TypeOK
  OBVIOUS
<1>1. <<>> \in Seq(Requests \cup {"OPEN"})
  OBVIOUS
<1>2. /\ queue \in [Instances -> Seq(Requests \cup {"OPEN"})]
      /\ dev \in [Instances -> SUBSET Devices]
  BY <1>1 DEF Init
<1>3. /\ pc \in [Instances -> {"idle", "initialize", "construct", "opened",
                              "stop", "dispose", "leave", "stopping",
                              "restarting"}]
      /\ told \in [Instances -> {"nothing", "open", "failed", "closed"}]
  BY DEF Init
<1>4. made \in 0..MaxOpens
  BY SessionAssumption DEF Init
<1> QED  BY <1>2, <1>3, <1>4 DEF Init, TypeOK

LEMMA TakesTyped ==
  ASSUME TypeOK, NEW i \in Instances, NEW m, Takes(i, m)
  PROVE  queue' \in [Instances -> Seq(Messages)]
<1>1. queue \in [Instances -> Seq(Messages)]
  BY DEF TypeOK, Messages
<1>2. queue[i] \in Seq(Messages) /\ queue[i] # <<>>
  BY <1>1 DEF Takes
<1>3. Tail(queue[i]) \in Seq(Messages)
  BY <1>2
<1>4. queue' = [queue EXCEPT ![i] = Tail(queue[i])]
  BY DEF Takes
<1> QED  BY <1>1, <1>3, <1>4

\* What a step of a handler does to the types.  No instance is listed, or
\* gets a device, by it.
LEMMA HandlerTypes ==
  ASSUME TypeOK, NEW i \in Instances, Handler(i)
  PROVE  TypeOK'
<1> USE DEF TypeOK, listVars, flagVars, nativeVars
<1>1. CASE OpenDevice(i) \/ OpenDeviceFails(i)
  <2>1. queue' \in [Instances -> Seq(Messages)]
    BY <1>1, TakesTyped DEF OpenDevice, OpenDeviceFails
  <2> QED  BY <1>1, <2>1
           DEF OpenDevice, OpenDeviceFails, Goes, Tells, Messages
<1>2. CASE FindsNoDriver(i) \/ InitializeFails(i) \/ Construct(i) \/ OpenEnds(i)
  BY <1>2 DEF FindsNoDriver, InitializeFails, Construct, OpenEnds, Goes, Tells
<1>3. CASE CloseBegins(i)
  <2>1. queue' \in [Instances -> Seq(Messages)]
    BY <1>3, TakesTyped DEF CloseBegins
  <2> QED  BY <1>3, <2>1 DEF CloseBegins, Goes, Messages
<1>4. CASE CloseStops(i) \/ Dispose(i) \/ StopEnds(i) \/ RestartEnds(i)
  BY <1>4 DEF CloseStops, Dispose, StopEnds, RestartEnds, StartSucceeds,
              StartFails, Goes
<1>5. CASE CloseEnds(i)
  <2>1. /\ dev' \in [Instances -> SUBSET Devices] /\ refs' \subseteq refs
        /\ \A j \in Instances : dev'[j] \subseteq dev[j]
    BY <1>5 DEF CloseEnds
  <2>2. \A j, k \in refs' : dev'[j] \cap dev'[k] # {} => j = k
    BY <2>1
  <2>3. /\ pc' \in [Instances -> {"idle", "initialize", "construct", "opened",
                                   "stop", "dispose", "leave", "stopping",
                                   "restarting"}]
        /\ told' \in [Instances -> {"nothing", "open", "failed", "closed"}]
    BY <1>5 DEF CloseEnds, Goes, Tells
  <2>4. /\ lock' \in Instances \cup {Nobody}
        /\ isOpen' \subseteq Instances /\ connected' \subseteq Instances
    BY <1>5 DEF CloseEnds
  <2>5. UNCHANGED <<made, allowed, asked, queue, isStreaming, driver, active>>
    BY <1>5 DEF CloseEnds
  <2> QED  BY <2>1, <2>2, <2>3, <2>4, <2>5
<1>6. CASE StartStreaming(i) \/ StopStreaming(i) \/ RestartStream(i)
  <2>1. queue' \in [Instances -> Seq(Messages)]
    BY <1>6, TakesTyped DEF StartStreaming, StopStreaming, RestartStream
  <2>2. /\ isStreaming' \subseteq Instances /\ active' \in {"off", "half", "on"}
        /\ pc' \in [Instances -> {"idle", "initialize", "construct", "opened",
                                   "stop", "dispose", "leave", "stopping",
                                   "restarting"}]
    BY <1>6 DEF StartStreaming, StartSucceeds, StartFails, StopStreaming,
                RestartStream, Goes
  <2>3. UNCHANGED <<listVars, lock, connected, isOpen, driver, told>>
    BY <1>6 DEF StartStreaming, StopStreaming, RestartStream
  <2> QED  BY <2>1, <2>2, <2>3 DEF Messages
<1> QED  BY <1>1, <1>2, <1>3, <1>4, <1>5, <1>6 DEF Handler

LEMMA MainTypes ==
  ASSUME TypeOK, NEW d \in Devices, Open(d) \/ Granted(d) \/ Denied(d)
  PROVE  TypeOK'
<1> USE DEF TypeOK, flagVars, nativeVars
<1>1. CASE Open(d)
  <2>1. /\ made + 1 \in 0..MaxOpens /\ made + 1 \in Instances
        /\ made' = made + 1
    BY <1>1, SessionAssumption DEF Open, Instances
  <2>2. dev' = [dev EXCEPT ![made + 1] = {d}]
    BY <1>1, <2>1 DEF Open
  <2>3. dev' \in [Instances -> SUBSET Devices]
    BY <2>1, <2>2
  <2>4. refs' = (refs \ Stale(d)) \cup {made + 1} /\ refs' \subseteq Instances
    BY <1>1, <2>1 DEF Open, Listed
  <2>5. \A j \in refs \ Stale(d) : d \notin dev[j]
    BY <1>1 DEF Open
  <2>6. \A j, k \in refs' : dev'[j] \cap dev'[k] # {} => j = k
    BY <2>1, <2>2, <2>4, <2>5
  <2>7. queue' \in [Instances -> Seq(Requests \cup {"OPEN"})]
    <3>1. <<"OPEN">> \in Seq(Requests \cup {"OPEN"})
      OBVIOUS
    <3>2. queue' = queue \/ queue' = [queue EXCEPT ![made + 1] = <<"OPEN">>]
      BY <1>1, <2>1 DEF Open
    <3> QED  BY <2>1, <3>1, <3>2
  <2>8. asked' \subseteq Devices
    BY <1>1 DEF Open
  <2>9. UNCHANGED <<allowed, lock, pc, connected, isOpen, isStreaming, driver,
                    active, told>>
    BY <1>1 DEF Open
  <2> QED  BY <2>1, <2>3, <2>4, <2>6, <2>7, <2>8, <2>9
<1>2. CASE Granted(d)
  <2>1. queue' \in [Instances -> Seq(Requests \cup {"OPEN"})]
    <3>1. \A i \in Instances :
            Append(queue[i], "OPEN") \in Seq(Requests \cup {"OPEN"})
      OBVIOUS
    <3> QED  BY <1>2, <3>1 DEF Granted
  <2> QED  BY <1>2, <2>1 DEF Granted
<1>3. CASE Denied(d)
  BY <1>3 DEF Denied
<1> QED  BY <1>1, <1>2, <1>3

LEMMA SendTypes ==
  ASSUME TypeOK, NEW i \in Instances, NEW m \in Requests, Send(i, m)
  PROVE  TypeOK'
<1>1. Append(queue[i], m) \in Seq(Requests \cup {"OPEN"})
  BY DEF TypeOK
<1> QED  BY <1>1 DEF TypeOK, Send, listVars, flagVars, nativeVars

-----------------------------------------------------------------------------
(***************************************************************************)
(* A step of one instance.                                                 *)
(***************************************************************************)

\* A step leaves the instance alone.
Same(j) ==
  /\ told'[j] = told[j] /\ pc'[j] = pc[j] /\ queue'[j] = queue[j]
  /\ j \in isOpen' <=> j \in isOpen
  /\ j \in isStreaming' <=> j \in isStreaming
  /\ j \in refs' <=> j \in refs
  /\ j \in connected' <=> j \in connected
  /\ lock = j => lock' = j

LEMMA SamePhase ==
  ASSUME NEW j \in Instances, Phase(j), Same(j)
  PROVE  /\ Phase(j)' /\ (Fresh(j) => Fresh(j)') /\ (Opens(j)' => Opens(j))
<1> USE DEF Same, Idle
<1>1. Fresh(j) => Fresh(j)'
  BY DEF Fresh
<1>2. (Queued(j) => Queued(j)') /\ (Queued(j)' => Queued(j))
  BY DEF Queued
<1>3. (Initializing(j) => Initializing(j)') /\ (Initializing(j)' => Initializing(j))
  BY DEF Initializing
<1>4. Opened(j) => Opened(j)'
  BY DEF Opened
<1>5. Closing(j) => Closing(j)'
  BY DEF Closing
<1>6. Over(j) => Over(j)'
  BY DEF Over
<1> QED  BY <1>1, <1>2, <1>3, <1>4, <1>5, <1>6 DEF Phase, Opens

\* What is left to show of a step of instance i.
LEMMA OneMoves ==
  ASSUME SInv, NEW i \in Instances, ~Fresh(i),
         \A j \in Instances \ {i} : Same(j) /\ dev'[j] = dev[j],
         made' = made, asked' = asked,
         Phase(i)', Opens(i)' => Opens(i)
  PROVE  Phases' /\ OneOpens' /\ Dialog' /\ Unmade'
<1>1. \A j \in Instances : Phase(j)
  BY DEF SInv, Phases
<1>2. \A j \in Instances :
        /\ Phase(j)' /\ (Opens(j)' => Opens(j))
        /\ Fresh(j) => j # i /\ Fresh(j)' /\ dev'[j] = dev[j]
                       /\ (j \in refs' <=> j \in refs)
  <2> TAKE j \in Instances
  <2>1. CASE j = i
    BY <2>1
  <2>2. CASE j # i
    <3>1. Same(j)
      BY <2>2
    <3>2. j \in refs' <=> j \in refs
      BY <3>1 DEF Same
    <3> QED  BY <1>1, <2>2, <3>1, <3>2, SamePhase
  <2> QED  BY <2>1, <2>2
<1>3. Phases'
  BY <1>2 DEF Phases
<1>4. OneOpens'
  BY <1>2 DEF SInv, OneOpens
<1>5. Dialog'
  <2>1. \A d, e \in asked : d = e
    BY DEF SInv, Dialog
  <2>2. ASSUME NEW d \in asked PROVE \E j \in refs' : d \in dev'[j] /\ Fresh(j)'
    <3>1. PICK j \in refs : d \in dev[j] /\ Fresh(j)
      BY DEF SInv, Dialog
    <3>2. j \in Instances
      BY DEF SInv, TypeOK
    <3> QED  BY <1>2, <3>1, <3>2
  <2>3. asked # {} => \A j \in Instances : ~Opens(j)'
    BY <1>2 DEF SInv, Dialog
  <2> QED  BY <2>1, <2>2, <2>3 DEF Dialog
<1>6. Unmade'
  <2>1. SUFFICES ASSUME NEW j \in Instances, j > made
                 PROVE  Fresh(j)' /\ j \notin refs'
    BY DEF Unmade
  <2>2. Fresh(j) /\ j \notin refs
    BY <2>1 DEF SInv, Unmade
  <2> QED  BY <1>2, <2>2
<1> QED  BY <1>3, <1>4, <1>5, <1>6

-----------------------------------------------------------------------------
(***************************************************************************)
(* The guard of a step tells the phase.                                    *)
(***************************************************************************)
LEMMA TakesLocal ==
  ASSUME TypeOK, NEW i \in Instances, NEW m, Takes(i, m)
  PROVE  /\ queue'[i] = Tail(queue[i])
         /\ \A j \in Instances \ {i} : queue'[j] = queue[j]
  BY DEF Takes, TypeOK

LEMMA OpenIsQueued ==
  ASSUME SInv, NEW i \in Instances, Takes(i, "OPEN")
  PROVE  Queued(i) /\ ~Fresh(i) /\ queue'[i] = <<>>
<1>1. TypeOK /\ Phase(i)
  BY DEF SInv, Phases
<1>2. pc[i] = "idle" /\ queue[i] # <<>> /\ Head(queue[i]) = "OPEN"
  BY DEF Takes
<1>3. ~Opened(i)
  <2>1. SUFFICES ASSUME queue[i] \in Seq(Requests) PROVE FALSE
    BY DEF Opened, Orderly
  <2>2. Head(queue[i]) \in Requests
    BY <1>2, <2>1
  <2> QED  BY <1>2, <2>2 DEF Requests
<1>4. ~Fresh(i) /\ ~Initializing(i) /\ ~Closing(i) /\ ~Over(i)
  BY <1>2 DEF Fresh, Initializing, Closing, Over
<1>5. Queued(i)
  BY <1>1, <1>3, <1>4 DEF Phase
<1>6. Tail(<<"OPEN">>) = <<>>
  OBVIOUS
<1> QED  BY <1>1, <1>4, <1>5, <1>6, TakesLocal DEF Queued

LEMMA RequestIsOpened ==
  ASSUME SInv, NEW i \in Instances, NEW m \in Requests, Takes(i, m)
  PROVE  /\ Opened(i) /\ ~Fresh(i) /\ Orderly(queue'[i])
         /\ m = "CLOSE" => queue'[i] = <<>>
<1>1. TypeOK /\ Phase(i)
  BY DEF SInv, Phases
<1>2. pc[i] = "idle" /\ queue[i] # <<>> /\ Head(queue[i]) = m
  BY DEF Takes
<1>3. ~Queued(i)
  <2>1. Head(<<"OPEN">>) = "OPEN" /\ m # "OPEN"
    BY DEF Requests
  <2> QED  BY <1>2, <2>1 DEF Queued
<1>4. ~Fresh(i) /\ ~Initializing(i) /\ ~Closing(i) /\ ~Over(i)
  BY <1>2 DEF Fresh, Initializing, Closing, Over
<1>5. Opened(i)
  BY <1>1, <1>3, <1>4 DEF Phase
<1>6. queue[i] \in Seq(Requests) /\ \A k \in 1..Len(queue[i]) :
                                     queue[i][k] = "CLOSE" => k = Len(queue[i])
  BY <1>5 DEF Opened, Orderly
<1>7. queue'[i] = Tail(queue[i])
  BY <1>1, TakesLocal
<1>8. Tail(queue[i]) \in Seq(Requests) /\ Len(Tail(queue[i])) = Len(queue[i]) - 1
  BY <1>2, <1>6
<1>9. \A k \in 1..Len(Tail(queue[i])) : Tail(queue[i])[k] = queue[i][k + 1]
  BY <1>2, <1>6
<1>10. Orderly(queue'[i])
  BY <1>2, <1>6, <1>7, <1>8, <1>9 DEF Orderly
<1>11. ASSUME m = "CLOSE" PROVE queue'[i] = <<>>
  <2>1. queue[i][1] = "CLOSE" /\ 1 \in 1..Len(queue[i])
    BY <1>2, <1>6, <1>11
  <2>2. Len(queue[i]) = 1
    BY <1>6, <2>1
  <2>3. Len(Tail(queue[i])) = 0
    BY <1>8, <2>2
  <2>4. \A q \in Seq(Requests) : Len(q) = 0 => q = <<>>
    OBVIOUS
  <2> QED  BY <1>7, <1>8, <2>3, <2>4
<1> QED  BY <1>4, <1>5, <1>10, <1>11

LEMMA PlaceIsPhase ==
  ASSUME SInv, NEW i \in Instances
  PROVE  /\ pc[i] \in {"initialize", "construct", "opened"}
              => Initializing(i) /\ ~Fresh(i)
         /\ pc[i] \in {"stop", "dispose", "leave"} => Closing(i) /\ ~Fresh(i)
         /\ pc[i] \in {"stopping", "restarting"} => Opened(i) /\ ~Fresh(i)
<1>1. Phase(i)
  BY DEF SInv, Phases
<1> QED
  BY <1>1 DEF Phase, Fresh, Queued, Initializing, Opened, Closing, Over

\* At most one instance is opening.
LEMMA OneIsOpening ==
  ASSUME SInv, NEW i \in Instances, NEW j \in Instances,
         pc[i] \in {"initialize", "construct", "opened"},
         pc[j] \in {"initialize", "construct", "opened"}
  PROVE  i = j
  BY PlaceIsPhase DEF SInv, OneOpens, Opens

-----------------------------------------------------------------------------
(***************************************************************************)
(* The steps of a handler.                                                 *)
(***************************************************************************)

\* A step of an instance that has nothing to do with a stream.
LEMMA StreamingStays ==
  ASSUME TypeOK, Streaming, NEW i \in Instances, i \notin isStreaming,
         pc[i] # "stop", pc'[i] \notin {"stop", "stopping", "restarting"},
         \A j \in Instances \ {i} : pc'[j] = pc[j],
         isStreaming' = isStreaming, driver' = driver, active' = active
  PROVE  Believers' = Believers /\ Streaming'
<1>1. Believers' = Believers
  BY DEF Believers
<1>2. \A j \in isStreaming : j \in Instances \ {i}
  BY DEF TypeOK
<1> QED  BY <1>1, <1>2 DEF Streaming

LEMMA OpenDeviceStep ==
  ASSUME SInv, NEW i \in Instances, OpenDevice(i) \/ OpenDeviceFails(i)
  PROVE  Phases' /\ OneOpens' /\ Dialog' /\ Unmade' /\ Driving' /\ Streaming'
<1>1. TypeOK /\ Driving /\ Streaming
  BY DEF SInv
<1>2. Takes(i, "OPEN") /\ Queued(i) /\ ~Fresh(i) /\ queue'[i] = <<>>
  BY OpenIsQueued DEF OpenDevice, OpenDeviceFails
<1>3. \A j \in Instances \ {i} : queue'[j] = queue[j]
  BY <1>1, <1>2, TakesLocal
<1>4. /\ pc'[i] \in {"initialize", "idle"}
      /\ \A j \in Instances \ {i} : pc'[j] = pc[j] /\ told'[j] = told[j]
      /\ UNCHANGED <<made, dev, asked, lock, isOpen, isStreaming, nativeVars>>
  BY <1>1, <1>2 DEF OpenDevice, OpenDeviceFails, Goes, Tells, TypeOK, listVars,
                    Queued
<1>5. \A j \in Instances \ {i} :
        (j \in refs' <=> j \in refs) /\ (j \in connected' <=> j \in connected)
  BY DEF OpenDevice, OpenDeviceFails, listVars
<1>6. \A j \in Instances \ {i} : Same(j) /\ dev'[j] = dev[j]
  BY <1>3, <1>4, <1>5 DEF Same
<1>7. Phase(i)' /\ (Opens(i)' => Opens(i))
  <2>1. CASE OpenDevice(i)
    <3>1. pc'[i] = "initialize" /\ told'[i] = told[i] /\ refs' = refs
          /\ i \in connected'
      BY <1>1, <2>1 DEF OpenDevice, Goes, TypeOK, listVars
    <3> QED  BY <1>2, <1>4, <3>1 DEF Phase, Initializing, Queued, Idle, Opens
  <2>2. CASE OpenDeviceFails(i)
    <3>1. pc'[i] = "idle" /\ told'[i] = "failed" /\ i \notin refs'
      BY <1>1, <1>2, <2>2 DEF OpenDeviceFails, Tells, TypeOK, Queued
    <3> QED  BY <1>2, <1>4, <3>1 DEF Phase, Over, Queued, Idle, Opens
  <2> QED  BY <2>1, <2>2
<1>8. Phases' /\ OneOpens' /\ Dialog' /\ Unmade'
  BY <1>2, <1>4, <1>6, <1>7, OneMoves
<1>9. pc[i] = "idle" /\ i \notin isOpen /\ i \notin isStreaming
  BY <1>2 DEF Queued, Idle
<1>10. Driving'
  BY <1>1, <1>4, <1>9, NobodyIsNone
     DEF Driving, HasDriver, nativeVars, TypeOK
<1>11. Streaming'
  BY <1>1, <1>4, <1>9, StreamingStays DEF nativeVars
<1> QED  BY <1>8, <1>10, <1>11

LEMMA NobodyStreams ==
  ASSUME SInv, driver = Nobody
  PROVE  Believers = {} /\ isStreaming = {} /\ active = "off"
  BY DEF SInv, Streaming, Believers

LEMMA InitializeStep ==
  ASSUME SInv, NEW i \in Instances,
         FindsNoDriver(i) \/ InitializeFails(i) \/ Construct(i) \/ OpenEnds(i)
  PROVE  Phases' /\ OneOpens' /\ Dialog' /\ Unmade' /\ Driving' /\ Streaming'
<1>1. TypeOK /\ Driving /\ Streaming
  BY DEF SInv
<1>2. /\ pc[i] \in {"initialize", "construct", "opened"}
      /\ UNCHANGED <<made, dev, asked, lock, queue, isStreaming>>
  BY DEF FindsNoDriver, InitializeFails, Construct, OpenEnds, listVars, flagVars
<1>3. Initializing(i) /\ ~Fresh(i)
  BY <1>2, PlaceIsPhase
<1>4. \A j \in Instances \ {i} :
        /\ pc'[j] = pc[j] /\ told'[j] = told[j]
        /\ (j \in refs' <=> j \in refs) /\ (j \in connected' <=> j \in connected)
        /\ (j \in isOpen' <=> j \in isOpen)
  BY <1>1 DEF FindsNoDriver, InitializeFails, Construct, OpenEnds, Goes, Tells,
              TypeOK, listVars, flagVars
<1>5. \A j \in Instances \ {i} : Same(j) /\ dev'[j] = dev[j]
  BY <1>2, <1>4 DEF Same
<1>6. /\ i \notin isOpen /\ i \notin isStreaming /\ i \in refs /\ i \in connected
      /\ queue'[i] = <<>> /\ told[i] = "nothing"
  BY <1>2, <1>3 DEF Initializing, Idle
<1>7. \A j \in Instances \ {i} : pc[j] \notin {"initialize", "construct", "opened"}
  BY <1>2, OneIsOpening
<1>8. CASE FindsNoDriver(i)
  <2>1. /\ pc'[i] = "construct" /\ driver = Nobody
        /\ UNCHANGED <<told, refs, flagVars, nativeVars>>
    BY <1>1, <1>8 DEF FindsNoDriver, Goes, TypeOK, listVars
  <2>2. Phase(i)' /\ Opens(i)
    BY <1>2, <1>3, <1>6, <2>1 DEF Phase, Initializing, Idle, flagVars, Opens
  <2>3. Driving'
    BY <1>1, <1>4, <1>6, <2>1, NobodyIsNone
       DEF Driving, HasDriver, flagVars, nativeVars
  <2>4. Streaming'
    BY <1>1, <1>2, <1>4, <1>6, <2>1, StreamingStays DEF flagVars, nativeVars
  <2> QED  BY <1>2, <1>3, <1>5, <2>2, <2>3, <2>4, OneMoves
<1>9. CASE InitializeFails(i)
  <2>1. /\ pc'[i] = "idle" /\ told'[i] = "failed" /\ i \notin refs'
        /\ pc[i] # "opened" /\ UNCHANGED isOpen
    BY <1>1, <1>9 DEF InitializeFails, Goes, Tells, TypeOK
  <2>2. driver' = driver /\ active' = active
    <3>1. CASE pc[i] = "construct"
      <4>1. driver = Nobody /\ active = "off"
        BY <1>1, <3>1, NobodyStreams DEF Driving
      <4> QED  BY <1>9, <3>1, <4>1 DEF InitializeFails
    <3>2. CASE pc[i] # "construct"
      BY <1>1, <1>9, <3>2 DEF InitializeFails, TypeOK
    <3> QED  BY <3>1, <3>2
  <2>3. Phase(i)' /\ Opens(i)
    BY <1>2, <1>3, <1>6, <2>1 DEF Phase, Over, Idle, Opens
  <2>4. Driving'
    BY <1>1, <1>2, <1>4, <1>6, <2>1, <2>2 DEF Driving, HasDriver, TypeOK
  <2>5. Streaming'
    BY <1>1, <1>2, <1>4, <1>6, <2>1, <2>2, StreamingStays
  <2> QED  BY <1>2, <1>3, <1>5, <2>3, <2>4, <2>5, OneMoves
<1>10. CASE Construct(i)
  <2>1. /\ pc[i] = "construct" /\ pc'[i] = "opened" /\ driver' = i
        /\ active' = "off" /\ UNCHANGED <<told, refs, flagVars>>
    BY <1>1, <1>10 DEF Construct, Goes, TypeOK, listVars
  <2>2. driver = Nobody
    BY <1>1, <2>1 DEF Driving
  <2>3. Phase(i)' /\ Opens(i)
    BY <1>2, <1>3, <1>6, <2>1 DEF Phase, Initializing, Idle, flagVars, Opens
  <2>4. \A j \in Instances \ {i} : ~HasDriver(j)
    BY <1>1, <2>2, NobodyIsNone DEF Driving
  <2>5. Driving'
    BY <1>4, <1>7, <2>1, <2>4, NobodyIsNone DEF Driving, HasDriver, flagVars
  <2>6. Streaming'
    <3>1. Believers = {} /\ isStreaming = {}
      BY <2>2, NobodyStreams
    <3>2. Believers' = {} /\ isStreaming' = {}
      BY <1>2, <1>4, <2>1, <3>1 DEF Believers
    <3>3. \A j \in Instances : pc'[j] \notin {"stopping", "restarting"}
      BY <1>1, <1>4, <2>1, <3>1 DEF Streaming
    <3> QED  BY <2>1, <3>2, <3>3 DEF Streaming
  <2> QED  BY <1>2, <1>3, <1>5, <2>3, <2>5, <2>6, OneMoves
<1>11. CASE OpenEnds(i)
  <2>1. /\ pc[i] = "opened" /\ pc'[i] = "idle" /\ told'[i] = "open"
        /\ i \in isOpen' /\ UNCHANGED <<refs, connected, nativeVars>>
    BY <1>1, <1>11 DEF OpenEnds, Goes, Tells, TypeOK, listVars
  <2>2. Phase(i)' /\ Opens(i)
    <3>1. Orderly(<<>>)
      BY DEF Orderly
    <3> QED  BY <1>3, <1>6, <2>1, <3>1 DEF Phase, Opened, Opens
  <2>3. Driving'
    BY <1>1, <1>4, <1>7, <2>1 DEF Driving, HasDriver, nativeVars, TypeOK
  <2>4. Streaming'
    BY <1>1, <1>2, <1>4, <1>6, <2>1, StreamingStays DEF nativeVars
  <2> QED  BY <1>2, <1>3, <1>5, <2>2, <2>3, <2>4, OneMoves
<1> QED  BY <1>8, <1>9, <1>10, <1>11

LEMMA CloseStep ==
  ASSUME SInv, NEW i \in Instances,
         CloseBegins(i) \/ CloseStops(i) \/ Dispose(i) \/ CloseEnds(i)
  PROVE  Phases' /\ OneOpens' /\ Dialog' /\ Unmade' /\ Driving' /\ Streaming'
<1>1. TypeOK /\ Driving /\ Streaming
  BY DEF SInv
<1>2. CASE CloseBegins(i)
  <2>1. Takes(i, "CLOSE") /\ "CLOSE" \in Requests
    BY <1>2 DEF CloseBegins, Requests
  <2>2. Opened(i) /\ ~Fresh(i) /\ queue'[i] = <<>>
    BY <2>1, RequestIsOpened
  <2>3. /\ pc[i] = "idle" /\ lock' = i /\ lock = Nobody
        /\ pc'[i] = (IF i \in isStreaming THEN "stop" ELSE "dispose")
        /\ \A j \in Instances \ {i} : pc'[j] = pc[j] /\ queue'[j] = queue[j]
        /\ isStreaming' = isStreaming \ {i}
        /\ UNCHANGED <<listVars, connected, isOpen, nativeVars, told>>
    BY <1>1, <1>2, <2>1, <2>2, TakesLocal
       DEF CloseBegins, Takes, Goes, TypeOK, Opened
  <2>4. \A j \in Instances \ {i} : Same(j) /\ dev'[j] = dev[j]
    BY <2>3, NobodyIsNone DEF Same, listVars
  <2>5. Phase(i)' /\ (Opens(i)' => Opens(i))
    BY <2>2, <2>3 DEF Phase, Opened, Closing, Opens, Queued, Initializing,
                      listVars
  <2>6. Phases' /\ OneOpens' /\ Dialog' /\ Unmade'
    BY <2>2, <2>3, <2>4, <2>5, OneMoves DEF listVars
  <2>7. Driving'
    BY <1>1, <2>3 DEF Driving, HasDriver, nativeVars, TypeOK
  <2>8. Streaming'
    <3>1. Believers' = Believers
      BY <2>3 DEF Believers
    <3> QED  BY <1>1, <2>3, <3>1 DEF Streaming, nativeVars, TypeOK
  <2> QED  BY <2>6, <2>7, <2>8
<1>3. CASE CloseStops(i) \/ Dispose(i) \/ CloseEnds(i)
  <2>1. pc[i] \in {"stop", "dispose", "leave"}
    BY <1>3 DEF CloseStops, Dispose, CloseEnds
  <2>2. Closing(i) /\ ~Fresh(i)
    BY <2>1, PlaceIsPhase
  <2>3. /\ \A j \in Instances \ {i} :
              /\ pc'[j] = pc[j] /\ told'[j] = told[j] /\ dev'[j] = dev[j]
              /\ (j \in refs' <=> j \in refs)
              /\ (j \in connected' <=> j \in connected)
              /\ (j \in isOpen' <=> j \in isOpen)
        /\ UNCHANGED <<made, asked, queue, isStreaming>>
    BY <1>1, <1>3 DEF CloseStops, Dispose, CloseEnds, Goes, Tells, TypeOK,
                      listVars, flagVars
  <2>4. \A j \in Instances \ {i} : Same(j) /\ dev'[j] = dev[j]
    <3>1. lock = i
      BY <2>2 DEF Closing
    <3> QED  BY <2>3, <3>1 DEF Same
  <2>5. pc[i] # "leave" => driver = i
    BY <1>1, <2>2 DEF Closing, Driving, HasDriver
  <2>6. /\ \A j \in Believers : driver = j
        /\ i \notin isStreaming /\ isStreaming \subseteq Believers
    BY <1>1, <2>1 DEF Streaming, Believers
  <2>7. CASE CloseStops(i)
    <3>1. /\ pc[i] = "stop" /\ pc'[i] = "dispose" /\ active' = "off"
          /\ UNCHANGED <<listVars, lock, queue, flagVars, driver, told>>
      BY <1>1, <2>7 DEF CloseStops, Goes, TypeOK
    <3>2. isStreaming' = {} /\ Believers' = {}
      <4>1. isStreaming \subseteq {i} /\ \A j \in Instances : pc[j] = "stop" => j = i
        BY <2>5, <2>6, <3>1 DEF Believers
      <4>2. isStreaming = {}
        BY <2>6, <4>1
      <4> QED  BY <2>3, <3>1, <4>1, <4>2 DEF Believers
    <3>3. Phase(i)' /\ (Opens(i)' => Opens(i))
      BY <2>2, <3>1
         DEF Phase, Closing, Opens, Queued, Initializing, listVars, flagVars
    <3>4. Driving'
      BY <1>1, <2>3, <3>1 DEF Driving, HasDriver, TypeOK, flagVars
    <3>5. Streaming'
      <4>1. \A j \in Instances : pc'[j] \notin {"stopping", "restarting"}
        BY <1>1, <2>3, <3>1, <3>2 DEF Streaming
      <4> QED  BY <3>1, <3>2, <4>1 DEF Streaming
    <3> QED  BY <2>2, <2>3, <2>4, <3>3, <3>4, <3>5, OneMoves
  <2>8. CASE Dispose(i)
    <3>1. /\ pc[i] = "dispose" /\ pc'[i] = "leave" /\ driver' = Nobody
          /\ active' = "off"
          /\ UNCHANGED <<listVars, lock, queue, flagVars, told>>
      BY <1>1, <2>8 DEF Dispose, Goes, TypeOK
    <3>2. Believers = {}
      BY <2>5, <2>6, <3>1 DEF Believers
    <3>3. Phase(i)' /\ (Opens(i)' => Opens(i))
      BY <2>2, <3>1
         DEF Phase, Closing, Opens, Queued, Initializing, listVars, flagVars
    <3>4. \A j \in Instances \ {i} : ~HasDriver(j) /\ pc[j] # "construct"
      BY <1>1, <2>5, <3>1, NobodyIsNone DEF Driving
    <3>5. Driving'
      BY <2>3, <3>1, <3>4 DEF Driving, HasDriver, flagVars
    <3>6. Streaming'
      <4>1. Believers' = {} /\ isStreaming' = {}
        BY <2>3, <3>1, <3>2 DEF Believers
      <4>2. \A j \in Instances : pc'[j] \notin {"stopping", "restarting"}
        BY <1>1, <2>3, <2>6, <3>1, <3>2 DEF Streaming
      <4> QED  BY <3>1, <4>1, <4>2 DEF Streaming
    <3> QED  BY <2>2, <2>3, <2>4, <3>3, <3>5, <3>6, OneMoves
  <2>9. CASE CloseEnds(i)
    <3>1. /\ pc[i] = "leave" /\ pc'[i] = "idle" /\ lock' = Nobody
          /\ i \notin isOpen' /\ i \notin refs' /\ told'[i] = "closed"
          /\ UNCHANGED <<queue, isStreaming, nativeVars>>
      BY <1>1, <2>9 DEF CloseEnds, Goes, Tells, TypeOK
    <3>3. Phase(i)' /\ (Opens(i)' => Opens(i))
      BY <2>2, <2>6, <3>1
         DEF Phase, Closing, Over, Idle, Opens, Queued, Initializing
    <3>4. Driving'
      BY <1>1, <2>3, <3>1 DEF Driving, HasDriver, nativeVars, TypeOK
    <3>5. Streaming'
      BY <1>1, <2>3, <2>6, <3>1, StreamingStays DEF nativeVars
    <3> QED  BY <2>2, <2>3, <2>4, <3>3, <3>4, <3>5, OneMoves
  <2> QED  BY <1>3, <2>7, <2>8, <2>9
<1> QED  BY <1>2, <1>3

\* What the native start does to the stream of its owner.
LEMMA Starts ==
  ASSUME NEW i \in Instances, driver = i, isStreaming \subseteq {i},
         NEW from \in {"off", "half"},
         StartSucceeds(i, from) \/ StartFails(i, from)
  PROVE  \/ isStreaming' = {i} /\ from = "off" /\ active' = "on"
         \/ isStreaming' = {i} /\ from = "half" /\ active' = "half"
         \/ isStreaming' = {} /\ from = "off" /\ active' \in {"off", "half"}
  BY NobodyIsNone DEF StartSucceeds, StartFails

\* The handler of an open instance takes a message of the stream, or leaves a
\* stop.
LEMMA StreamStep ==
  ASSUME SInv, NEW i \in Instances,
         \/ StartStreaming(i) \/ StopStreaming(i) \/ RestartStream(i)
         \/ StopEnds(i) \/ RestartEnds(i)
  PROVE  Phases' /\ OneOpens' /\ Dialog' /\ Unmade' /\ Driving' /\ Streaming'
<1> USE DEF StartStreaming, StopStreaming, RestartStream, StopEnds, RestartEnds
<1>1. TypeOK /\ Driving /\ Streaming
  BY DEF SInv
<1>2. Opened(i) /\ ~Fresh(i) /\ Orderly(queue'[i])
  <2>1. CASE StopEnds(i) \/ RestartEnds(i)
    BY <2>1, PlaceIsPhase DEF Opened
  <2>2. CASE StartStreaming(i) \/ StopStreaming(i) \/ RestartStream(i)
    <3>1. PICK m \in Requests : Takes(i, m)
      BY <2>2 DEF Requests
    <3> QED  BY <3>1, RequestIsOpened
  <2> QED  BY <2>1, <2>2
<1>3. UNCHANGED <<listVars, lock, connected, isOpen, driver, told>>
  BY DEF flagVars, nativeVars
<1>4. /\ pc'[i] \in {"idle", "stopping", "restarting"}
      /\ pc'[i] # "idle" => pc[i] = "idle" /\ i \in isStreaming'
      /\ \A j \in Instances \ {i} : pc'[j] = pc[j] /\ queue'[j] = queue[j]
  <2>1. CASE StopEnds(i) \/ RestartEnds(i)
    BY <1>1, <2>1 DEF Goes, TypeOK
  <2>2. CASE StartStreaming(i) \/ StopStreaming(i) \/ RestartStream(i)
    <3>1. PICK m \in Requests : Takes(i, m)
      BY <2>2 DEF Requests
    <3>2. \A j \in Instances \ {i} : queue'[j] = queue[j]
      BY <1>1, <3>1, TakesLocal
    <3>3. pc[i] = "idle"
      BY <3>1 DEF Takes
    <3> QED  BY <1>1, <2>2, <3>2, <3>3 DEF Goes, TypeOK, flagVars
  <2> QED  BY <2>1, <2>2
<1>5. driver = i /\ pc[i] # "stop"
  BY <1>1, <1>2 DEF Opened, Driving, HasDriver
<1>6. /\ isStreaming \subseteq {i} /\ Believers = isStreaming
      /\ \A j \in Instances : pc[j] # "stop"
      /\ \A j \in Instances \ {i} : pc[j] \notin {"stopping", "restarting"}
  BY <1>1, <1>5 DEF Streaming, Believers
<1>7. /\ isStreaming' \subseteq {i}
      /\ active' = "on" => isStreaming' # {}
      /\ active' = "off" => isStreaming' = {}
  <2>1. CASE StartStreaming(i)
    <3>1. CASE i \in isStreaming
      BY <1>1, <1>6, <2>1, <3>1 DEF Streaming
    <3>2. CASE i \notin isStreaming
      <4>1. isStreaming = {} /\ active \in {"off", "half"}
        BY <1>1, <1>6, <3>2 DEF Streaming, TypeOK
      <4> QED  BY <1>5, <2>1, <3>2, <4>1, Starts
    <3> QED  BY <3>1, <3>2
  <2>2. CASE StopStreaming(i) \/ RestartStream(i)
    BY <1>1, <1>6, <2>2 DEF Streaming, flagVars, nativeVars
  <2>3. CASE StopEnds(i)
    BY <1>6, <2>3
  <2>4. CASE RestartEnds(i)
    BY <1>5, <1>6, <2>4, Starts
  <2> QED  BY <2>1, <2>2, <2>3, <2>4
<1>8. \A j \in Instances \ {i} : Same(j) /\ dev'[j] = dev[j]
  BY <1>3, <1>4, <1>6, <1>7 DEF Same, listVars
<1>9. Phase(i)' /\ (Opens(i)' => Opens(i))
  BY <1>2, <1>3, <1>4 DEF Phase, Opened, Opens, Queued, Initializing, listVars
<1>10. Phases' /\ OneOpens' /\ Dialog' /\ Unmade'
  BY <1>2, <1>3, <1>8, <1>9, OneMoves DEF listVars
<1>11. Driving'
  BY <1>1, <1>2, <1>3, <1>4 DEF Driving, HasDriver, Opened
<1>12. Streaming'
  <2>1. Believers' = isStreaming'
    BY <1>4, <1>6 DEF Believers
  <2> QED  BY <1>3, <1>4, <1>5, <1>6, <1>7, <2>1, NobodyIsNone DEF Streaming
<1> QED  BY <1>10, <1>11, <1>12

LEMMA HandlerStep ==
  ASSUME SInv, NEW i \in Instances, Handler(i) PROVE SInv'
<1>1. TypeOK'
  BY HandlerTypes DEF SInv
<1>2. Phases' /\ OneOpens' /\ Dialog' /\ Unmade' /\ Driving' /\ Streaming'
  BY OpenDeviceStep, InitializeStep, CloseStep, StreamStep DEF Handler
<1> QED  BY <1>1, <1>2 DEF SInv

-----------------------------------------------------------------------------
(***************************************************************************)
(* The steps of the main thread and of the client.                         *)
(***************************************************************************)

\* They do not touch the driver.
LEMMA DriverStays ==
  ASSUME Driving, Streaming, UNCHANGED <<pc, isOpen, isStreaming, driver, active>>
  PROVE  Driving' /\ Streaming'
  BY DEF Driving, Streaming, HasDriver, Believers

LEMMA OpenStep ==
  ASSUME PoliteClient, SInv, NEW d \in Devices, Open(d) PROVE SInv'
<1>1. /\ TypeOK /\ Driving /\ Streaming /\ Dialog /\ Unmade
      /\ \A j \in Instances : Phase(j)
  BY DEF SInv, Phases
<1>2. TypeOK'
  BY <1>1, MainTypes
<1>3. PICK n \in Instances : n = made + 1 /\ made \in Nat /\ made' = n
  BY <1>1, SessionAssumption DEF Open, Instances, TypeOK
<1>4. Unanswered = {}
  BY DEF PoliteClient, Open
<1>5. \A j \in Instances : ~Opens(j)
  <2>1. SUFFICES ASSUME NEW j \in Instances, Opens(j) PROVE FALSE
    OBVIOUS
  <2>2. Queued(j) => Has(j, "OPEN")
    <3>1. Len(<<"OPEN">>) = 1 /\ <<"OPEN">>[1] = "OPEN" /\ 1 \in 1..1
      OBVIOUS
    <3> QED  BY <3>1 DEF Queued, Has
  <2>3. Initializing(j) => pc[j] \in {"initialize", "construct", "opened"}
    BY DEF Initializing
  <2> QED  BY <1>4, <2>1, <2>2, <2>3 DEF Opens, Unanswered
<1>6. asked = {}
  <2>1. SUFFICES ASSUME NEW e \in asked PROVE FALSE
    OBVIOUS
  <2>2. PICK j \in refs : e \in dev[j]
    BY <1>1 DEF Dialog
  <2>3. j \in Instances
    BY <1>1 DEF TypeOK
  <2> QED  BY <1>4, <2>1, <2>2, <2>3 DEF Unanswered
<1>7. Fresh(n) /\ n \notin refs
  BY <1>1, <1>3 DEF Unmade
<1>8. /\ refs' = (refs \ Stale(d)) \cup {n}
      /\ dev'[n] = {d}
      /\ \A j \in Instances \ {n} : queue'[j] = queue[j] /\ dev'[j] = dev[j]
      /\ \/ asked' = asked /\ queue'[n] = <<"OPEN">>
         \/ asked' \subseteq {d} /\ queue'[n] = <<>>
      /\ UNCHANGED <<allowed, lock, pc, flagVars, nativeVars, told>>
  <2>1. \/ asked' = asked /\ queue'[n] = <<"OPEN">>
        \/ asked' \subseteq {d} /\ queue'[n] = <<>>
    BY <1>1, <1>3, <1>6, <1>7 DEF Open, TypeOK, Fresh
  <2>2. \A j \in Instances \ {n} : queue'[j] = queue[j] /\ dev'[j] = dev[j]
    BY <1>1, <1>3 DEF Open, TypeOK
  <2>3. dev'[n] = {d}
    BY <1>1, <1>3 DEF Open, TypeOK
  <2> QED  BY <1>3, <2>1, <2>2, <2>3 DEF Open, Listed
<1>9. \A j \in Stale(d) : Fresh(j)
  BY <1>1, <1>5 DEF Stale, Phase, Opens, Opened, Closing, Over, TypeOK
<1>10. \A j \in Instances \ {n} :
         /\ Phase(j)' /\ ~Opens(j)' /\ (Fresh(j) => Fresh(j)')
  <2> TAKE j \in Instances \ {n}
  <2>1. CASE j \in Stale(d)
    <3>1. Fresh(j)'
      BY <1>8, <1>9, <2>1 DEF Fresh, Idle, flagVars
    <3> QED  BY <3>1 DEF Phase, Opens, Fresh, Queued, Initializing
  <2>2. CASE j \notin Stale(d)
    <3>1. Same(j)
      BY <1>8, <2>2 DEF Same, flagVars
    <3> QED  BY <1>1, <1>5, <3>1, SamePhase
  <2> QED  BY <2>1, <2>2
<1>11. Phase(n)' /\ (queue'[n] = <<>> => Fresh(n)' /\ ~Opens(n)')
  BY <1>7, <1>8
     DEF Phase, Fresh, Queued, Initializing, Idle, Opens, flagVars
<1>12. Phases' /\ OneOpens'
  BY <1>10, <1>11 DEF Phases, OneOpens
<1>13. Dialog'
  <2>1. CASE asked' = {}
    BY <2>1 DEF Dialog
  <2>2. CASE asked' # {}
    <3>1. asked' = {d} /\ queue'[n] = <<>>
      BY <1>6, <1>8, <2>2
    <3>2. n \in refs' /\ d \in dev'[n] /\ Fresh(n)' /\ ~Opens(n)'
      BY <1>8, <1>11, <3>1
    <3> QED  BY <1>10, <3>1, <3>2 DEF Dialog
  <2> QED  BY <2>1, <2>2
<1>14. Unmade'
  <2>1. SUFFICES ASSUME NEW j \in Instances, j > n
                 PROVE  Fresh(j)' /\ j \notin refs'
    BY <1>3 DEF Unmade
  <2>2. j # n /\ j > made
    BY <1>3, <2>1 DEF Instances
  <2> QED  BY <1>1, <1>8, <1>10, <2>2 DEF Unmade
<1>15. Driving' /\ Streaming'
  BY <1>1, <1>8, DriverStays DEF flagVars, nativeVars
<1> QED  BY <1>2, <1>12, <1>13, <1>14, <1>15 DEF SInv

\* A dialog is about one instance, which is not open.
LEMMA DialogIsOne ==
  ASSUME SInv, NEW d \in asked
  PROVE  \E j \in refs : /\ Fresh(j) /\ {i \in refs : d \in dev[i]} = {j}
                         /\ asked = {d} /\ j \notin isOpen
<1>1. PICK j \in refs : d \in dev[j] /\ Fresh(j)
  BY DEF SInv, Dialog
<1>2. {i \in refs : d \in dev[i]} = {j}
  BY <1>1 DEF SInv, TypeOK
<1>3. asked = {d}
  BY DEF SInv, Dialog
<1> QED  BY <1>1, <1>2, <1>3 DEF Fresh, Idle

LEMMA AnswerStep ==
  ASSUME SInv, NEW d \in Devices, Granted(d) \/ Denied(d) PROVE SInv'
<1>1. /\ TypeOK /\ Driving /\ Streaming /\ Dialog /\ Unmade
      /\ \A j \in Instances : Phase(j)
  BY DEF SInv, Phases
<1>2. TypeOK'
  BY <1>1, MainTypes
<1>3. d \in asked /\ asked' = asked \ {d}
  BY DEF Granted, Denied
<1>4. PICK j \in refs : /\ Fresh(j) /\ {i \in refs : d \in dev[i]} = {j}
                       /\ asked = {d} /\ j \notin isOpen
  BY <1>3, DialogIsOne
<1>5. asked' = {} /\ j \in Instances
  BY <1>1, <1>3, <1>4 DEF TypeOK
<1>6. \A k \in Instances : ~Opens(k)
  BY <1>1, <1>3 DEF Dialog
<1>7. Stale(d) = {j}
  BY <1>4 DEF Stale
<1>8. UNCHANGED <<made, dev, lock, pc, flagVars, nativeVars>>
  BY DEF Granted, Denied
<1>9. \A k \in Instances \ {j} : Same(k)
  BY <1>4, <1>7, <1>8 DEF Granted, Denied, Same, flagVars
<1>10. \A k \in Instances \ {j} :
         Phase(k)' /\ ~Opens(k)' /\ (Fresh(k) => Fresh(k)')
  BY <1>1, <1>6, <1>9, SamePhase
<1>11. Phase(j)'
  <2>1. CASE Granted(d)
    <3>1. queue'[j] = Append(<<>>, "OPEN") /\ told' = told /\ refs' = refs
      BY <1>4, <1>5, <1>7, <2>1 DEF Granted, Fresh
    <3>2. queue'[j] = <<"OPEN">>
      BY <3>1
    <3> QED  BY <1>4, <1>8, <3>1, <3>2 DEF Phase, Queued, Fresh, Idle, flagVars
  <2>2. CASE Denied(d)
    <3>1. told'[j] = "failed" /\ j \notin refs' /\ queue' = queue
      BY <1>4, <1>5, <2>2 DEF Denied
    <3> QED  BY <1>4, <1>8, <3>1 DEF Phase, Over, Fresh, Idle, flagVars
  <2> QED  BY <2>1, <2>2
<1>12. Phases' /\ OneOpens'
  BY <1>10, <1>11 DEF Phases, OneOpens
<1>13. Dialog'
  BY <1>5 DEF Dialog
<1>14. Unmade'
  <2>1. ~(j > made)
    BY <1>1, <1>4, <1>5 DEF Unmade
  <2>2. refs' \subseteq refs
    BY DEF Granted, Denied
  <2> QED  BY <1>1, <1>8, <1>10, <2>1, <2>2 DEF Unmade
<1>15. Driving' /\ Streaming'
  BY <1>1, <1>8, DriverStays DEF flagVars, nativeVars
<1> QED  BY <1>2, <1>12, <1>13, <1>14, <1>15 DEF SInv

LEMMA SendStep ==
  ASSUME PoliteClient, SInv, NEW i \in Instances, NEW m \in Requests, Send(i, m)
  PROVE  SInv'
<1>1. TypeOK /\ Driving /\ Streaming /\ Phase(i)
  BY DEF SInv, Phases
<1>2. /\ told[i] = "open" /\ ~Has(i, "CLOSE") /\ lock # i
      /\ queue' = [queue EXCEPT ![i] = Append(queue[i], m)]
      /\ UNCHANGED <<listVars, lock, pc, flagVars, nativeVars, told>>
  BY DEF Send, PoliteClient
<1>3. Opened(i)
  BY <1>1, <1>2 DEF Phase, Fresh, Queued, Initializing, Closing, Over
<1>4. queue'[i] = Append(queue[i], m) /\ queue[i] \in Seq(Requests)
  BY <1>1, <1>2, <1>3 DEF TypeOK, Opened, Orderly
<1>5. Orderly(queue'[i])
  <2>1. /\ queue'[i] \in Seq(Requests) /\ Len(queue'[i]) = Len(queue[i]) + 1
        /\ \A k \in 1..Len(queue[i]) : queue'[i][k] = queue[i][k]
    BY <1>4
  <2>2. \A k \in 1..Len(queue[i]) : queue[i][k] # "CLOSE"
    BY <1>2 DEF Has
  <2> QED  BY <1>4, <2>1, <2>2 DEF Orderly
<1>6. Phase(i)' /\ ~Opens(i)' /\ ~Fresh(i)
  BY <1>2, <1>3, <1>5
     DEF Phase, Opened, Opens, Queued, Initializing, Fresh, listVars, flagVars
<1>7. \A j \in Instances \ {i} : Same(j) /\ dev'[j] = dev[j]
  BY <1>1, <1>2 DEF Same, TypeOK, listVars, flagVars
<1>8. Phases' /\ OneOpens' /\ Dialog' /\ Unmade'
  BY <1>2, <1>6, <1>7, OneMoves DEF listVars
<1>9. Driving' /\ Streaming'
  BY <1>1, <1>2, DriverStays DEF flagVars, nativeVars
<1> QED  BY <1>1, <1>8, <1>9, SendTypes DEF SInv

-----------------------------------------------------------------------------
(***************************************************************************)
(* The invariant, and what the sessions promise of the driver.             *)
(***************************************************************************)
LEMMA Initially == Init => SInv
<1> SUFFICES ASSUME Init PROVE SInv
  OBVIOUS
<1>1. TypeOK
  BY TypeInit
<1>2. \A i \in Instances : Fresh(i) /\ ~HasDriver(i) /\ pc[i] # "construct"
  BY DEF Init, Fresh, Idle, HasDriver
<1>3. Phases /\ OneOpens
  BY <1>2 DEF Phases, Phase, OneOpens, Opens, Fresh, Queued, Initializing
<1>4. Dialog /\ Unmade
  BY <1>2 DEF Init, Dialog, Unmade
<1>5. Driving /\ Streaming
  BY <1>2 DEF Init, Driving, Streaming, Believers
<1> QED  BY <1>1, <1>3, <1>4, <1>5 DEF SInv

LEMMA Stutters == ASSUME SInv, UNCHANGED vars PROVE SInv'
<1> USE DEF vars, listVars, flagVars, nativeVars, SInv
<1>1. TypeOK'
  BY DEF TypeOK
<1>2. Phases' /\ OneOpens' /\ Dialog' /\ Unmade'
  BY DEF Phases, Phase, OneOpens, Opens, Dialog, Unmade, Fresh, Queued,
         Initializing, Opened, Closing, Over, Idle
<1>3. Driving' /\ Streaming'
  BY DriverStays
<1> QED  BY <1>1, <1>2, <1>3

LEMMA Inductive ==
  ASSUME PoliteClient, SInv, [Next]_vars PROVE SInv'
<1>1. CASE MainThread
  BY <1>1, OpenStep, AnswerStep DEF MainThread
<1>2. CASE Client
  BY <1>2, SendStep DEF Client
<1>3. CASE \E i \in Instances : Handler(i)
  BY <1>3, HandlerStep
<1>4. CASE UNCHANGED vars
  BY <1>4, Stutters
<1> QED  BY <1>1, <1>2, <1>3, <1>4 DEF Next

\* For a polite client, however many devices and instances there are: one
\* instance opens at a time, and the driver is the one of who opened last.
THEOREM Invariant == ASSUME PoliteClient PROVE Spec => []SInv
<1>1. SInv /\ [Next]_vars => SInv'
  BY Inductive
<1> QED  BY <1>1, Initially, PTL DEF Spec

\* The types, and that mReferenceList has a device once.
THEOREM SessionTypes == ASSUME PoliteClient PROVE Spec => []TypeOK
<1>1. SInv => TypeOK
  BY DEF SInv
<1> QED  BY <1>1, Invariant, PTL

\* An instance that says it is open has the native driver.
THEOREM OpenHasDriver == ASSUME PoliteClient PROVE Spec => []OpenOwnsDriver
<1>1. SInv => OpenOwnsDriver
  <2>1. SUFFICES ASSUME SInv, NEW i \in isOpen
                 PROVE  /\ i \in refs /\ i \in connected
                        /\ pc[i] # "leave" => driver = i
    BY DEF OpenOwnsDriver
  <2>2. i \in Instances /\ Phase(i)
    BY <2>1 DEF SInv, TypeOK, Phases
  <2>3. Opened(i) \/ Closing(i)
    BY <2>1, <2>2 DEF Phase, Fresh, Queued, Initializing, Over, Idle
  <2>4. pc[i] # "leave" => driver = i
    BY <2>1, <2>2 DEF SInv, Driving, HasDriver
  <2> QED  BY <2>3, <2>4 DEF Opened, Closing
<1> QED  BY <1>1, Invariant, PTL

\* The state that DriverOwner sees.
LEMMA OwnerSees ==
  ASSUME SInv, NEW i \in Instances, driver = i
  PROVE  /\ Believers = {} \/ Believers = {i}
         /\ active = "on" => Believers = {i}
         /\ active = "off" => Believers = {}
  BY DEF SInv, Streaming

LEMMA OwnerStays ==
  ASSUME UNCHANGED <<driver, active>>, Believers' = Believers
  PROVE  UNCHANGED Owner!vars
  BY DEF Owner!vars

\* What the native start does to them.
LEMMA OwnerStarts ==
  ASSUME SInv, NEW i \in Instances, driver = i, driver' = i, Believers = {},
         Believers' = isStreaming', isStreaming = {},
         StartSucceeds(i, active) \/ StartFails(i, active)
  PROVE  [Owner!Next]_Owner!vars
<1>1. active \in {"off", "half"}
  BY DEF SInv, TypeOK, Streaming
<1>2. CASE isStreaming' = {i} /\ active = "off" /\ active' = "on"
  BY <1>2 DEF Owner!Next, Owner!Start
<1>3. CASE isStreaming' = {i} /\ active = "half" /\ active' = "half"
  BY <1>3 DEF Owner!Next, Owner!StartWedged
<1>4. CASE isStreaming' = {} /\ active = "off" /\ active' \in {"off", "half"}
  <2>1. CASE active' = "half"
    BY <1>4, <2>1 DEF Owner!Next, Owner!StartWedges
  <2>2. CASE active' = "off"
    BY <1>4, <2>2, OwnerStays
  <2> QED  BY <1>4, <2>1, <2>2
<1> QED  BY <1>1, <1>2, <1>3, <1>4, Starts

\* The steps of the handler of an open instance.
LEMMA OwnerStreams ==
  ASSUME SInv, SInv', NEW i \in Instances,
         \/ StartStreaming(i) \/ StopStreaming(i) \/ RestartStream(i)
         \/ StopEnds(i) \/ RestartEnds(i)
  PROVE  [Owner!Next]_Owner!vars
<1> USE DEF StartStreaming, StopStreaming, RestartStream, StopEnds, RestartEnds
<1>1. Opened(i)
  <2>1. CASE StopEnds(i) \/ RestartEnds(i)
    BY <2>1, PlaceIsPhase
  <2>2. CASE StartStreaming(i) \/ StopStreaming(i) \/ RestartStream(i)
    <3>1. PICK m \in Requests : Takes(i, m)
      BY <2>2 DEF Requests
    <3> QED  BY <3>1, RequestIsOpened
  <2> QED  BY <2>1, <2>2
<1>2. driver = i /\ driver' = i
  <2>1. driver' = driver
    BY DEF nativeVars
  <2> QED  BY <1>1, <2>1 DEF SInv, Opened, Driving, HasDriver
<1>3. \A j \in Instances : pc[j] # "stop" /\ pc'[j] # "stop"
  <2>1. \A j \in Instances : pc[j] = "stop" => j = i
    BY <1>2 DEF SInv, Streaming, Believers
  <2>2. pc[i] # "stop"
    BY <1>1 DEF Opened
  <2>3. \A j \in Instances : pc'[j] = pc[j] \/ pc'[j] # "stop"
    BY DEF SInv, TypeOK, Goes
  <2> QED  BY <2>1, <2>2, <2>3
<1>4. Believers = isStreaming /\ Believers' = isStreaming'
  BY <1>3 DEF Believers
<1>5. CASE StartStreaming(i)
  <2>1. CASE i \in isStreaming
    BY <1>2, <1>4, <1>5, <2>1, OwnerStays
  <2>2. CASE i \notin isStreaming
    <3>1. Believers = {} /\ isStreaming = {}
      BY <1>2, <1>4, <2>2, OwnerSees
    <3>2. StartSucceeds(i, active) \/ StartFails(i, active)
      BY <1>5, <2>2
    <3> QED  BY <1>2, <1>4, <3>1, <3>2, OwnerStarts
  <2> QED  BY <2>1, <2>2
<1>6. CASE StopStreaming(i) \/ RestartStream(i)
  BY <1>2, <1>4, <1>6, OwnerStays DEF flagVars, nativeVars
<1>7. CASE StopEnds(i)
  <2>1. isStreaming' = {} /\ active' = "off"
    BY <1>2, <1>4, <1>7, OwnerSees
  <2> QED  BY <1>2, <1>4, <2>1 DEF Owner!Next, Owner!Stop
<1>8. CASE RestartEnds(i)
  <2>1. Believers = {i} /\ isStreaming = {i}
    <3>1. i \in isStreaming
      BY <1>8 DEF SInv, Streaming
    <3> QED  BY <1>2, <1>4, <3>1, OwnerSees
  <2>2. \/ isStreaming' = {i} /\ active' = "on"
        \/ isStreaming' = {} /\ active' \in {"off", "half"}
    BY <1>2, <1>8, <2>1, Starts
  <2> QED  BY <1>2, <1>4, <2>1, <2>2 DEF Owner!Next, Owner!Restart
<1> QED  BY <1>5, <1>6, <1>7, <1>8

\* The steps of a close.
LEMMA OwnerCloses ==
  ASSUME SInv, NEW i \in Instances,
         CloseBegins(i) \/ CloseStops(i) \/ Dispose(i) \/ CloseEnds(i)
  PROVE  [Owner!Next]_Owner!vars
<1>1. TypeOK /\ Streaming
  BY DEF SInv
<1>2. CASE CloseBegins(i)
  <2>1. Takes(i, "CLOSE") /\ "CLOSE" \in Requests
    BY <1>2 DEF CloseBegins, Requests
  <2>2. Opened(i) /\ pc[i] = "idle"
    BY <2>1, RequestIsOpened DEF Takes
  <2>3. Believers' = Believers
    BY <1>1, <1>2, <2>2 DEF CloseBegins, Goes, TypeOK, Opened, Believers
  <2> QED  BY <1>2, <2>3, OwnerStays DEF CloseBegins, nativeVars
<1>3. CASE CloseStops(i) \/ Dispose(i)
  <2>1. Closing(i)
    BY <1>3, PlaceIsPhase DEF CloseStops, Dispose
  <2>2. driver = i
    BY <1>3, <2>1 DEF SInv, Driving, HasDriver, Closing, CloseStops, Dispose
  <2>3. i \notin isStreaming
    BY <1>1, <1>3 DEF CloseStops, Dispose, Streaming
  <2>4. isStreaming = {} /\ \A j \in Instances : pc[j] = "stop" => j = i
    BY <1>1, <2>2, <2>3 DEF Streaming, Believers
  <2>5. Believers' = {}
    BY <1>1, <1>3, <2>4
       DEF CloseStops, Dispose, Goes, TypeOK, flagVars, Believers
  <2>6. CASE CloseStops(i)
    BY <2>2, <2>5, <2>6 DEF CloseStops, Owner!Next, Owner!Stop
  <2>7. CASE Dispose(i)
    <3>1. Believers = {}
      BY <2>4, <2>7 DEF Dispose, Believers
    <3>2. active # "on" /\ driver' = Nobody /\ active' = "off"
      BY <1>1, <2>7, <3>1 DEF Dispose, Streaming
    <3> QED  BY <2>2, <2>5, <3>1, <3>2 DEF Owner!Next, Owner!Release
  <2> QED  BY <1>3, <2>6, <2>7
<1>4. CASE CloseEnds(i)
  <2>1. Believers' = Believers
    BY <1>1, <1>4 DEF CloseEnds, Goes, TypeOK, Believers
  <2> QED  BY <1>4, <2>1, OwnerStays DEF CloseEnds, nativeVars
<1> QED  BY <1>2, <1>3, <1>4

\* The steps of an open.
LEMMA OwnerOpens ==
  ASSUME SInv, NEW i \in Instances,
         \/ OpenDevice(i) \/ OpenDeviceFails(i) \/ FindsNoDriver(i)
         \/ InitializeFails(i) \/ Construct(i) \/ OpenEnds(i)
  PROVE  [Owner!Next]_Owner!vars
<1>1. TypeOK
  BY DEF SInv
<1>2. Believers' = Believers
  BY <1>1 DEF OpenDevice, OpenDeviceFails, FindsNoDriver, InitializeFails,
     Construct, OpenEnds, Takes, Goes, TypeOK, Believers, flagVars
<1>3. CASE \/ OpenDevice(i) \/ OpenDeviceFails(i) \/ FindsNoDriver(i)
           \/ OpenEnds(i)
  BY <1>2, <1>3, OwnerStays
     DEF OpenDevice, OpenDeviceFails, FindsNoDriver, OpenEnds, nativeVars
<1>4. ASSUME pc[i] = "construct"
      PROVE  driver = Nobody /\ active = "off" /\ Believers = {}
  BY <1>4, NobodyStreams DEF SInv, Driving
<1>5. CASE InitializeFails(i)
  <2>1. driver' = driver /\ active' = active
    BY <1>4, <1>5 DEF InitializeFails
  <2> QED  BY <1>2, <2>1, OwnerStays
<1>6. CASE Construct(i)
  BY <1>2, <1>4, <1>6 DEF Construct, Owner!Next, Owner!Acquire
<1> QED  BY <1>3, <1>5, <1>6

LEMMA OwnerStep ==
  ASSUME SInv, SInv', [Next]_vars PROVE [Owner!Next]_Owner!vars
<1>1. CASE UNCHANGED vars
  <2>1. Believers' = Believers
    BY <1>1 DEF Believers, vars, flagVars
  <2> QED  BY <1>1, <2>1, OwnerStays DEF vars, nativeVars
<1>2. CASE MainThread \/ Client
  <2>1. UNCHANGED <<pc, isStreaming, driver, active>>
    BY <1>2 DEF MainThread, Client, Open, Granted, Denied, Send, nativeVars,
                flagVars
  <2>2. Believers' = Believers
    BY <2>1 DEF Believers
  <2> QED  BY <2>1, <2>2, OwnerStays
<1>3. CASE \E i \in Instances : Handler(i)
  BY <1>3, OwnerOpens, OwnerCloses, OwnerStreams DEF Handler
<1> QED  BY <1>1, <1>2, <1>3 DEF Next

\* The sessions implement DriverOwner: the native driver goes from nobody to an
\* instance and back; it streams exactly when its owner believes so, unless a
\* start has failed and left _streamActive set; and it is disposed of stopped.
THEOREM OwnedDriver == ASSUME PoliteClient PROVE Spec => DriverSpec
<1>1. Init => Owner!Init
  <2>1. Init => Believers = {}
    BY DEF Init, Believers
  <2> QED  BY <2>1 DEF Init, Owner!Init
<1>2. SInv /\ SInv' /\ [Next]_vars => [Owner!Next]_Owner!vars
  BY OwnerStep
<1> QED  BY <1>1, <1>2, Invariant, PTL DEF Spec, DriverSpec, Owner!Spec

=============================================================================
