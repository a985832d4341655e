-------------------------- MODULE UsbTvDriverProofs --------------------------
(***************************************************************************)
(* The safety properties of UsbTvDriver, for every pool size, every number *)
(* of sessions and every queue capacity, with and without failing          *)
(* setInterface calls.  Type correctness needs no assumption on the        *)
(* client; the ownership of frames needs a client that stops its renderer  *)
(* before a stop (ClientQuiesces): clearFrameLock knows a frame by its     *)
(* index only, so a frame of the pool before the restart would unlock a    *)
(* frame of the pool after it.                                             *)
(***************************************************************************)
EXTENDS UsbTvDriver, TLAPS

(***************************************************************************)
(* The inductive invariant, first the part that every client keeps: where  *)
(* the control thread is says what exists and which threads run.           *)
(***************************************************************************)

\* Without a pool nothing of a stream exists.
QuietWithoutPool ==
  ~pool =>
    /\ upc = "none" /\ ppc = "none" /\ queue = <<>> /\ ~nullQueued
    /\ pframe = Null /\ ~urbRunning /\ ~procRunning
    /\ input \notin Frames

\* What each place of the control thread says of the rest.
Phases ==
  /\ streamActive => ctl \in {"idle", "start", "allocated", "stop"}
  /\ ctl \in {"idle", "start", "disposed", "crashed"} /\ ~streamActive => ~pool
  /\ ctl = "idle" /\ pool => isStreaming
  /\ ctl = "allocated" => pool /\ streamActive
  /\ urbMutex <=> ctl = "joinUrb"
  /\ ctl \in {"stopProc", "joinProc", "drain", "free"} =>
       upc = "none" /\ ~urbRunning
  /\ ctl \in {"drain", "free"} => ppc = "none" /\ ~procRunning
  /\ ctl = "free" => queue = <<>> /\ ~nullQueued /\ input = Null

\* A thread runs on until the control thread has come to stop it.
Threads ==
  /\ upc \in {"none", "exit"} => ~urbRunning
  /\ upc # "none" /\ ~urbRunning => ctl = "joinUrb"
  /\ ppc \in {"none", "exit"} => ~procRunning
  /\ ppc # "none" /\ ~procRunning => ctl = "joinProc"
  /\ pframe # Null <=> ppc = "frame"
  /\ nullQueued => ctl \in {"joinProc", "drain"}

\* A stream has an input frame until the drain.
InputIsFrame == pool /\ ctl # "free" => input \in Frames

Control == QuietWithoutPool /\ Phases /\ Threads /\ InputIsFrame

(***************************************************************************)
(* Then the part that needs a client which stops its renderer in time.     *)
(***************************************************************************)

\* While a stream is set up or taken down the client has no frame, and gets
\* none: either it stopped its renderer, or there is no frame under way.
ClientAway ==
  /\ ~pool => held = {}
  /\ ctl \in StopStates \cup {"allocated"} =>
       /\ held = {}
       /\ rendering => queue = <<>> /\ pframe = Null /\ upc = "none"
  /\ ctl = "allocated" => queue = <<>> /\ pframe = Null /\ upc = "none"

Holders == Writer \cup QueuedFrames \cup Processing \cup Rendered

HolderSets ==
  /\ QueuedOnce
  /\ Writer \cap (QueuedFrames \cup Processing \cup Rendered) = {}
  /\ QueuedFrames \cap (Processing \cup Rendered) = {}
  /\ Processing \cap Rendered = {}

HeldIsLocked == \A f \in Holders : lock[f] = TRUE
LockedIsHeld == useCallback => \A f \in Frames : lock[f] = TRUE => f \in Holders

Owned ==
  /\ pool /\ streamActive => HolderSets /\ HeldIsLocked /\ LockedIsHeld
  /\ \A h \in held : h[1] = session

IInv == TypeOK /\ Control /\ ClientAway /\ Owned

-----------------------------------------------------------------------------
(***************************************************************************)
(* The process queue.                                                      *)
(***************************************************************************)

Elements(q) == {q[i] : i \in DOMAIN q}

LEMMA AppendElements ==
  ASSUME NEW q \in Seq(Frames), NEW f \in Frames
  PROVE  Elements(Append(q, f)) = Elements(q) \cup {f}
<1>1. Elements(Append(q, f)) \subseteq Elements(q) \cup {f}
  BY DEF Elements
<1>2. Elements(q) \subseteq Elements(Append(q, f))
  BY DEF Elements
<1>3. f \in Elements(Append(q, f))
  <2>1. Append(q, f)[Len(q) + 1] = f /\ Len(q) + 1 \in DOMAIN Append(q, f)
    OBVIOUS
  <2> QED BY <2>1 DEF Elements
<1> QED BY <1>1, <1>2, <1>3

LEMMA TailElements ==
  ASSUME NEW q \in Seq(Frames), q # <<>>
  PROVE  Elements(q) = Elements(Tail(q)) \cup {Head(q)}
<1>1. Elements(Tail(q)) \subseteq Elements(q)
  BY DEF Elements
<1>2. Head(q) \in Elements(q)
  <2>1. Head(q) = q[1] /\ 1 \in DOMAIN q
    OBVIOUS
  <2> QED BY <2>1 DEF Elements
<1>3. ASSUME NEW i \in DOMAIN q, i # 1
      PROVE  q[i] \in Elements(Tail(q))
  <2>1. i - 1 \in DOMAIN Tail(q) /\ Tail(q)[i - 1] = q[i]
    BY <1>3
  <2> QED BY <2>1 DEF Elements
<1>4. Elements(q) \subseteq Elements(Tail(q)) \cup {Head(q)}
  BY <1>3 DEF Elements
<1> QED BY <1>1, <1>2, <1>4

LEMMA TailOnce ==
  ASSUME NEW q \in Seq(Frames), q # <<>>,
         \A i, j \in DOMAIN q : q[i] = q[j] => i = j
  PROVE  /\ Head(q) \notin Elements(Tail(q))
         /\ \A i, j \in DOMAIN Tail(q) : Tail(q)[i] = Tail(q)[j] => i = j
<1>1. ASSUME NEW i \in DOMAIN Tail(q)
      PROVE  i + 1 \in DOMAIN q /\ Tail(q)[i] = q[i + 1] /\ i \in Nat /\ i > 0
  BY <1>1
<1>2. 1 \in DOMAIN q /\ Head(q) = q[1]
  OBVIOUS
<1>3. Head(q) \notin Elements(Tail(q))
  BY <1>1, <1>2 DEF Elements
<1>4. \A i, j \in DOMAIN Tail(q) : Tail(q)[i] = Tail(q)[j] => i = j
  BY <1>1
<1> QED BY <1>3, <1>4

LEMMA AppendOnce ==
  ASSUME NEW q \in Seq(Frames), NEW f \in Frames, f \notin Elements(q),
         \A i, j \in DOMAIN q : q[i] = q[j] => i = j
  PROVE  \A i, j \in DOMAIN Append(q, f) :
           Append(q, f)[i] = Append(q, f)[j] => i = j
BY DEF Elements

-----------------------------------------------------------------------------
(***************************************************************************)
(* Type correctness.                                                       *)
(***************************************************************************)

LEMMA TypeInit == Init => TypeOK
BY DriverAssumption, NullAssumption
DEF Init, TypeOK, CtlStates, UrbStates, ProcStates, Frames

LEMMA CtlPlaces ==
  /\ {"idle", "disposed", "crashed", "start", "allocated"} \subseteq CtlStates
  /\ {"stop", "stopUrb", "joinUrb", "stopProc", "joinProc", "drain", "free"}
       \subseteq CtlStates
BY DEF CtlStates, StartStates, StopStates

LEMMA FrameIndices ==
  /\ 0 \in Frames
  /\ \A i \in Frames : (i + 1) % PoolSize \in Frames
BY DriverAssumption DEF Frames

LEMMA TypeStep == TypeOK /\ Control /\ [Next]_vars => TypeOK'
<1> SUFFICES ASSUME TypeOK, Control, [Next]_vars PROVE TypeOK'
  OBVIOUS
<1> USE DriverAssumption, NullAssumption
    DEF TypeOK, UrbStates, ProcStates, ctlVars, activeVars, poolVars,
        queueVars, urbVars, procVars, clientVars, urbFrame, procFrame
<1>1. CASE StartStreaming
  BY <1>1, CtlPlaces DEF StartStreaming
<1>2. CASE StopStreaming
  BY <1>2, CtlPlaces DEF StopStreaming
<1>3. CASE RestartStream
  BY <1>3, CtlPlaces DEF RestartStream
<1>4. CASE CloseDevice
  <2>1. isStreaming' \in BOOLEAN
    BY <1>4, Zenon DEF CloseDevice
  <2> QED BY <1>4, <2>1, CtlPlaces DEF CloseDevice
<1>5. CASE SetFrameListener
  BY <1>5 DEF SetFrameListener
<1>6. CASE StartAlreadyActive
  BY <1>6, CtlPlaces DEF StartAlreadyActive
<1>7. CASE StartInterfaceFails
  <2>1. isStreaming' \in BOOLEAN
    BY <1>7, Zenon DEF StartInterfaceFails
  <2> QED BY <1>7, <2>1, CtlPlaces DEF StartInterfaceFails
<1>8. CASE StartRegistersFail
  <2>1. isStreaming' \in BOOLEAN
    BY <1>8, Zenon DEF StartRegistersFail
  <2> QED BY <1>8, <2>1, CtlPlaces DEF StartRegistersFail
<1>9. CASE StartAllocates
  BY <1>9, CtlPlaces, FrameIndices DEF StartAllocates
<1>10. CASE StartFails
  BY <1>10, CtlPlaces DEF StartFails
<1>11. CASE StartCompletes
  BY <1>11, CtlPlaces DEF StartCompletes
<1>12. CASE StopClearsActive
  <2>1. streamActive' \in BOOLEAN /\ halfStarted' \in BOOLEAN
    BY <1>12, Zenon DEF StopClearsActive
  <2> QED BY <1>12, <2>1, CtlPlaces DEF StopClearsActive
<1>13. CASE StopWithoutUrbThread
  BY <1>13, CtlPlaces DEF StopWithoutUrbThread
<1>14. CASE StopLocksUrbMutex
  <2>1. urbRunning' \in BOOLEAN
    BY <1>14, Zenon DEF StopLocksUrbMutex
  <2> QED BY <1>14, <2>1, CtlPlaces DEF StopLocksUrbMutex
<1>15. CASE StopJoinsUrbThread
  <2>1. urbMutex' \in BOOLEAN
    BY <1>15, Zenon DEF StopJoinsUrbThread
  <2> QED BY <1>15, <2>1, CtlPlaces DEF StopJoinsUrbThread
<1>16. CASE StopProcessThread
  <2>1. procRunning' \in BOOLEAN /\ nullQueued' \in BOOLEAN
    BY <1>16, Zenon DEF StopProcessThread
  <2> QED BY <1>16, <2>1, CtlPlaces DEF StopProcessThread
<1>17. CASE StopWithoutProcessThread
  BY <1>17, CtlPlaces DEF StopWithoutProcessThread
<1>18. CASE StopJoinsProcessThread
  BY <1>18, CtlPlaces DEF StopJoinsProcessThread
<1>19. CASE StopDrains
  <2>1. nullQueued' \in BOOLEAN
    BY <1>19, Zenon DEF StopDrains
  <2> QED BY <1>19, <2>1, CtlPlaces DEF StopDrains
<1>20. CASE StopDrainsWild
  <2>1. nullQueued' \in BOOLEAN
    BY <1>20, Zenon DEF StopDrainsWild
  <2> QED BY <1>20, <2>1, CtlPlaces DEF StopDrainsWild
<1>21. CASE StopFrees
  BY <1>21, CtlPlaces DEF StopFrees
<1>22. CASE UrbTest
  BY <1>22 DEF UrbTest
<1>23. CASE UrbReaps
  BY <1>23 DEF UrbReaps
<1>24. CASE UrbReapFails
  BY <1>24 DEF UrbReapFails
<1>25. CASE UrbField
  <2>1. input \in Frames
    BY <1>25 DEF UrbField, Control, QuietWithoutPool, Phases, InputIsFrame
  <2> QED BY <1>25, <2>1, FrameIndices DEF UrbField
<1>26. CASE UrbFetchTakes
  BY <1>26 DEF UrbFetchTakes
<1>27. CASE UrbFetchSkips
  <2>1. fetchIdx' \in Frames
    BY <1>27, FrameIndices DEF UrbFetchSkips
  <2> QED BY <1>27, <2>1 DEF UrbFetchSkips
<1>28. CASE UrbFetchGivesUp
  BY <1>28, FrameIndices DEF UrbFetchGivesUp
<1>29. CASE UrbPacketsDone
  BY <1>29 DEF UrbPacketsDone
<1>30. CASE UrbResubmits
  BY <1>30 DEF UrbResubmits
<1>31. CASE ProcTest
  BY <1>31 DEF ProcTest
<1>32. CASE ProcDequeues
  BY <1>32 DEF ProcDequeues
<1>33. CASE ProcDequeuesNull
  <2>1. nullQueued' \in BOOLEAN
    BY <1>33, Zenon DEF ProcDequeuesNull
  <2> QED BY <1>33, <2>1, CtlPlaces DEF ProcDequeuesNull
<1>34. CASE ProcDeliversKept
  <2>1. pframe \in Frames
    BY <1>34 DEF ProcDeliversKept, Control, Threads
  <2>2. held' \in SUBSET ((0..session') \X Frames)
    BY <1>34, <2>1 DEF ProcDeliversKept
  <2> QED BY <1>34, <2>2 DEF ProcDeliversKept
<1>35. CASE ProcDeliversReturned
  <2>1. held' \in SUBSET ((0..session') \X Frames)
    BY <1>35 DEF ProcDeliversReturned
  <2>2. lock' \in [Frames -> BOOLEAN]
    BY <1>35 DEF ProcDeliversReturned
  <2> QED BY <1>35, <2>1, <2>2 DEF ProcDeliversReturned
<1>36. CASE ProcDrops
  BY <1>36 DEF ProcDrops
<1>37. CASE \E f \in held : ClientReturns(f)
  <2> PICK f \in held : ClientReturns(f)
    BY <1>37
  <2>1. lock' \in [Frames -> BOOLEAN]
    BY DEF ClientReturns
  <2> QED BY <2>1 DEF ClientReturns
<1>38. CASE ClientStartsRendering \/ ClientStopsRendering
  <2>1. rendering' \in BOOLEAN
    BY <1>38, Zenon DEF ClientStartsRendering, ClientStopsRendering
  <2> QED BY <1>38, <2>1 DEF ClientStartsRendering, ClientStopsRendering
<1>39. CASE UNCHANGED vars
  BY <1>39 DEF vars
<1> QED
  BY <1>1, <1>2, <1>3, <1>4, <1>5, <1>6, <1>7, <1>8, <1>9, <1>10, <1>11,
     <1>12, <1>13, <1>14, <1>15, <1>16, <1>17, <1>18, <1>19, <1>20, <1>21,
     <1>22, <1>23, <1>24, <1>25, <1>26, <1>27, <1>28, <1>29, <1>30, <1>31,
     <1>32, <1>33, <1>34, <1>35, <1>36, <1>37, <1>38, <1>39
  DEF Next, JavaMessage, Start, Stop, UrbThread, ProcThread, Client

-----------------------------------------------------------------------------
(***************************************************************************)
(* The control thread and its threads, with any client.                    *)
(***************************************************************************)

LEMMA ControlInit == Init => Control
BY NullAssumption
DEF Init, Control, QuietWithoutPool, Phases, Threads, InputIsFrame

LEMMA ControlStep == TypeOK /\ Control /\ [Next]_vars => Control'
<1> SUFFICES ASSUME TypeOK, Control, [Next]_vars PROVE Control'
  OBVIOUS
<1> USE NullAssumption, FrameIndices
    DEF Control, QuietWithoutPool, Phases, Threads, InputIsFrame, ctlVars,
        activeVars, poolVars, queueVars, urbVars, procVars, clientVars, urbFrame, procFrame
<1>1. CASE StartStreaming
  BY <1>1 DEF StartStreaming
<1>2. CASE StopStreaming
  BY <1>2 DEF StopStreaming
<1>3. CASE RestartStream
  BY <1>3 DEF RestartStream
<1>4. CASE CloseDevice
  BY <1>4 DEF CloseDevice
<1>5. CASE SetFrameListener
  BY <1>5 DEF SetFrameListener
<1>6. CASE StartAlreadyActive
  BY <1>6 DEF StartAlreadyActive
<1>7. CASE StartInterfaceFails
  BY <1>7 DEF StartInterfaceFails
<1>8. CASE StartRegistersFail
  BY <1>8 DEF StartRegistersFail
<1>9. CASE StartAllocates
  BY <1>9 DEF StartAllocates
<1>10. CASE StartFails
  BY <1>10 DEF StartFails
<1>11. CASE StartCompletes
  BY <1>11 DEF StartCompletes
<1>12. CASE StopClearsActive
  BY <1>12 DEF StopClearsActive
<1>13. CASE StopWithoutUrbThread
  BY <1>13 DEF StopWithoutUrbThread
<1>14. CASE StopLocksUrbMutex
  BY <1>14 DEF StopLocksUrbMutex
<1>15. CASE StopJoinsUrbThread
  BY <1>15 DEF StopJoinsUrbThread
<1>16. CASE StopProcessThread
  BY <1>16 DEF StopProcessThread
<1>17. CASE StopWithoutProcessThread
  BY <1>17 DEF StopWithoutProcessThread
<1>18. CASE StopJoinsProcessThread
  BY <1>18 DEF StopJoinsProcessThread
<1>19. CASE StopDrains
  BY <1>19 DEF StopDrains
<1>20. CASE StopDrainsWild
  BY <1>20 DEF StopDrainsWild
<1>21. CASE StopFrees
  BY <1>21 DEF StopFrees
<1>22. CASE UrbTest
  BY <1>22 DEF UrbTest
<1>23. CASE UrbReaps
  BY <1>23 DEF UrbReaps
<1>24. CASE UrbReapFails
  BY <1>24 DEF UrbReapFails
<1>25. CASE UrbField
  BY <1>25 DEF UrbField
<1>26. CASE UrbFetchTakes
  BY <1>26 DEF UrbFetchTakes, TypeOK
<1>27. CASE UrbFetchSkips
  BY <1>27 DEF UrbFetchSkips
<1>28. CASE UrbFetchGivesUp
  BY <1>28 DEF UrbFetchGivesUp
<1>29. CASE UrbPacketsDone
  BY <1>29 DEF UrbPacketsDone
<1>30. CASE UrbResubmits
  BY <1>30 DEF UrbResubmits
<1>31. CASE ProcTest
  BY <1>31 DEF ProcTest
<1>32. CASE ProcDequeues
  <2>1. pframe' \in Frames
    BY <1>32 DEF ProcDequeues, TypeOK
  <2>2. pool /\ ctl # "free"
    BY <1>32 DEF ProcDequeues
  <2> QED BY <1>32, <2>1, <2>2 DEF ProcDequeues
<1>33. CASE ProcDequeuesNull
  BY <1>33 DEF ProcDequeuesNull
<1>34. CASE ProcDeliversKept
  BY <1>34 DEF ProcDeliversKept
<1>35. CASE ProcDeliversReturned
  BY <1>35 DEF ProcDeliversReturned
<1>36. CASE ProcDrops
  BY <1>36 DEF ProcDrops
<1>37. CASE \E f \in held : ClientReturns(f)
  BY <1>37 DEF ClientReturns
<1>38. CASE ClientStartsRendering \/ ClientStopsRendering
  BY <1>38 DEF ClientStartsRendering, ClientStopsRendering
<1>39. CASE UNCHANGED vars
  BY <1>39 DEF vars
<1> QED
  BY <1>1, <1>2, <1>3, <1>4, <1>5, <1>6, <1>7, <1>8, <1>9, <1>10, <1>11,
     <1>12, <1>13, <1>14, <1>15, <1>16, <1>17, <1>18, <1>19, <1>20, <1>21,
     <1>22, <1>23, <1>24, <1>25, <1>26, <1>27, <1>28, <1>29, <1>30, <1>31,
     <1>32, <1>33, <1>34, <1>35, <1>36, <1>37, <1>38, <1>39
  DEF Next, JavaMessage, Start, Stop, UrbThread, ProcThread, Client

\* Every variable keeps its type, and the index of fetchFrameFromPool stays
\* inside the pool, whatever the client does.
THEOREM TypeCorrect == Spec => []TypeOK
<1>1. Spec => [](TypeOK /\ Control)
  BY TypeInit, TypeStep, ControlInit, ControlStep, PTL DEF Spec
<1> QED BY <1>1, PTL

\* stopStreaming leaves nothing behind, whatever the client does: no thread,
\* no pool, no frame and no null frame in the queue, no locked mutex.
THEOREM StopsClean == Spec => []CleanStop
<1>1. Spec => [](TypeOK /\ Control)
  BY TypeInit, TypeStep, ControlInit, ControlStep, PTL DEF Spec
<1>2. TypeOK /\ Control => CleanStop
  BY DEF Control, QuietWithoutPool, Phases, CleanStop
<1> QED BY <1>1, <1>2, PTL

-----------------------------------------------------------------------------
(***************************************************************************)
(* What UsbTv believes of the stream, with any client.  mIsStreaming is    *)
(* written by the messages, _streamActive and the flags of the threads by  *)
(* the driver: the two agree whenever the control thread is idle, and a    *)
(* start finds a driver that is not active, unless a start that failed at  *)
(* its first setInterface has left it so.                                  *)
(***************************************************************************)

StartsFromRest ==
  /\ ctl = "start" => ~streamActive \/ halfStarted
  /\ ctl = "idle" /\ streamActive => isStreaming \/ halfStarted
  /\ ctl = "allocated" => procRunning

Streams == ctl = "idle" /\ isStreaming /\ ~halfStarted =>
             streamActive /\ pool /\ urbRunning /\ procRunning

Agrees == StartsFromRest /\ Streams

LEMMA AgreesStep == TypeOK /\ Control /\ Agrees /\ [Next]_vars => Agrees'
<1> SUFFICES ASSUME TypeOK, Control, Agrees, [Next]_vars PROVE Agrees'
  OBVIOUS
<1> USE DEF Agrees, StartsFromRest, Streams, ctlVars, activeVars, poolVars,
            queueVars, urbVars, procVars, clientVars, urbFrame, procFrame
<1>1. CASE JavaMessage
  BY <1>1
  DEF JavaMessage, StartStreaming, StopStreaming, RestartStream, CloseDevice,
      SetFrameListener
<1>2. CASE StartAlreadyActive \/ StartInterfaceFails
  BY <1>2 DEF StartAlreadyActive, StartInterfaceFails
<1>3. CASE StartRegistersFail \/ StartAllocates \/ StartFails
  BY <1>3 DEF StartRegistersFail, StartAllocates, StartFails
<1>4. CASE StartCompletes
  <2>1. streamActive /\ pool /\ procRunning
    BY <1>4 DEF StartCompletes, Control, Phases
  <2> QED BY <1>4, <2>1 DEF StartCompletes
<1>5. CASE StopFrees
  <2>1. ~streamActive /\ ctl' \in {"idle", "start", "disposed"}
    BY <1>5 DEF StopFrees, Control, Phases, TypeOK
  <2>2. ctl' = "idle" => ~isStreaming'
    BY <1>5 DEF StopFrees
  <2> QED BY <1>5, <2>1, <2>2 DEF StopFrees
<1>6. CASE Stop /\ ~StopFrees
  <2>1. ctl' \notin {"start", "idle", "allocated"}
    BY <1>6
    DEF Stop, StopClearsActive, StopWithoutUrbThread, StopLocksUrbMutex,
        StopJoinsUrbThread, StopProcessThread, StopWithoutProcessThread,
        StopJoinsProcessThread, StopDrains, StopDrainsWild
  <2> QED BY <2>1
<1>7. CASE UrbThread
  BY <1>7
  DEF UrbThread, UrbTest, UrbReaps, UrbReapFails, UrbField, UrbFetchTakes,
      UrbFetchSkips, UrbFetchGivesUp, UrbPacketsDone, UrbResubmits
<1>8. CASE ProcThread
  BY <1>8
  DEF ProcThread, ProcTest, ProcDequeues, ProcDequeuesNull, ProcDeliversKept,
      ProcDeliversReturned, ProcDrops
<1>9. CASE Client
  BY <1>9 DEF Client, ClientReturns, ClientStartsRendering, ClientStopsRendering
<1>10. CASE UNCHANGED vars
  BY <1>10 DEF vars
<1> QED
  BY <1>1, <1>2, <1>3, <1>4, <1>5, <1>6, <1>7, <1>8, <1>9, <1>10
  DEF Next, Start

\* When UsbTv says that it is streaming, and no message is being handled, there
\* are an active stream, its pool and both of its threads, with any client,
\* unless the last start since a stop failed at its first setInterface(0, 0).
THEOREM StreamsAreReal == Spec => []StreamingIsReal
<1>1. Init => Agrees
  BY DEF Init, Agrees, StartsFromRest, Streams
<1>2. Spec => [](TypeOK /\ Control /\ Agrees)
  BY <1>1, TypeInit, TypeStep, ControlInit, ControlStep, AgreesStep, PTL
  DEF Spec
<1>3. TypeOK /\ Control /\ Agrees => StreamingIsReal
  BY DEF Control, Threads, Agrees, Streams, StreamingIsReal
<1> QED BY <1>2, <1>3, PTL

-----------------------------------------------------------------------------
(***************************************************************************)
(* A client that stops its renderer before a stop has no frame while a     *)
(* stream is set up or taken down.                                         *)
(***************************************************************************)

LEMMA AwayStep ==
  ASSUME ClientQuiesces
  PROVE  TypeOK /\ Control /\ ClientAway /\ [Next]_vars => ClientAway'
<1> SUFFICES ASSUME TypeOK, Control, ClientAway, [Next]_vars PROVE ClientAway'
  OBVIOUS
<1> USE DEF ClientAway, ClientReady, StopStates, ctlVars, activeVars, poolVars,
            queueVars, urbVars, procVars, clientVars, urbFrame, procFrame
<1>1. CASE StartStreaming
  BY <1>1 DEF StartStreaming
<1>2. CASE StopStreaming
  BY <1>2 DEF StopStreaming
<1>3. CASE RestartStream
  BY <1>3 DEF RestartStream
<1>4. CASE CloseDevice
  BY <1>4 DEF CloseDevice, Control, Phases
<1>5. CASE SetFrameListener
  BY <1>5 DEF SetFrameListener
<1>6. CASE StartAlreadyActive
  BY <1>6 DEF StartAlreadyActive
<1>7. CASE StartInterfaceFails
  BY <1>7 DEF StartInterfaceFails
<1>8. CASE StartRegistersFail
  BY <1>8 DEF StartRegistersFail
<1>9. CASE StartAllocates
  BY <1>9 DEF StartAllocates, Control, QuietWithoutPool, Phases
<1>10. CASE StartFails
  BY <1>10 DEF StartFails
<1>11. CASE StartCompletes
  BY <1>11 DEF StartCompletes
<1>12. CASE StopClearsActive
  BY <1>12 DEF StopClearsActive
<1>13. CASE StopWithoutUrbThread
  BY <1>13 DEF StopWithoutUrbThread
<1>14. CASE StopLocksUrbMutex
  BY <1>14 DEF StopLocksUrbMutex
<1>15. CASE StopJoinsUrbThread
  BY <1>15 DEF StopJoinsUrbThread
<1>16. CASE StopProcessThread
  BY <1>16 DEF StopProcessThread
<1>17. CASE StopWithoutProcessThread
  BY <1>17 DEF StopWithoutProcessThread
<1>18. CASE StopJoinsProcessThread
  BY <1>18 DEF StopJoinsProcessThread
<1>19. CASE StopDrains
  BY <1>19 DEF StopDrains
<1>20. CASE StopDrainsWild
  BY <1>20 DEF StopDrainsWild
<1>21. CASE StopFrees
  BY <1>21 DEF StopFrees, TypeOK
<1>22. CASE UrbTest
  BY <1>22 DEF UrbTest
<1>23. CASE UrbReaps
  BY <1>23 DEF UrbReaps
<1>24. CASE UrbReapFails
  BY <1>24 DEF UrbReapFails
<1>25. CASE UrbField
  BY <1>25 DEF UrbField, Control, QuietWithoutPool
<1>26. CASE UrbFetchTakes
  BY <1>26 DEF UrbFetchTakes
<1>27. CASE UrbFetchSkips
  BY <1>27 DEF UrbFetchSkips
<1>28. CASE UrbFetchGivesUp
  BY <1>28 DEF UrbFetchGivesUp
<1>29. CASE UrbPacketsDone
  BY <1>29 DEF UrbPacketsDone
<1>30. CASE UrbResubmits
  BY <1>30 DEF UrbResubmits
<1>31. CASE ProcTest
  BY <1>31 DEF ProcTest
<1>32. CASE ProcDequeues
  BY <1>32 DEF ProcDequeues, Control, Threads, QuietWithoutPool
<1>33. CASE ProcDequeuesNull
  BY <1>33 DEF ProcDequeuesNull
<1>34. CASE ProcDeliversKept
  BY <1>34 DEF ProcDeliversKept, Control, Threads, QuietWithoutPool, Phases
<1>35. CASE ProcDeliversReturned
  BY <1>35 DEF ProcDeliversReturned
<1>36. CASE ProcDrops
  BY <1>36 DEF ProcDrops
<1>37. CASE \E f \in held : ClientReturns(f)
  BY <1>37 DEF ClientReturns
<1>38. CASE ClientStartsRendering \/ ClientStopsRendering
  BY <1>38 DEF ClientStartsRendering, ClientStopsRendering
<1>39. CASE UNCHANGED vars
  BY <1>39 DEF vars
<1> QED
  BY <1>1, <1>2, <1>3, <1>4, <1>5, <1>6, <1>7, <1>8, <1>9, <1>10, <1>11,
     <1>12, <1>13, <1>14, <1>15, <1>16, <1>17, <1>18, <1>19, <1>20, <1>21,
     <1>22, <1>23, <1>24, <1>25, <1>26, <1>27, <1>28, <1>29, <1>30, <1>31,
     <1>32, <1>33, <1>34, <1>35, <1>36, <1>37, <1>38, <1>39
  DEF Next, JavaMessage, Start, Stop, UrbThread, ProcThread, Client

-----------------------------------------------------------------------------
(***************************************************************************)
(* The ownership of frames.  Most steps move no frame: they keep the four  *)
(* sets of holders and the locks, or come when the stream is not active.   *)
(***************************************************************************)

Sharing ==
  HolderSets /\ HeldIsLocked /\ LockedIsHeld

LEMMA NoFrameMoves ==
  ASSUME Sharing,
         UNCHANGED <<queue, input, pframe, held, lock, useCallback>>,
         (upc = "fetch") <=> (upc' = "fetch")
  PROVE  Sharing'
BY DEF Sharing, HolderSets, HeldIsLocked, LockedIsHeld, Holders, QueuedOnce,
       QueuedFrames, Writer, Processing, Rendered

LEMMA OwnedInit == Init => ClientAway /\ Owned
BY DEF Init, ClientAway, Owned, StopStates

LEMMA OwnedStep ==
  ASSUME ClientQuiesces
  PROVE  IInv /\ [Next]_vars => Owned'
<1> SUFFICES ASSUME IInv, [Next]_vars PROVE Owned'
  OBVIOUS
<1> USE FrameIndices, NullAssumption
    DEF IInv, ctlVars, activeVars, poolVars, queueVars, urbVars, procVars,
        clientVars, urbFrame, procFrame
<1> DEFINE Active == pool /\ streamActive
<1>a. Active => Sharing
  BY DEF Owned, Sharing
<1>b. \A h \in held : h[1] = session
  BY DEF Owned
<1>c. SUFFICES ASSUME TRUE
      PROVE  /\ Active' => Sharing'
             /\ \A h \in held' : h[1] = session'
  BY DEF Owned, Sharing
<1>1. CASE StartStreaming
  BY <1>1, <1>a, <1>b, NoFrameMoves DEF StartStreaming
<1>2. CASE StopStreaming
  BY <1>2, <1>a, <1>b, NoFrameMoves DEF StopStreaming
<1>3. CASE RestartStream
  BY <1>3, <1>a, <1>b, NoFrameMoves DEF RestartStream
<1>4. CASE CloseDevice
  BY <1>4, <1>a, <1>b, NoFrameMoves DEF CloseDevice
<1>5. CASE SetFrameListener
  BY <1>5, <1>b DEF SetFrameListener, Control, Phases
<1>6. CASE StartAlreadyActive
  BY <1>6, <1>a, <1>b, NoFrameMoves DEF StartAlreadyActive
<1>7. CASE StartInterfaceFails
  BY <1>7, <1>b DEF StartInterfaceFails, Control, Phases
<1>8. CASE StartRegistersFail
  BY <1>8, <1>a, <1>b, NoFrameMoves DEF StartRegistersFail
<1>9. CASE StartAllocates
  <2>1. held = {} /\ queue = <<>> /\ pframe = Null /\ upc = "none"
    BY <1>9 DEF StartAllocates, Control, QuietWithoutPool, ClientAway
  <2>2. /\ QueuedFrames' = {} /\ Processing' = {} /\ Rendered' = {}
        /\ Writer' = {0} /\ QueuedOnce'
    BY <1>9, <2>1
    DEF StartAllocates, QueuedFrames, Processing, Rendered, Writer, QueuedOnce
  <2>3. \A f \in Frames : lock'[f] = TRUE <=> f = 0
    BY <1>9 DEF StartAllocates
  <2>4. Sharing'
    BY <2>2, <2>3
    DEF Sharing, HolderSets, HeldIsLocked, LockedIsHeld, Holders
  <2> QED BY <1>9, <2>1, <2>4 DEF StartAllocates
<1>10. CASE StartFails
  BY <1>10, <1>a, <1>b, NoFrameMoves DEF StartFails
<1>11. CASE StartCompletes
  BY <1>11, <1>a, <1>b, NoFrameMoves DEF StartCompletes
<1>12. CASE StopClearsActive
  BY <1>12, <1>b DEF StopClearsActive
<1>13. CASE StopWithoutUrbThread
  BY <1>13, <1>b DEF StopWithoutUrbThread, Control, Phases
<1>14. CASE StopLocksUrbMutex
  BY <1>14, <1>b DEF StopLocksUrbMutex, Control, Phases
<1>15. CASE StopJoinsUrbThread
  BY <1>15, <1>b DEF StopJoinsUrbThread, Control, Phases
<1>16. CASE StopProcessThread
  BY <1>16, <1>b DEF StopProcessThread, Control, Phases
<1>17. CASE StopWithoutProcessThread
  BY <1>17, <1>b DEF StopWithoutProcessThread, Control, Phases
<1>18. CASE StopJoinsProcessThread
  BY <1>18, <1>b DEF StopJoinsProcessThread, Control, Phases
<1>19. CASE StopDrains
  BY <1>19, <1>b DEF StopDrains, Control, Phases
<1>20. CASE StopDrainsWild
  BY <1>20, <1>b DEF StopDrainsWild, Control, Phases
<1>21. CASE StopFrees
  BY <1>21, <1>b DEF StopFrees, Control, Phases
<1>22. CASE UrbTest
  BY <1>22, <1>a, <1>b, NoFrameMoves DEF UrbTest
<1>23. CASE UrbReaps
  BY <1>23, <1>a, <1>b, NoFrameMoves DEF UrbReaps
<1>24. CASE UrbReapFails
  BY <1>24, <1>a, <1>b, NoFrameMoves DEF UrbReapFails
<1>25. CASE UrbField
  <2>1. \A h \in held' : h[1] = session'
    BY <1>25, <1>b DEF UrbField
  <2> SUFFICES ASSUME Active' PROVE Sharing'
    BY <2>1
  <2>2. Sharing /\ input \in Frames /\ Writer = {input} /\ queue \in Seq(Frames)
    BY <1>25, <1>a
    DEF UrbField, Control, Phases, InputIsFrame, Writer, TypeOK
  <2>3. /\ QueuedFrames' = QueuedFrames \cup {input} /\ Writer' = {}
        /\ Processing' = Processing /\ Rendered' = Rendered
    BY <1>25, <2>2, AppendElements
    DEF UrbField, QueuedFrames, Elements, Writer, Processing, Rendered
  <2>4. QueuedOnce'
    BY <1>25, <2>2, AppendOnce
    DEF UrbField, Sharing, HolderSets, QueuedOnce, QueuedFrames, Elements
  <2>5. lock' = lock /\ useCallback' = useCallback
    BY <1>25 DEF UrbField
  <2> QED BY <2>2, <2>3, <2>4, <2>5
    DEF Sharing, HolderSets, HeldIsLocked, LockedIsHeld, Holders
<1>26. CASE UrbFetchTakes
  <2>1. \A h \in held' : h[1] = session'
    BY <1>26, <1>b DEF UrbFetchTakes
  <2> SUFFICES ASSUME Active' PROVE Sharing'
    BY <2>1
  <2>2. Sharing /\ Writer = {} /\ fetchIdx \in Frames /\ fetchIdx \notin Holders
    BY <1>26, <1>a
    DEF UrbFetchTakes, Writer, TypeOK, Sharing, HeldIsLocked
  <2>3. /\ QueuedFrames' = QueuedFrames /\ Writer' = {fetchIdx}
        /\ Processing' = Processing /\ Rendered' = Rendered
        /\ (QueuedOnce' <=> QueuedOnce)
    BY <1>26, <2>2
    DEF UrbFetchTakes, QueuedFrames, Writer, Processing, Rendered, QueuedOnce
  <2>4. \A f \in Frames : lock'[f] = TRUE <=> lock[f] = TRUE \/ f = fetchIdx
    BY <1>26, <2>2 DEF UrbFetchTakes, TypeOK
  <2>5. Holders \subseteq Frames
    BY DEF Holders, Writer, QueuedFrames, Processing, Rendered, TypeOK
  <2>6. useCallback' = useCallback
    BY <1>26 DEF UrbFetchTakes
  <2> QED BY <2>2, <2>3, <2>4, <2>5, <2>6
    DEF Sharing, HolderSets, HeldIsLocked, LockedIsHeld, Holders
<1>27. CASE UrbFetchSkips
  BY <1>27, <1>a, <1>b, NoFrameMoves DEF UrbFetchSkips
<1>28. CASE UrbFetchGivesUp
  BY <1>28, <1>b DEF UrbFetchGivesUp
<1>29. CASE UrbPacketsDone
  BY <1>29, <1>a, <1>b, NoFrameMoves DEF UrbPacketsDone
<1>30. CASE UrbResubmits
  BY <1>30, <1>a, <1>b, NoFrameMoves DEF UrbResubmits
<1>31. CASE ProcTest
  BY <1>31, <1>a, <1>b, NoFrameMoves DEF ProcTest
<1>32. CASE ProcDequeues
  <2>1. \A h \in held' : h[1] = session'
    BY <1>32, <1>b DEF ProcDequeues
  <2> SUFFICES ASSUME Active' PROVE Sharing'
    BY <2>1
  <2>2. Sharing /\ Processing = {} /\ queue \in Seq(Frames) /\ queue # <<>>
    BY <1>32, <1>a
    DEF ProcDequeues, Processing, Control, Threads, TypeOK
  <2>3. /\ QueuedFrames = QueuedFrames' \cup {Head(queue)}
        /\ Processing' = {Head(queue)} /\ Head(queue) \in Frames
        /\ Writer' = Writer /\ Rendered' = Rendered
    <3>1. Elements(queue) = Elements(Tail(queue)) \cup {Head(queue)}
      BY <2>2, TailElements
    <3>2. queue' = Tail(queue) /\ pframe' = Head(queue)
      BY <1>32 DEF ProcDequeues
    <3>3. Head(queue) \in Frames
      BY <2>2
    <3>4. Writer' = Writer /\ Rendered' = Rendered
      BY <1>32 DEF ProcDequeues, Writer, Rendered
    <3> QED BY <3>1, <3>2, <3>3, <3>4 DEF QueuedFrames, Elements, Processing
  <2>4. QueuedOnce' /\ Head(queue) \notin QueuedFrames'
    BY <1>32, <2>2, TailOnce
    DEF ProcDequeues, Sharing, HolderSets, QueuedOnce, QueuedFrames, Elements
  <2>5. lock' = lock /\ useCallback' = useCallback
    BY <1>32 DEF ProcDequeues
  <2> QED BY <2>2, <2>3, <2>4, <2>5
    DEF Sharing, HolderSets, HeldIsLocked, LockedIsHeld, Holders
<1>33. CASE ProcDequeuesNull
  BY <1>33, <1>a, <1>b, NoFrameMoves DEF ProcDequeuesNull
<1>34. CASE ProcDeliversKept
  <2>1. \A h \in held' : h[1] = session'
    BY <1>34, <1>b DEF ProcDeliversKept
  <2> SUFFICES ASSUME Active' PROVE Sharing'
    BY <2>1
  <2>2. Sharing /\ Processing = {pframe}
    BY <1>34, <1>a
    DEF ProcDeliversKept, Processing, Control, Threads, TypeOK
  <2>3. /\ QueuedFrames' = QueuedFrames /\ Writer' = Writer
        /\ Processing' = {} /\ (QueuedOnce' <=> QueuedOnce)
    BY <1>34
    DEF ProcDeliversKept, QueuedFrames, Writer, Processing, QueuedOnce
  <2>4. lock' = lock /\ useCallback' = useCallback
    BY <1>34 DEF ProcDeliversKept
  <2>5. Rendered' = Rendered \cup {pframe}
    <3>1. /\ held' = held \cup {<<session, pframe>>}
          /\ <<session, pframe>>[2] = pframe
      BY <1>34 DEF ProcDeliversKept
    <3> QED BY <3>1 DEF Rendered
  <2> QED BY <2>2, <2>3, <2>4, <2>5
    DEF Sharing, HolderSets, HeldIsLocked, LockedIsHeld, Holders
<1>35. CASE ProcDeliversReturned
  <2>1. \A h \in held' : h[1] = session'
    BY <1>35, <1>b DEF ProcDeliversReturned
  <2> SUFFICES ASSUME Active' PROVE Sharing'
    BY <2>1
  <2>2. Sharing /\ Processing = {pframe} /\ pframe \in Frames
    BY <1>35, <1>a
    DEF ProcDeliversReturned, Processing, Control, Threads, TypeOK
  <2>3. held' = held
    BY <1>35, <2>2
    DEF ProcDeliversReturned, Sharing, HolderSets, Rendered
  <2>4. /\ QueuedFrames' = QueuedFrames /\ Writer' = Writer
        /\ Processing' = {} /\ Rendered' = Rendered
        /\ (QueuedOnce' <=> QueuedOnce)
    BY <1>35, <2>3
    DEF ProcDeliversReturned, QueuedFrames, Writer, Processing, Rendered,
        QueuedOnce
  <2>5. \A f \in Frames : lock'[f] = TRUE <=> lock[f] = TRUE /\ f # pframe
    BY <1>35, <2>2 DEF ProcDeliversReturned, TypeOK
  <2>6. Holders \subseteq Frames
    BY DEF Holders, Writer, QueuedFrames, Processing, Rendered, TypeOK
  <2>7. useCallback' = useCallback
    BY <1>35 DEF ProcDeliversReturned
  <2> QED BY <2>2, <2>4, <2>5, <2>6, <2>7
    DEF Sharing, HolderSets, HeldIsLocked, LockedIsHeld, Holders
<1>36. CASE ProcDrops
  <2>1. \A h \in held' : h[1] = session'
    BY <1>36, <1>b DEF ProcDrops
  <2> SUFFICES ASSUME Active' PROVE Sharing'
    BY <2>1
  <2>2. Sharing /\ ~useCallback'
    BY <1>36, <1>a DEF ProcDrops
  <2>3. /\ QueuedFrames' = QueuedFrames /\ Writer' = Writer
        /\ Processing' = {} /\ Rendered' = Rendered
        /\ (QueuedOnce' <=> QueuedOnce) /\ lock' = lock
    BY <1>36
    DEF ProcDrops, QueuedFrames, Writer, Processing, Rendered, QueuedOnce
  <2> QED BY <2>2, <2>3
    DEF Sharing, HolderSets, HeldIsLocked, LockedIsHeld, Holders
<1>37. CASE \E f \in held : ClientReturns(f)
  <2> PICK g \in held : ClientReturns(g)
    BY <1>37
  <2>1. \A h \in held' : h[1] = session'
    BY <1>b DEF ClientReturns
  <2> SUFFICES ASSUME Active' PROVE Sharing'
    BY <2>1
  <2>2. Sharing /\ g[2] \in Frames /\ g[2] \in Rendered
    BY <1>a DEF ClientReturns, TypeOK, Rendered
  <2>3. Rendered' = Rendered \ {g[2]}
    <3>1. \A h \in held : h = <<session, h[2]>>
      BY <1>b DEF TypeOK
    <3> QED BY <3>1 DEF ClientReturns, Rendered
  <2>4. /\ QueuedFrames' = QueuedFrames /\ Writer' = Writer
        /\ Processing' = Processing /\ (QueuedOnce' <=> QueuedOnce)
        /\ useCallback' = useCallback
    BY DEF ClientReturns, QueuedFrames, Writer, Processing, QueuedOnce
  <2>5. \A f \in Frames : lock'[f] = TRUE <=> lock[f] = TRUE /\ f # g[2]
    BY <2>2 DEF ClientReturns, TypeOK
  <2>6. Holders \subseteq Frames
    BY DEF Holders, Writer, QueuedFrames, Processing, Rendered, TypeOK
  <2> QED BY <2>2, <2>3, <2>4, <2>5, <2>6
    DEF Sharing, HolderSets, HeldIsLocked, LockedIsHeld, Holders
<1>38. CASE ClientStartsRendering \/ ClientStopsRendering
  BY <1>38, <1>a, <1>b, NoFrameMoves
  DEF ClientStartsRendering, ClientStopsRendering
<1>39. CASE UNCHANGED vars
  BY <1>39, <1>a, <1>b, NoFrameMoves DEF vars
<1> QED
  BY <1>1, <1>2, <1>3, <1>4, <1>5, <1>6, <1>7, <1>8, <1>9, <1>10, <1>11,
     <1>12, <1>13, <1>14, <1>15, <1>16, <1>17, <1>18, <1>19, <1>20, <1>21,
     <1>22, <1>23, <1>24, <1>25, <1>26, <1>27, <1>28, <1>29, <1>30, <1>31,
     <1>32, <1>33, <1>34, <1>35, <1>36, <1>37, <1>38, <1>39
  DEF Next, JavaMessage, Start, Stop, UrbThread, ProcThread, Client

\* The invariant of a driver whose client stops its renderer before a stop.
THEOREM Invariance == ASSUME ClientQuiesces PROVE Spec => []IInv
<1>1. Init => IInv
  BY TypeInit, ControlInit, OwnedInit DEF IInv
<1>2. IInv /\ [Next]_vars => IInv'
  BY TypeStep, ControlStep, AwayStep, OwnedStep, ClientQuiesces DEF IInv
<1> QED BY <1>1, <1>2, PTL DEF Spec

\* A buffer is in one place only: written, queued, delivered or rendered.
THEOREM FramesExclusive == ASSUME ClientQuiesces PROVE Spec => []Exclusive
<1>1. IInv => Exclusive
  BY DEF IInv, Owned, HolderSets, Exclusive
<1> QED BY <1>1, Invariance, ClientQuiesces, PTL

\* Who has a frame has its lock, and with a listener every locked frame is
\* had by somebody: no frame is lost to the pool.
THEOREM LocksConserved == ASSUME ClientQuiesces PROVE Spec => []LockConserved
<1>1. IInv => LockConserved
  <2> SUFFICES ASSUME IInv, pool, streamActive
               PROVE  LET Locked == {f \in Frames : lock[f]}
                      IN  /\ Holders \subseteq Locked
                          /\ useCallback => Locked \subseteq Holders
    BY DEF LockConserved, Holders
  <2>1. Holders \subseteq Frames
    BY DEF IInv, TypeOK, Holders, Writer, QueuedFrames, Processing, Rendered
  <2> QED BY <2>1 DEF IInv, Owned, HeldIsLocked, LockedIsHeld
<1> QED BY <1>1, Invariance, ClientQuiesces, PTL

\* No thread, no queue and no client has a frame of a pool that was freed.
THEOREM FramesNotDangling ==
  ASSUME ClientQuiesces PROVE Spec => []NoDanglingFrame
<1>1. IInv => NoDanglingFrame
  BY DEF IInv, Control, QuietWithoutPool, ClientAway, Owned, NoDanglingFrame
<1> QED BY <1>1, Invariance, ClientQuiesces, PTL

-----------------------------------------------------------------------------
(***************************************************************************)
(* The URB thread of the driver implements UrbReader.                      *)
(***************************************************************************)

LEMMA ReaderInit == Init => Reader!Init
BY DEF Init, Reader!Init

LEMMA ReaderStutters ==
  ASSUME UNCHANGED <<upc, urbRunning>>
  PROVE  UNCHANGED Reader!vars
BY DEF Reader!vars

LEMMA ReaderStep ==
  TypeOK /\ Control /\ [Next]_vars => [Reader!Next]_(Reader!vars)
<1> SUFFICES ASSUME TypeOK, Control, [Next]_vars
             PROVE  [Reader!Next]_(Reader!vars)
  OBVIOUS
<1> USE DEF ctlVars, activeVars, poolVars, queueVars, urbVars, procVars,
            clientVars, urbFrame, procFrame
<1>1. CASE StartStreaming
  BY <1>1, ReaderStutters DEF StartStreaming
<1>2. CASE StopStreaming
  BY <1>2, ReaderStutters DEF StopStreaming
<1>3. CASE RestartStream
  BY <1>3, ReaderStutters DEF RestartStream
<1>4. CASE CloseDevice
  BY <1>4, ReaderStutters DEF CloseDevice
<1>5. CASE SetFrameListener
  BY <1>5, ReaderStutters DEF SetFrameListener
<1>6. CASE StartAlreadyActive
  BY <1>6, ReaderStutters DEF StartAlreadyActive
<1>7. CASE StartInterfaceFails
  BY <1>7, ReaderStutters DEF StartInterfaceFails
<1>8. CASE StartRegistersFail
  BY <1>8, ReaderStutters DEF StartRegistersFail
<1>9. CASE StartAllocates
  BY <1>9, ReaderStutters DEF StartAllocates
<1>10. CASE StartFails
  BY <1>10, ReaderStutters DEF StartFails
<1>11. CASE StartCompletes
  <2>1. Reader!Start
    BY <1>11 DEF StartCompletes, Reader!Start, Control, Threads, Phases
  <2> QED BY <2>1 DEF Reader!Next
<1>12. CASE StopClearsActive
  BY <1>12, ReaderStutters DEF StopClearsActive
<1>13. CASE StopWithoutUrbThread
  BY <1>13, ReaderStutters DEF StopWithoutUrbThread
<1>14. CASE StopLocksUrbMutex
  <2>1. Reader!StopBegins
    BY <1>14 DEF StopLocksUrbMutex, Reader!StopBegins, Control, Threads, Phases
  <2> QED BY <2>1 DEF Reader!Next
<1>15. CASE StopJoinsUrbThread
  <2>1. Reader!StopEnds
    BY <1>15 DEF StopJoinsUrbThread, Reader!StopEnds, Control, Threads, Phases
  <2> QED BY <2>1 DEF Reader!Next
<1>16. CASE StopProcessThread
  BY <1>16, ReaderStutters DEF StopProcessThread
<1>17. CASE StopWithoutProcessThread
  BY <1>17, ReaderStutters DEF StopWithoutProcessThread
<1>18. CASE StopJoinsProcessThread
  BY <1>18, ReaderStutters DEF StopJoinsProcessThread
<1>19. CASE StopDrains
  BY <1>19, ReaderStutters DEF StopDrains
<1>20. CASE StopDrainsWild
  BY <1>20, ReaderStutters DEF StopDrainsWild
<1>21. CASE StopFrees
  BY <1>21, ReaderStutters DEF StopFrees
<1>22. CASE UrbTest
  BY <1>22 DEF UrbTest, Reader!vars, Control, Threads
<1>23. CASE UrbReaps
  <2>1. Reader!CallbackBegins
    BY <1>23 DEF UrbReaps, Reader!CallbackBegins, Control, Threads, Phases
  <2> QED BY <2>1 DEF Reader!Next
<1>24. CASE UrbReapFails
  BY <1>24 DEF UrbReapFails, Reader!vars, Control, Threads
<1>25. CASE UrbField
  BY <1>25 DEF UrbField, Reader!vars, Control, Threads
<1>26. CASE UrbFetchTakes
  BY <1>26 DEF UrbFetchTakes, Reader!vars, Control, Threads
<1>27. CASE UrbFetchSkips
  BY <1>27 DEF UrbFetchSkips, Reader!vars, Control, Threads
<1>28. CASE UrbFetchGivesUp
  BY <1>28 DEF UrbFetchGivesUp, Reader!vars, Control, Threads
<1>29. CASE UrbPacketsDone
  BY <1>29 DEF UrbPacketsDone, Reader!vars, Control, Threads
<1>30. CASE UrbResubmits
  <2>1. Reader!CallbackEnds
    BY <1>30 DEF UrbResubmits, Reader!CallbackEnds, Control, Threads, Phases
  <2> QED BY <2>1 DEF Reader!Next
<1>31. CASE ProcTest
  BY <1>31, ReaderStutters DEF ProcTest
<1>32. CASE ProcDequeues
  BY <1>32, ReaderStutters DEF ProcDequeues
<1>33. CASE ProcDequeuesNull
  BY <1>33, ReaderStutters DEF ProcDequeuesNull
<1>34. CASE ProcDeliversKept
  BY <1>34, ReaderStutters DEF ProcDeliversKept
<1>35. CASE ProcDeliversReturned
  BY <1>35, ReaderStutters DEF ProcDeliversReturned
<1>36. CASE ProcDrops
  BY <1>36, ReaderStutters DEF ProcDrops
<1>37. CASE \E f \in held : ClientReturns(f)
  BY <1>37, ReaderStutters DEF ClientReturns
<1>38. CASE ClientStartsRendering \/ ClientStopsRendering
  BY <1>38, ReaderStutters DEF ClientStartsRendering, ClientStopsRendering
<1>39. CASE UNCHANGED vars
  BY <1>39, ReaderStutters DEF vars
<1> QED
  BY <1>1, <1>2, <1>3, <1>4, <1>5, <1>6, <1>7, <1>8, <1>9, <1>10, <1>11,
     <1>12, <1>13, <1>14, <1>15, <1>16, <1>17, <1>18, <1>19, <1>20, <1>21,
     <1>22, <1>23, <1>24, <1>25, <1>26, <1>27, <1>28, <1>29, <1>30, <1>31,
     <1>32, <1>33, <1>34, <1>35, <1>36, <1>37, <1>38, <1>39
  DEF Next, JavaMessage, Start, Stop, UrbThread, ProcThread, Client

\* The driver runs callbacks as UrbReader says: one at a time, and none before
\* a start or after a stop has joined the thread.
THEOREM DriverReads == Spec => ReaderSpec
<1>1. Spec => [](TypeOK /\ Control)
  BY TypeInit, TypeStep, ControlInit, ControlStep, PTL DEF Spec
<1> QED BY <1>1, ReaderInit, ReaderStep, PTL DEF Spec, ReaderSpec, Reader!Spec

=============================================================================
