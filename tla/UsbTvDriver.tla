----------------------------- MODULE UsbTvDriver -----------------------------
(***************************************************************************)
(* The native streaming core: the UsbTvDriver object with its frame pool   *)
(* and process queue, and the four threads that meet in it.                *)
(*                                                                         *)
(*   control   the HandlerThread of UsbTv.java, which runs one message at  *)
(*             a time and calls startStreaming / stopStreaming / dispose   *)
(*   URB       AndroidUsbDevice::reapUrbAsync, which fills the input frame *)
(*             and hands it to the process queue                           *)
(*   process   frame_process_thread, which takes frames from the queue and *)
(*             gives them to Java                                          *)
(*   client    the application, which returns frames to the pool           *)
(*                                                                         *)
(* Packets, frame flags and single URBs are below this module's grain: a   *)
(* step of the URB thread here is "a field was completed", "a URB was      *)
(* reaped", "one slot of the pool was tried".  A frame is its index in the *)
(* pool; `session` numbers the pools that were allocated, so that a Java   *)
(* frame of an earlier pool can be told from one of the current pool.      *)
(***************************************************************************)
EXTENDS Naturals, Sequences, FiniteSets

CONSTANTS
  PoolSize,         \* _framePoolSize
  MaxSessions,      \* bound: how many pools are allocated
  QueueCapacity,    \* frames after which try_enqueue is sure to fail
  ClientQuiesces,   \* does the client stop rendering before a stop
  Null, Uninit      \* nullptr, and a pointer the constructor never set

ASSUME DriverAssumption ==
  /\ PoolSize \in 1..255     \* the pool is indexed by a uint8_t
  /\ MaxSessions \in Nat
  /\ QueueCapacity \in Nat
  /\ ClientQuiesces \in BOOLEAN

Frames == 0..(PoolSize - 1)

ASSUME NullAssumption ==
  Null \notin Frames /\ Uninit \notin Frames /\ Null # Uninit

VARIABLES
  ctl,           \* where the control thread is
  cont,          \* where it goes when the running stopStreaming returns
  isStreaming,   \* UsbTv.mIsStreaming
  useCallback,   \* _useCallback
  streamActive,  \* _streamActive
  halfStarted,   \* history: was it left set by a start that failed
  pool,          \* _framePool # nullptr
  session,       \* number of the pool allocated last
  lock,          \* lock[f]: the atomic flag of frame f
  input,         \* _usbInputFrame
  queue,         \* frames in _frameProcessQueue, oldest first
  nullQueued,    \* is stopStreaming's null frame in _frameProcessQueue
  upc,           \* where the URB thread is; "none" iff _urbThread = nullptr
  fetchIdx,      \* `index` of fetchFrameFromPool
  urbRunning,    \* _urbThreadRunning
  urbMutex,      \* does the control thread hold _urbMutex
  ppc,           \* where the process thread is; "none" iff it is nullptr
  pframe,        \* the frame the process thread works on
  procRunning,   \* _processThreadRunning
  held,          \* Java frames the client has and has not returned
  rendering      \* does the client keep frames beyond the callback

ctlVars    == <<ctl, cont, isStreaming>>
activeVars == <<streamActive, halfStarted>>
poolVars   == <<pool, session, lock>>
queueVars  == <<queue, nullQueued>>
urbVars    == <<upc, fetchIdx, urbRunning>>
procVars   == <<ppc, pframe, procRunning>>
clientVars == <<held, rendering>>
vars == <<ctlVars, useCallback, activeVars, poolVars, input, queueVars,
          urbVars, urbMutex, procVars, clientVars>>

StartStates == {"start", "allocated"}
StopStates  == {"stop", "stopUrb", "joinUrb", "stopProc", "joinProc", "drain",
                "free"}
CtlStates == {"idle", "disposed", "crashed"} \cup StartStates \cup StopStates
UrbStates  == {"none", "loop", "reap", "packets", "fetch", "resubmit", "exit"}
ProcStates == {"none", "test", "wait", "frame", "exit"}

(***************************************************************************)
(* The constructor.  It leaves _usbInputFrame as the allocator gave it.    *)
(***************************************************************************)
Init ==
  /\ ctl = "idle" /\ cont = "idle"
  /\ isStreaming = FALSE /\ useCallback = FALSE
  /\ streamActive = FALSE /\ halfStarted = FALSE
  /\ pool = FALSE /\ session = 0 /\ lock = [f \in Frames |-> FALSE]
  /\ input = Uninit
  /\ queue = <<>> /\ nullQueued = FALSE
  /\ upc = "none" /\ fetchIdx = 0 /\ urbRunning = FALSE /\ urbMutex = FALSE
  /\ ppc = "none" /\ pframe = Null /\ procRunning = FALSE
  /\ held = {} /\ rendering = FALSE

-----------------------------------------------------------------------------
(***************************************************************************)
(* Messages of the control thread (UsbTv.handleMessage).                   *)
(*                                                                         *)
(* _streamActive, _urbThreadRunning and _processThreadRunning are plain    *)
(* bools that one thread writes and another reads.  Every loop that reads  *)
(* one also performs an acquire operation, takes a lock or makes a call    *)
(* the compiler cannot see through, so the build reloads it each time      *)
(* round: the race costs a delay, and the interleaving of the steps below  *)
(* is that delay.                                                          *)
(***************************************************************************)

\* The stop of a quiescent client: it has stopped its renderer and given
\* every frame back.  Other clients may stop at any time.
ClientReady == ClientQuiesces => ~rendering /\ held = {}

StartStreaming ==
  /\ ctl = "idle" /\ ~isStreaming /\ session < MaxSessions
  /\ ctl' = "start"
  /\ UNCHANGED <<cont, isStreaming, useCallback, activeVars, poolVars, input,
                 queueVars, urbVars, urbMutex, procVars, clientVars>>

StopStreaming ==
  /\ ctl = "idle" /\ isStreaming /\ ClientReady
  /\ ctl' = "stop" /\ cont' = "idle"
  /\ UNCHANGED <<isStreaming, useCallback, activeVars, poolVars, input,
                 queueVars, urbVars, urbMutex, procVars, clientVars>>

\* SET_NORM and SET_SCANTYPE: mIsStreaming stays set while the stream is
\* stopped and started again.
RestartStream ==
  /\ ctl = "idle" /\ isStreaming /\ ClientReady /\ session < MaxSessions
  /\ ctl' = "stop" /\ cont' = "start"
  /\ UNCHANGED <<isStreaming, useCallback, activeVars, poolVars, input,
                 queueVars, urbVars, urbMutex, procVars, clientVars>>

\* CLOSE_DEVICE: the stream is stopped, by closeDevice or by the destructor,
\* if _streamActive says that there is one.
CloseDevice ==
  /\ ctl = "idle"
  /\ isStreaming' = FALSE
  /\ \/ streamActive /\ ClientReady /\ ctl' = "stop" /\ cont' = "disposed"
     \/ ~streamActive /\ ctl' = "disposed" /\ UNCHANGED cont
  /\ UNCHANGED <<useCallback, activeVars, poolVars, input, queueVars, urbVars,
                 urbMutex, procVars, clientVars>>

SetFrameListener ==
  /\ ctl = "idle" /\ ~isStreaming
  /\ useCallback' \in BOOLEAN
  /\ UNCHANGED <<ctlVars, activeVars, poolVars, input, queueVars, urbVars,
                 urbMutex, procVars, clientVars>>

-----------------------------------------------------------------------------
(***************************************************************************)
(* UsbTvDriver::startStreaming.  Until the process thread exists the       *)
(* control thread is alone with the driver, so the ioctls up to that point *)
(* are one step with their outcome.                                        *)
(***************************************************************************)

StartAlreadyActive ==
  /\ ctl = "start" /\ streamActive
  /\ ctl' = "idle" /\ isStreaming' = TRUE
  /\ UNCHANGED <<cont, useCallback, activeVars, poolVars, input, queueVars,
                 urbVars, urbMutex, procVars, clientVars>>

\* The one early return that leaves _streamActive set.
StartInterfaceFails ==
  /\ ctl = "start" /\ ~streamActive
  /\ streamActive' = TRUE /\ halfStarted' = TRUE
  /\ ctl' = "idle" /\ isStreaming' = FALSE
  /\ UNCHANGED <<cont, useCallback, poolVars, input, queueVars, urbVars,
                 urbMutex, procVars, clientVars>>

StartRegistersFail ==
  /\ ctl = "start" /\ ~streamActive
  /\ ctl' = "idle" /\ isStreaming' = FALSE
  /\ UNCHANGED <<cont, useCallback, activeVars, poolVars, input, queueVars,
                 urbVars, urbMutex, procVars, clientVars>>

\* Everything is configured: allocateFramePool, the first fetch (which takes
\* slot 0 of a fresh pool) and the process thread.  The guard has no branch
\* for a pool or a thread left over from an earlier stream: CleanStop.
StartAllocates ==
  /\ ctl = "start" /\ ~streamActive /\ ~pool /\ ppc = "none"
  /\ streamActive' = TRUE /\ UNCHANGED halfStarted
  /\ pool' = TRUE /\ session' = session + 1
  /\ lock' = [f \in Frames |-> f = 0]
  /\ input' = 0
  /\ ppc' = "test" /\ procRunning' = TRUE /\ UNCHANGED pframe
  /\ ctl' = "allocated"
  /\ UNCHANGED <<cont, isStreaming, useCallback, queueVars, urbVars, urbMutex,
                 clientVars>>

\* setInterface(0, 1), initIsoUrbs or startUrbAsyncRead failed: startStreaming
\* calls stopStreaming and returns false.
StartFails ==
  /\ ctl = "allocated"
  /\ ctl' = "stop" /\ cont' = "idle"
  /\ UNCHANGED <<isStreaming, useCallback, activeVars, poolVars, input,
                 queueVars, urbVars, urbMutex, procVars, clientVars>>

StartCompletes ==
  /\ ctl = "allocated" /\ upc = "none"
  /\ upc' = "loop" /\ urbRunning' = TRUE /\ UNCHANGED fetchIdx
  /\ ctl' = "idle" /\ isStreaming' = TRUE
  /\ UNCHANGED <<cont, useCallback, activeVars, poolVars, input, queueVars,
                 urbMutex, procVars, clientVars>>

-----------------------------------------------------------------------------
(***************************************************************************)
(* UsbTvDriver::stopStreaming, one action per step other threads can see.  *)
(***************************************************************************)

StopClearsActive ==
  /\ ctl = "stop"
  /\ streamActive' = FALSE /\ halfStarted' = FALSE
  /\ ctl' = "stopUrb"
  /\ UNCHANGED <<cont, isStreaming, useCallback, poolVars, input, queueVars,
                 urbVars, urbMutex, procVars, clientVars>>

\* isUrbThreadRunning() is false: discardIsoUrbs.
StopWithoutUrbThread ==
  /\ ctl = "stopUrb" /\ ~urbRunning
  /\ ctl' = "stopProc"
  /\ UNCHANGED <<cont, isStreaming, useCallback, activeVars, poolVars, input,
                 queueVars, urbVars, urbMutex, procVars, clientVars>>

\* stopUrbAsyncRead up to its join, and then the rest: _urbMutex is held all
\* the while.
StopLocksUrbMutex ==
  /\ ctl = "stopUrb" /\ urbRunning /\ ~urbMutex
  /\ urbMutex' = TRUE
  /\ urbRunning' = FALSE
  /\ ctl' = "joinUrb"
  /\ UNCHANGED <<cont, isStreaming, useCallback, activeVars, poolVars, input,
                 queueVars, upc, fetchIdx, procVars, clientVars>>

\* Mutant: the thread is deleted without a join.
StopJoinsUrbThread_Detached ==
  /\ ctl = "joinUrb"
  /\ upc' = "none" /\ urbMutex' = FALSE
  /\ ctl' = "stopProc"
  /\ UNCHANGED <<cont, isStreaming, useCallback, activeVars, poolVars, input,
                 queueVars, fetchIdx, urbRunning, procVars, clientVars>>

StopJoinsUrbThread ==
  /\ ctl = "joinUrb" /\ upc = "exit"
  /\ upc' = "none" /\ urbMutex' = FALSE
  /\ ctl' = "stopProc"
  /\ UNCHANGED <<cont, isStreaming, useCallback, activeVars, poolVars, input,
                 queueVars, fetchIdx, urbRunning, procVars, clientVars>>

\* Mutants: the thread is not joined; the null frame is forgotten.
StopProcessThread_NoJoin ==
  /\ ctl = "stopProc" /\ ppc # "none"
  /\ procRunning' = FALSE
  /\ nullQueued' = (nullQueued \/ procRunning)
  /\ ctl' = "drain"
  /\ UNCHANGED <<cont, isStreaming, useCallback, activeVars, poolVars, input,
                 queue, urbVars, urbMutex, ppc, pframe, clientVars>>

StopProcessThread_NoNullFrame ==
  /\ ctl = "stopProc" /\ ppc # "none"
  /\ procRunning' = FALSE
  /\ ctl' = "joinProc"
  /\ UNCHANGED <<cont, isStreaming, useCallback, activeVars, poolVars, input,
                 queueVars, urbVars, urbMutex, ppc, pframe, clientVars>>

\* The null frame makes sure that the thread leaves wait_dequeue.
StopProcessThread ==
  /\ ctl = "stopProc" /\ ppc # "none"
  /\ procRunning' = FALSE
  /\ nullQueued' = (nullQueued \/ procRunning)
  /\ ctl' = "joinProc"
  /\ UNCHANGED <<cont, isStreaming, useCallback, activeVars, poolVars, input,
                 queue, urbVars, urbMutex, ppc, pframe, clientVars>>

StopWithoutProcessThread ==
  /\ ctl = "stopProc" /\ ppc = "none"
  /\ ctl' = "drain"
  /\ UNCHANGED <<cont, isStreaming, useCallback, activeVars, poolVars, input,
                 queueVars, urbVars, urbMutex, procVars, clientVars>>

StopJoinsProcessThread ==
  /\ ctl = "joinProc" /\ ppc = "exit"
  /\ ppc' = "none"
  /\ ctl' = "drain"
  /\ UNCHANGED <<cont, isStreaming, useCallback, activeVars, poolVars, input,
                 queueVars, urbVars, urbMutex, pframe, procRunning, clientVars>>

QueuedFrames == {queue[i] : i \in DOMAIN queue}

\* Mutant: the queue is not emptied of the null frame.
StopDrains_KeepsNull ==
  /\ ctl = "drain" /\ input # Uninit
  /\ lock' = [f \in Frames |-> lock[f] /\ f \notin QueuedFrames /\ f # input]
  /\ queue' = <<>>
  /\ input' = Null
  /\ ctl' = "free"
  /\ UNCHANGED <<cont, isStreaming, useCallback, activeVars, pool, session,
                 nullQueued, urbVars, urbMutex, procVars, clientVars>>

\* The queue is emptied, its frames and the input frame are unlocked.
StopDrains ==
  /\ ctl = "drain" /\ input # Uninit
  /\ lock' = [f \in Frames |-> lock[f] /\ f \notin QueuedFrames /\ f # input]
  /\ queue' = <<>> /\ nullQueued' = FALSE
  /\ input' = Null
  /\ ctl' = "free"
  /\ UNCHANGED <<cont, isStreaming, useCallback, activeVars, pool, session,
                 urbVars, urbMutex, procVars, clientVars>>

\* The same before any frame was fetched: the pointer may be null by luck, or
\* the clear of its lock goes to memory that was never a frame.
StopDrainsWild ==
  /\ ctl = "drain" /\ input = Uninit
  /\ queue' = <<>> /\ nullQueued' = FALSE
  /\ \/ ctl' = "free" /\ input' = Null
     \/ ctl' = "crashed" /\ UNCHANGED input
  /\ UNCHANGED <<cont, isStreaming, useCallback, activeVars, poolVars,
                 urbVars, urbMutex, procVars, clientVars>>

\* Mutant: mIsStreaming is not reset when the stream is gone.
StopFrees_StillStreaming ==
  /\ ctl = "free"
  /\ pool' = (pool /\ streamActive)
  /\ lock' = [f \in Frames |-> FALSE]
  /\ ctl' = cont
  /\ UNCHANGED <<cont, isStreaming, useCallback, activeVars, session, input,
                 queueVars, urbVars, urbMutex, procVars, clientVars>>

\* freeFramePool, and the return to what stopStreaming was called for: only a
\* restart does not reset mIsStreaming.
StopFrees ==
  /\ ctl = "free"
  /\ pool' = (pool /\ streamActive)
  /\ lock' = [f \in Frames |-> FALSE]
  /\ ctl' = cont
  /\ isStreaming' = (isStreaming /\ cont = "start")
  /\ UNCHANGED <<cont, useCallback, activeVars, session, input, queueVars,
                 urbVars, urbMutex, procVars, clientVars>>

-----------------------------------------------------------------------------
(***************************************************************************)
(* The URB thread: reapUrbAsync, onUrbReceived, processPacket.             *)
(***************************************************************************)

urbFrame == <<ctlVars, useCallback, activeVars, pool, session, nullQueued,
              urbRunning, urbMutex, procVars, clientVars>>

UrbTest ==
  /\ upc = "loop"
  /\ upc' = IF urbRunning THEN "reap" ELSE "exit"
  /\ UNCHANGED <<urbFrame, lock, input, queue, fetchIdx>>

UrbReaps ==
  /\ upc = "reap"
  /\ upc' = "packets"
  /\ UNCHANGED <<urbFrame, lock, input, queue, fetchIdx>>

\* ioctl failed: libc returns -1, which is the default case, and urb is null.
UrbReapFails ==
  /\ upc = "reap"
  /\ upc' = "loop"
  /\ UNCHANGED <<urbFrame, lock, input, queue, fetchIdx>>

\* addCompleteFrameToQueue.  A try_enqueue that fails keeps the frame: the
\* step changes nothing here.
UrbField ==
  /\ upc = "packets" /\ Len(queue) < QueueCapacity
  /\ queue' = Append(queue, input)
  /\ upc' = "fetch" /\ fetchIdx' = 0
  /\ UNCHANGED <<urbFrame, lock, input>>

\* Mutant: the lock is set but not tested.
UrbFetchTakes_Untested ==
  /\ upc = "fetch" /\ streamActive
  /\ lock' = [lock EXCEPT ![fetchIdx] = TRUE]
  /\ input' = fetchIdx
  /\ upc' = "packets"
  /\ UNCHANGED <<urbFrame, queue, fetchIdx>>

UrbFetchTakes ==
  /\ upc = "fetch" /\ streamActive /\ ~lock[fetchIdx]
  /\ lock' = [lock EXCEPT ![fetchIdx] = TRUE]
  /\ input' = fetchIdx
  /\ upc' = "packets"
  /\ UNCHANGED <<urbFrame, queue, fetchIdx>>

\* Mutant: the index does not wrap.
UrbFetchSkips_NoWrap ==
  /\ upc = "fetch" /\ streamActive /\ lock[fetchIdx]
  /\ fetchIdx' = fetchIdx + 1
  /\ UNCHANGED <<urbFrame, lock, input, queue, upc>>

UrbFetchSkips ==
  /\ upc = "fetch" /\ streamActive /\ lock[fetchIdx]
  /\ fetchIdx' = (fetchIdx + 1) % PoolSize
  /\ UNCHANGED <<urbFrame, lock, input, queue, upc>>

\* Mutant: the loop goes on until it has a frame.
UrbFetchGivesUp_Never ==
  /\ upc = "fetch" /\ ~streamActive /\ \E f \in Frames : ~lock[f]
  /\ input' = 0
  /\ upc' = "packets"
  /\ UNCHANGED <<urbFrame, lock, queue, fetchIdx>>

\* The stream is no longer active: any frame, and no lock.
UrbFetchGivesUp ==
  /\ upc = "fetch" /\ ~streamActive
  /\ input' = 0
  /\ upc' = "packets"
  /\ UNCHANGED <<urbFrame, lock, queue, fetchIdx>>

UrbPacketsDone ==
  /\ upc = "packets"
  /\ upc' = "resubmit"
  /\ UNCHANGED <<urbFrame, lock, input, queue, fetchIdx>>

\* resubmitUrb locks _urbMutex.
UrbResubmits ==
  /\ upc = "resubmit" /\ ~urbMutex
  /\ upc' = "loop"
  /\ UNCHANGED <<urbFrame, lock, input, queue, fetchIdx>>

-----------------------------------------------------------------------------
(***************************************************************************)
(* The process thread: frame_process_thread, getFrame,                     *)
(* nativeFrameCallback.                                                    *)
(***************************************************************************)

procFrame == <<ctlVars, useCallback, activeVars, pool, session, input,
               urbVars, urbMutex, procRunning, rendering>>

\* Mutant: the thread watches _streamActive.
ProcTest_WatchesStream ==
  /\ ppc = "test"
  /\ ppc' = IF streamActive THEN "wait" ELSE "exit"
  /\ UNCHANGED <<procFrame, lock, queueVars, pframe, held>>

ProcTest ==
  /\ ppc = "test"
  /\ ppc' = IF procRunning THEN "wait" ELSE "exit"
  /\ UNCHANGED <<procFrame, lock, queueVars, pframe, held>>

ProcDequeues ==
  /\ ppc = "wait" /\ queue # <<>>
  /\ pframe' = Head(queue) /\ queue' = Tail(queue)
  /\ ppc' = "frame"
  /\ UNCHANGED <<procFrame, lock, nullQueued, held>>

\* The null frame has another producer than the frames: the queue may give it
\* out before frames that were added earlier.
ProcDequeuesNull ==
  /\ ppc = "wait" /\ nullQueued
  /\ nullQueued' = FALSE
  /\ ppc' = "test"
  /\ UNCHANGED <<procFrame, lock, queue, pframe, held>>

\* The listener hands the frame to a renderer, which returns it later.
ProcDeliversKept ==
  /\ ppc = "frame" /\ useCallback /\ rendering
  /\ held' = held \cup {<<session, pframe>>}
  /\ pframe' = Null /\ ppc' = "test"
  /\ UNCHANGED <<procFrame, lock, queueVars>>

\* Mutant: the frame comes back with its lock.
ProcDeliversReturned_Locked ==
  /\ ppc = "frame" /\ useCallback
  /\ held' = held \ {<<session, pframe>>}
  /\ pframe' = Null /\ ppc' = "test"
  /\ UNCHANGED <<procFrame, lock, queueVars>>

\* The listener returns the frame before it returns.
ProcDeliversReturned ==
  /\ ppc = "frame" /\ useCallback
  /\ lock' = [lock EXCEPT ![pframe] = FALSE]
  /\ held' = held \ {<<session, pframe>>}
  /\ pframe' = Null /\ ppc' = "test"
  /\ UNCHANGED <<procFrame, queueVars>>

\* No listener: the frame is dropped with its lock.
ProcDrops ==
  /\ ppc = "frame" /\ ~useCallback
  /\ pframe' = Null /\ ppc' = "test"
  /\ UNCHANGED <<procFrame, lock, queueVars, held>>

-----------------------------------------------------------------------------
(***************************************************************************)
(* The client: UsbTvFrame.returnFrame, clearFrameLock.  The native side    *)
(* knows a frame by its index only, whichever pool it came from.           *)
(***************************************************************************)

\* Mutant: mLocked is set, the native lock is not cleared.
ClientReturns_Locked(f) ==
  /\ f \in held
  /\ held' = held \ {f}
  /\ UNCHANGED <<ctlVars, useCallback, activeVars, poolVars, input,
                 queueVars, urbVars, urbMutex, procVars, rendering>>

ClientReturns(f) ==
  /\ f \in held
  /\ held' = held \ {f}
  /\ lock' = IF pool THEN [lock EXCEPT ![f[2]] = FALSE] ELSE lock
  /\ UNCHANGED <<ctlVars, useCallback, activeVars, pool, session, input,
                 queueVars, urbVars, urbMutex, procVars, rendering>>

\* A quiescent client does not resume while it waits for its stop.
ClientStartsRendering ==
  /\ ~rendering /\ (ClientQuiesces => ctl = "idle")
  /\ rendering' = TRUE
  /\ UNCHANGED <<ctlVars, useCallback, activeVars, poolVars, input,
                 queueVars, urbVars, urbMutex, procVars, held>>

ClientStopsRendering ==
  /\ rendering
  /\ rendering' = FALSE
  /\ UNCHANGED <<ctlVars, useCallback, activeVars, poolVars, input,
                 queueVars, urbVars, urbMutex, procVars, held>>

-----------------------------------------------------------------------------
JavaMessage == StartStreaming \/ StopStreaming \/ RestartStream \/ CloseDevice
               \/ SetFrameListener

Start == StartAlreadyActive \/ StartInterfaceFails \/ StartRegistersFail
         \/ StartAllocates \/ StartFails \/ StartCompletes

Stop == StopClearsActive \/ StopWithoutUrbThread \/ StopLocksUrbMutex
        \/ StopJoinsUrbThread \/ StopProcessThread \/ StopWithoutProcessThread
        \/ StopJoinsProcessThread \/ StopDrains \/ StopDrainsWild \/ StopFrees

UrbThread == UrbTest \/ UrbReaps \/ UrbReapFails \/ UrbField \/ UrbFetchTakes
             \/ UrbFetchSkips \/ UrbFetchGivesUp \/ UrbPacketsDone
             \/ UrbResubmits

ProcThread == ProcTest \/ ProcDequeues \/ ProcDequeuesNull \/ ProcDeliversKept
              \/ ProcDeliversReturned \/ ProcDrops

Client == ClientStartsRendering \/ ClientStopsRendering
          \/ \E f \in held : ClientReturns(f)

Next ==
  /\ ctl # "crashed"
  /\ JavaMessage \/ Start \/ Stop \/ UrbThread \/ ProcThread \/ Client

Spec == Init /\ [][Next]_vars

(***************************************************************************)
(* Every thread that can run does, the client returns what it took, and a  *)
(* URB carries finitely many packets.  Nothing obliges Java to send a      *)
(* message, a client to start or stop rendering, or the kernel to give a   *)
(* URB back: REAPURB may block for ever, as it does when every             *)
(* resubmission failed.                                                    *)
(***************************************************************************)
Fairness ==
  /\ WF_vars(Start) /\ WF_vars(Stop)
  /\ WF_vars(upc # "reap" /\ UrbThread) /\ SF_vars(UrbPacketsDone)
  /\ WF_vars(ProcThread)
  /\ \A f \in (1..MaxSessions) \X Frames : WF_vars(ClientReturns(f))

FairSpec == Spec /\ Fairness

-----------------------------------------------------------------------------
(***************************************************************************)
(* Safety.                                                                 *)
(***************************************************************************)

\* Who has which frame: between the enqueue and the end of the fetch the URB
\* thread has none.
Writer     == IF upc = "fetch" THEN {} ELSE {input} \cap Frames
Processing == {pframe} \cap Frames
Rendered   == {h[2] : h \in held}

\* Every variable keeps its type; the fetch index stays inside the pool.
TypeOK ==
  /\ ctl \in CtlStates /\ cont \in {"idle", "start", "disposed"}
  /\ isStreaming \in BOOLEAN /\ useCallback \in BOOLEAN
  /\ streamActive \in BOOLEAN /\ halfStarted \in BOOLEAN
  /\ pool \in BOOLEAN
  /\ session \in Nat /\ lock \in [Frames -> BOOLEAN]
  /\ input \in Frames \cup {Null, Uninit}
  /\ queue \in Seq(Frames) /\ nullQueued \in BOOLEAN
  /\ upc \in UrbStates /\ fetchIdx \in Frames
  /\ urbRunning \in BOOLEAN /\ urbMutex \in BOOLEAN
  /\ ppc \in ProcStates /\ pframe \in Frames \cup {Null}
  /\ procRunning \in BOOLEAN /\ rendering \in BOOLEAN
  /\ held \in SUBSET ((0..session) \X Frames)

\* No frame is twice in the process queue.
QueuedOnce == \A i, j \in DOMAIN queue : queue[i] = queue[j] => i = j

\* While the stream is active a buffer is in one place only: it is written by
\* the URB thread, waits in the queue, is delivered, or is rendered.  This is
\* what the atomic lock of a frame is for.
Exclusive ==
  pool /\ streamActive =>
    /\ QueuedOnce
    /\ Writer \cap (QueuedFrames \cup Processing \cup Rendered) = {}
    /\ QueuedFrames \cap (Processing \cup Rendered) = {}
    /\ Processing \cap Rendered = {}

\* While the stream is active the locked frames are those somebody has, so
\* that no frame is lost to the pool; without a listener the frames that were
\* dropped stay locked, but nobody ever has an unlocked one.
LockConserved ==
  pool /\ streamActive =>
    LET Holders == Writer \cup QueuedFrames \cup Processing \cup Rendered
        Locked  == {f \in Frames : lock[f]}
    IN  /\ Holders \subseteq Locked
        /\ useCallback => Locked \subseteq Holders

\* Nobody has a frame of a pool that was freed: not a thread, not the queue
\* and not, if it stops its renderer first, the client.
NoDanglingFrame ==
  /\ ~pool => /\ upc = "none" /\ ppc = "none"
              /\ queue = <<>> /\ pframe = Null /\ held = {}
              /\ input \notin Frames
  /\ \A h \in held : h[1] = session

\* After a stop nothing is left of the stream: both threads were joined, the
\* pool was freed, the queue has not even the null frame, and the mutex is
\* free.  A start relies on it.
CleanStop ==
  ctl \in {"idle", "start", "disposed"} /\ ~streamActive =>
    /\ ~pool /\ upc = "none" /\ ppc = "none"
    /\ queue = <<>> /\ ~nullQueued /\ ~urbMutex
    /\ ~urbRunning /\ ~procRunning

\* When UsbTv says that it is streaming there is a stream: a pool, both
\* threads, and somebody who will read and process.  The exception is a start
\* that failed at its first setInterface: it leaves _streamActive set, so that
\* the next start succeeds without a stream, until the next stop.
StreamingIsReal ==
  ctl = "idle" /\ isStreaming /\ ~halfStarted =>
    /\ streamActive /\ pool /\ urbRunning /\ procRunning
    /\ upc # "none" /\ ppc # "none"

\* The URB thread as AndroidUsbDevice promises it.
Reader == INSTANCE UrbReader WITH
  phase <- IF upc = "none" THEN "off"
           ELSE IF urbRunning THEN "on" ELSE "stopping",
  busy  <- upc \in {"packets", "fetch", "resubmit"}

\* The driver sees no more of its URB thread than the device promises: field
\* after field while it is on, none after a stop has joined it.
ReaderSpec == Reader!Spec

-----------------------------------------------------------------------------
(***************************************************************************)
(* Liveness, under FairSpec.                                               *)
(***************************************************************************)

\* The loop of fetchFrameFromPool ends: with a listener that returns its
\* frames the URB thread never spins for ever.
FetchTerminates == (upc = "fetch" /\ useCallback) ~> (upc # "fetch")

\* A frame in the process queue leaves it, whatever is stopped meanwhile.
QueueDrains == \A f \in Frames : (f \in QueuedFrames) ~> (f \notin QueuedFrames)

\* A stop that waits for the URB thread gets it, unless the URB thread waits
\* for the mutex that the stop holds, or for the kernel: neither the fetch nor
\* the rest of its loop can keep the stop.  (When the kernel keeps it is a
\* matter of the URBs: AndroidUsbDevice!JoinProgresses.)
UrbJoinProgresses ==
  (ctl = "joinUrb") ~> (ctl = "stopProc" \/ upc \in {"resubmit", "reap"})

\* A stop that has the URB thread behind it ends, if only, in a driver that
\* never streamed, at the wild pointer of StopDrainsWild.
StopTerminatesAfterUrb ==
  (ctl = "stopProc")
    ~> (ctl \in {"idle", "start", "disposed", "crashed"})

-----------------------------------------------------------------------------
(***************************************************************************)
(* What comments, and a log line, say of the code.                         *)
(***************************************************************************)

\* UsbTvDriver.cpp:469: "If the stream stops and this pool is spinning then it
\* will break so the thread can quit."  (No REAPURB lies between the fetch and
\* the exit: the kernel has no part in it.)
StoppedThreadQuits ==
  (ctl = "joinUrb" /\ upc = "fetch") ~> (upc \in {"exit", "none"})

\* UsbTvDriver.cpp:491, of the frame a fetch returns when the stream is no
\* longer active: "it shouldn't be processed again."  So a frame that waits to
\* be processed, or is being processed, is not enqueued another time.
NotProcessedAgain ==
  QueuedOnce /\ pframe \notin QueuedFrames

\* UsbTvDriver.cpp:757: "If neither is set, do nothing except release the
\* lock": a locked frame is one that somebody has, with or without a listener.
DroppedFrameReleased ==
  pool /\ streamActive =>
    {f \in Frames : lock[f]}
      \subseteq Writer \cup QueuedFrames \cup Processing \cup Rendered

=============================================================================
