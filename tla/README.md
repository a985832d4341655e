# usbtv007-android: a verification project

`libusbtv` is a user-space Android driver for Fushicai USBTV007 video grabbers.
It talks to the device through usbdevfs ioctls on a file descriptor that Java
obtained, assembles isochronous packets into video frames in a native pool, and
hands the frames to Java listeners, which return them when they are done.

This directory models the driver in TLA+, checks the models with TLC and proves
their safety with TLAPS. `PROJECT.json` maps every definition to the lines it
stands for and lists runs, mutants, findings, hazards and theorems.

Paths below are relative to `libusbtv/src/main/`; `UsbTvDriver.cpp:463` is line
463 of `cpp/UsbTvDriver.cpp`, `UsbTv.java` is in `java/com/arksine/libusbtv/`.

## 1. Inventory

### Threads

| thread | created by | runs | shares |
|---|---|---|---|
| control | `UsbTv.open`, a `HandlerThread` | `UsbTv.handleMessage`, so every `startStreaming`, `stopStreaming`, `initialize`, `dispose` | everything |
| URB | `startUrbAsyncRead` | `reapUrbAsync`, `onUrbReceived`, `processPacket` | `_usbInputFrame`, locks of frames, the queue, `_urbMutex` |
| process | `startStreaming` | `frame_process_thread`, `nativeFrameCallback` | the queue, frames |
| client | the application | `UsbTvFrame.returnFrame`, the methods of `IUsbTvDriver` | locks of frames, `_framePoolMutex`, messages to control |

### Components

**Streaming core** (`UsbTvDriver.cpp`). State: `_streamActive`, the frame pool
and an atomic lock per frame, `_usbInputFrame`, the process queue, the process
thread and its flag, `_useCallback`. Operations: `startStreaming`,
`stopStreaming`, the destructor, `fetchFrameFromPool`,
`addCompleteFrameToQueue`, `frame_process_thread`, `clearFrameLock`,
`setCallback`. A frame goes round: fetched (its lock taken) by the URB thread,
filled, enqueued, dequeued by the process thread, given to Java, returned (its
lock cleared) by the client. Hard: the lock is taken and released on different
threads; three plain `bool`s end three loops; the stop has to take down two
threads, a queue and a pool in the right order, from every half-started state.
Correct when: a buffer has one user; no lock is lost; a stop terminates and
leaves nothing; nobody has a frame of a pool that was freed; `mIsStreaming`
says the truth.

**Isochronous URBs** (`AndroidUsbDevice.cpp`). State: `_isoUrbPool`,
`_isoUrbsSubmitted`, `_urbThread`, `_urbThreadRunning`, `_urbMutex`, and what
usbdevfs holds. Operations: `initIsoUrbs`, `submitUrb`, `resubmitUrb`,
`discardIsoUrbs`, `freeIsoUrbs`, `startUrbAsyncRead`, `stopUrbAsyncRead`,
`reapUrbAsync`. Hard: URBs are memory that the kernel writes to at any time;
the join is done with a mutex locked that the thread needs; the device can go
away; resubmission can fail. Correct when: no URB is deleted while the device
fills it, usbdevfs has it to be reaped or the thread works on it; a URB is in one
place; callbacks run only between a start and the end of a stop; a stop gets its
thread.

**Bulk URBs and synchronous transfers** (`AndroidUsbDevice.cpp:82-239`,
`339-494`, `570-621`, `665-717`). State: `_bulkUrbPool`, `_bulkUrbsSubmitted`, a
series of sub-URBs per URB, and in `bulkRead` the retries. A long buffer is cut:
a synchronous transfer into pieces, an asynchronous one into a series of URBs
with continuation flags. Nothing in the repository calls them yet. Hard:
usbdevfs cancels the rest of a series when a part fails; the parts are
submitted, discarded and reaped by two threads. Correct when: a success has the
whole length and comes once; no part is with the kernel twice; `bulkRead`
returns what it read, also when it times out.

**Frame assembly** (`processPacket`, `checkFinishedFrame`,
`UsbTvDriver.cpp:502-739`). State: `_currentFrameId`, `_packetsDone`,
`_secondFrame`, the flags and the contents of the input frame. Hard: packets
get lost, the device sends more packets than expected, fields must be paired
to interleaved frames, frame ids come again, the counters outlive a restart. Correct when: a frame
flagged complete is complete, fields are paired odd before even, pairing
recovers after a loss.

**Frame layout** (`packetToProgressiveFrame`, `packetToInterleavedFrame`,
`DeviceParams.Builder.setFrameSize`). Arithmetic on packet numbers: the two
halves of a payload are the unit, three make a line. Correct when: every half
lands inside the buffer, no two in one place, every line in its line.

**Session** (`UsbTv.java`). State: `mReferenceList`, `OPEN_LOCK`, per instance
`mIsOpen`, `mIsStreaming`, `mHasUsbPermission`, the message queue. Operations:
`open`, the broadcast receiver, `initDevice`, `closeDevice`, `restartStream`,
`handleMessage`. Hard: several instances and one native driver; the list is
changed with and without the lock; a permission dialog between request and
answer; a native start may fail half-way, a native stop may never return.
Correct when: at most one instance owns the native driver, `onOpen`
and `onClose` match, no instance drives another's stream.

**JNI entry points** (`usbtv.cpp`): two global pointers, `usbtv` and
`callback`, set by `initialize`, cleared by `dispose`, read by every entry
point, one of which runs on client threads.

**Java frames** (`UsbTvFrame.java`): `mLocked` makes a return happen once per
delivery.

**Clients** (`usbtvsample1`, `usbtvsample2`): a renderer with a bounded queue
and a thread (`TestRenderer`) or a GL callback (`OGLRenderer`), and an activity
that ties its life to the surface and to the driver callbacks.

**Registers and controls**: constant tables, `setRegisters`, `setTvInput`;
`setControl` and `getControl` are empty in the code.

**Process queue** (`ConcurrentQueue/`, moodycamel's
`BlockingConcurrentQueue`, vendored). State: a sub-queue per thread id that ever
enqueued, blocks of 32 elements, a block index per sub-queue, a free list, and
a semaphore on which `wait_dequeue` sleeps. Hard: it is lock-free; a signal may
come between the last look of a waiter and its sleep; sub-queues outlive their
threads. Correct when: each enqueue wakes one dequeue; elements of one producer
come in order; no block is lost or used twice; a stop empties it.

**Tests**: the two templates of the IDE; they exercise nothing.

## 2. Modules

| module | models | proofs |
|---|---|---|
| `UsbTvDriver` | the streaming core and its four threads | `UsbTvDriverProofs` |
| `AndroidUsbDevice` | iso URBs, their thread, usbdevfs | `AndroidUsbDeviceProofs` |
| `UrbReader` | abstract: what the URB thread promises to the driver | |
| `FrameLayout` | where a packet goes in the buffer | `FieldAssemblyProofs` |
| `FieldAssembly` | packets to fields to frames; extends `FrameLayout` | `FieldAssemblyProofs` |
| `LightweightSemaphore` | the semaphore of the process queue | `LightweightSemaphoreProofs` |
| `Semaphore` | abstract: a counting semaphore | |
| `ProcessQueue` | the process queue over three sessions; extends `LightweightSemaphore` | `ProcessQueueProofs` |
| `BulkTransfer` | `bulkRead` and `bulkWrite` | `BulkTransferProofs` |
| `BulkUrbs` | one bulk URB or series; extends `BulkTransfer` | `BulkUrbsProofs` |
| `UsbTvSession` | `UsbTv.java` and the globals of `usbtv.cpp` | `UsbTvSessionProofs` |
| `DriverOwner` | abstract: one owner of the native driver at a time | |

How they fit together. `UsbTvDriver` starts and stops a URB thread and sees of
it only that it reaps and calls back; `AndroidUsbDevice` has the URBs, and sees
of the driver only that its callback takes time. `UrbReader` is the interface:
both modules INSTANCE it with a refinement mapping, and `ReaderSpec` is checked
and proved of both. `FieldAssembly` is the callback seen from near: what
`UsbTvDriver` has as one step, "a field was completed" (`UrbField`), is there
packet by packet. `ProcessQueue` is the queue seen from near: `UsbTvDriver` has
a set-like queue with an order per producer and a null frame of its own, which
is what `TakesInOrder`, `DrainedAtEnd` and `StopEnds` show the queue to be; that
an enqueue may fail at any length is there too, since `queue_starved` shows that
it does. `UsbTvSession` is the handler seen from above: its start, stop and
restart are whole calls of `UsbTvDriver`.

### UsbTvDriver

A frame is its index in the pool; packets, flags and single URBs are below the
grain. Control runs one handler message at a time: `ctl` is its place in the
message, `cont` where `stopStreaming` returns to (it is called by
`STOP_STREAMING`, by a restart, by a close or the destructor, and by every late
failure of `startStreaming`). One action per step that another thread can see:

* `StartStreaming` ... `StartCompletes`: the handler and
  `UsbTvDriver::startStreaming`. Until the process thread exists control is
  alone with the driver, so the ioctls up to there are one step with their
  outcome: `StartInterfaceFails` is the early return that leaves
  `_streamActive` set, `StartRegistersFail` the three that do not,
  `StartFails` those that call `stopStreaming`. The history variable
  `halfStarted` says that `_streamActive` was set by the first of these; no
  guard reads it.
* `StopClearsActive` ... `StopFrees`: `stopStreaming`, with the URB join split
  at the lock and the join, the null frame, the drain and `freeFramePool`.
* `UrbTest` ... `UrbResubmits`: `reapUrbAsync` and `onUrbReceived`;
  `UrbFetchTakes`, `UrbFetchSkips`, `UrbFetchGivesUp` are one round each of the
  loop of `fetchFrameFromPool`, so that a stop can come between two rounds.
* `ProcTest` ... `ProcDrops`: `frame_process_thread`. The null frame has its own
  producer, and the queue orders elements per producer only; it is a flag that
  can be dequeued before or after any frame.
* `ClientReturns` and the two rendering actions: the most general client, which
  returns a frame in the callback or keeps it and returns it any time later. A
  Java frame remembers the session (pool) it came from; the native side does
  not.

`input = Uninit` is a pointer that the constructor does not set. What happens
when it is used is undefined; the model lets it be null by luck or ends in
`crashed`. The bool flags are read by one thread and written by another without
synchronisation. Every loop that reads one also has an atomic acquire, a lock
or an opaque call in it, so it is read again each time round; a step of its own
for each read is all the delay the race can cause.

### AndroidUsbDevice and UrbReader

A URB is `<<n, i>>`, the i-th of the n-th `initIsoUrbs`. Kernel and device are
external: a submitted URB is in `inflight` until it is filled, discarded or the
device is unplugged, and then in `done` until it is reaped; this is what
`USBDEVFS_SUBMITURB`, `DISCARDURB` and `REAPURB` do. `REAPURB` blocks while
there is nothing done, and fails at once when the device is gone. `ioctl`
returns -1 for every error, so only the `default` case of the switch in
`reapUrbAsync` is ever taken for one. Reaping a URB whose memory was freed ends
in `crashed`. The history variable `lost` has the URBs whose resubmission failed,
which are then nowhere.

`LiveUrbs` says that nothing is deleted under the device or under the URB thread.
It does not say that usbdevfs writes to no freed memory: a URB that was discarded
is done, may be deleted, and is written to by the next `REAPURB`, which is what
`freed_urb` shows.

`UrbReader` has two variables, a phase and whether a callback is under way:
callbacks only between a start and the end of a stop, one at a time, and a stop
ends only when none is under way. `UsbTvDriver` depends on it when it frees the
pool after the stop.

### FrameLayout and FieldAssembly

The unit of a buffer is half a payload, 480 bytes, which is what one `memcpy` of
`packetToInterleavedFrame` moves; `packetToProgressiveFrame` moves two at once.
`FieldLines` is 240 or 288 in the code. `LineIndex` and `Offset` are the code;
`ImageLine` says where a line of a field is to be, and is the reference.

`content` records which part of which field was written to a place of the buffer
since the frame was fetched. A write beyond the buffer is a place that `TypeOK`
does not allow. The device sends fields alternately, odd first, and may send
more packets than a field has; the bus loses any packet; a restart begins
anywhere in a field, with any scan type and the counters of the stream before.
A field has the id after that of the field before, of `NumIds` ids (256 in
the code); the first field of a stream has any id, the one the last stream ended
with as well.

Four history variables, which no guard of the driver reads: `whole` and `clean`
say whether the current field has arrived whole, and how many whole ones have
come in a row; `counted` is the field of the packet that was counted last; `mixed`
says that `_packetsDone` goes on with a field that it did not begin with. The
driver tells fields apart by their ids, so this happens when two fields have one
id and the first packet of the second is lost: after 256 fields that were lost
whole, or after a restart, which resets neither `_currentFrameId` nor
`_packetsDone`. Such a frame can be flagged complete and have lines of two
fields, or none in some places. It is the exception that `CompleteIsOneField`
and `LastFieldWhole` name, and `MixesByCollision` says that nothing else leads to
it.

### LightweightSemaphore and ProcessQueue

One action per atomic operation on `m_count` and `m_sema`: `tryWait`, the spin,
the `fetch_sub` that announces a waiter, the sleep, and in `signal` the
`fetch_add` and the post to the semaphore of the OS. `Semaphore` has one number;
`PermitSpec` says that the two words together behave like it.

`ProcessQueue` follows `try_enqueue` and `enqueue` of an implicit producer
(`FindProducer`, the block index, the block, the write, the tail, the signal)
and `try_dequeue` and `wait_dequeue` (the permit, the search over sub-queues,
the claim, the read, the block that is emptied and freed) in the three threads
of the driver, for sessions that follow each other with the queue kept, as
`startStreaming` keeps it. A URB thread gets the id of an earlier thread or a
new one, as pthreads may. What is left out of `concurrentqueue.h`: explicit
producers, tokens, bulk operations, moves, timed waits and the growth of a block
index, which the driver does not use or reach; memory is sequentially
consistent; the lock-free free list is a set changed in one step. The driver has
one dequeuer at a time (the process thread, and control when that is gone), so
that a claim of an element is never taken back.

### BulkTransfer and BulkUrbs

`BulkTransfer` is the loops of `bulkTransfer`, `bulkRead` and `bulkWrite`, with a
device that moves any part of a piece or fails. The last retry of `bulkRead` is
thrown away as in the code (`AndroidUsbDevice.cpp:168`): the check of the count
comes before the look at the result. `TransferResult` says what a failed transfer
drops; that a read should drop nothing is `ReadReturnsRead`, which
`read_dropped` refutes.

`BulkUrbs` is one URB, whole or a series, through `submitBulkUrb`,
`discardBulkUrbs`, `killUrb`, the reader and its callback, `resubmitUrb`,
`freeBulkUrbs`. Between its calls for the URB the caller may be in a synchronous
transfer (`Transfers`), while the URB and its thread are under way; a transfer
takes no mutex and touches nothing of theirs. usbdevfs is external: it cancels the continuations after a part
that failed, and refuses further ones until a first part comes. As in the code:
one callback for each remaining part after an error; `freeBulkUrbs` frees
nothing, its comparison being the wrong way round; a submission that fails
deletes a series whose earlier parts are still to be reaped (`ReapDeletedUrb`
ends in `crashed`). `disturbed` marks a URB of which a part was discarded,
killed or refused: its success may have a hole, since usbdevfs completes the
parts around it. The branch of the reap loop that resubmits after an error is
not modelled: `ioctl` returns -1 and no case matches. Nor are addresses: each
part gets the address past the end of the buffer (`:394`).

`Resubmits` says what a client may ask for after an error. The run has
`{TRUE}`, a client that resubmits after a success only. One that also resubmits
after an error does so once for each callback of a failed series, the first time
while parts are still with usbdevfs: with `{TRUE, FALSE}` TLC finds `UrbOnce`
violated.

### UsbTvSession and DriverOwner

Each instance has a handler thread with a queue; `open` and the broadcast run on
the main thread under `OPEN_LOCK`, a close holds it over its steps. The native
driver is a pointer (`driver`, with who made it), and `initialize` looks at it in
one step (`FindsNoDriver`) and assigns it in another (`Construct`). As in the
code: a granted permission calls `onOpen(null, ...)` before anything was opened;
an instance that fails leaves its connection open at some of the errors; a
denial removes an open instance of the same device from the list as well;
`stopStreaming` of an instance stops whatever the pointer points to.

Of the stream the native driver has one of three things (`active`): none, a
stream, or `"half"`. The last is what a start leaves whose first
`setInterface(0, 0)` failed (`UsbTvDriver.cpp:136-140`): `_streamActive` is set and
there is no stream. The next start of a half driver returns true at once, and
`mIsStreaming` is set; only a stop ends it. A native stop is a place of its handler
(`stopping`, `restarting`, `stop`, or `dispose` of a driver that streams), and
nothing makes it return. A stop on the handler resets `mIsStreaming` after it, a
close before it.

`DriverOwner` has the owner, who the driver streams for, who believes that it
does, and whether it is wedged. `streaming` is mapped from `active`, not from
what any instance believes, and `believes` from `mIsStreaming` alone (and from the place of a close in its stop),
so that a step after which they disagree is a step that `DriverOwner` must have:
it has one, of a wedged driver.

`SET_CONTROL` sends a message without its `ColorControl`, so that
`handleMessage` throws: it is not modelled.

Two constants name what the client has to do, because without it the code is
wrong. With `SerialOpens = FALSE` a second `open` replaces an instance whose
`OPEN_DEVICE` is still queued, and two handlers are in `initialize` at once: both
find no driver, and the second overwrites the pointer of the first. With
`QuietClosed = FALSE` a closed instance takes `START_STREAMING` and starts the
driver of another. TLC finds `OpenOwnsDriver` or `DriverSpec` violated in both.

## 3. Runs

| run | instance | shows |
|---|---|---|
| `driver` | 3 frames, 2 sessions, failing starts, quiescent client, under fairness | `Exclusive`, `LockConserved`, `NoDanglingFrame`, `CleanStop`, `StreamingIsReal`, `ReaderSpec`; fetch, queue and stop make progress |
| `usbdev` | 3 URBs, 3 inits, unplug, lost resubmissions, under fairness | `LiveUrbs`, `UrbsAccounted`, `ReaderSpec`, `JoinProgresses` |
| `fields` | fields of 2 lines (3 packets), 4 packets sent, 5 fields, 3 frame ids, a restart with any scan type and id | writes stay in the buffer (`TypeOK`), complete frames are whole with every line in its place unless two fields of one id were counted together, which takes a cycle of ids or a restart (`MixesByCollision`), even fields discarded, pairs recovered |
| `queue` | 3 sessions, blocks of 2, 6 frames, URB threads with old or new ids, under fairness | `BlocksAccounted`, `PermitBacked`, `WakeupsBalance`, `DrainedAtEnd`, `TakesInOrder`, `PermitSpec`; a waiter wakes and a stop ends |
| `bulk` | pieces of 2, transfers up to 5, 2 retries, between the calls for a URB whole or in 3 parts, submitted 3 times, 2 faults, under fairness | `TransferResult`, `SuccessIsWhole`, `UrbOnce`, `CalledBack` |
| `session` | 2 devices, 3 instances, 2 messages, starts that fail half-way, stops that hang, under fairness | `OpenOwnsDriver`, `DriverSpec`, `Answered` |

Runs that end in a counterexample, each to something the code says of itself:

| run | what the code says | what happens |
|---|---|---|
| `stop_hangs` | "it will break so the thread can quit" (`UsbTvDriver.cpp:470`) | the thread waits in `resubmitUrb` for the mutex with which `stopUrbAsyncRead` joins it; `UsbTv.java:543` wonders about the hang |
| `processed_again` | "it shouldn't be processed again" (`UsbTvDriver.cpp:492`) | the frame a fetch returns without a lock is enqueued while it is queued |
| `freed_urb` | "Removes iso transfers from usbdevfs" (`AndroidUsbDevice.cpp:543`) | they stay to be reaped, and are freed |
| `interleaved_entire` | "only render after an entire frame is received" (`UsbTvDriver.cpp:639`) | the second field overwrites the flags of a partial first |
| `read_dropped` | "For reads the number of bytes read will be returned" (`AndroidUsbDevice.cpp:120`) | `bulkRead` returns -1 after a piece that timed out, and drops the pieces before it |
| `queue_starved` | "Frame Dropped, no space in process Queue" (`UsbTvDriver.cpp:735`) | after a restart the URB thread has a new id, its new sub-queue gets no block, and an empty queue refuses every frame |

Two more cfgs are kept for a run by hand and end in counterexamples too.
`UsbTvDriver_Dropped.cfg` checks `DroppedFrameReleased`: the code says "do
nothing except release the lock" of a frame without a listener
(`UsbTvDriver.cpp:757`), and no lock is released, so that the pool runs out.
`AndroidUsbDevice_Lost.cfg` checks `LostDeviceEndsThread`: the code says "I need
to signal an Exit" (`AndroidUsbDevice.cpp:852-853`), but no case of the switch
matches -1 and the thread spins.

More disagreements need no cfg, since constants turn them on.

* `ClientQuiesces = FALSE` in `UsbTvDriver`: the client may return a frame after
  a restart. `clearFrameLock` knows it by its index only and unlocks a frame of
  the new pool that somebody has (`Exclusive` fails).
* `SerialOpens = FALSE` or `QuietClosed = FALSE` in `UsbTvSession`, and
  `Resubmits = {TRUE, FALSE}` in `BulkUrbs`: section 2.

This is why `driver`, `session` and `bulk` have the clients they have.

A start that fails at its first `setInterface(0, 0)` is in `driver` and `session`
without a constant. The next start then returns true without a pool or a thread,
which is the exception that `StreamingIsReal` and `DriverSpec` name, and a stop
runs with an `_usbInputFrame` that was never set (`StopDrainsWild`).

### Bounds

* `PoolSize`: 3 is one frame written, one queued and one with the client at
  once, with all locked as the search wraps; 2 is the smallest with a stream
  that moves. The proofs have no bound but the 255 of the code's `uint8_t`.
* `MaxSessions` 2 of `UsbTvDriver`: a pool, its end, and a pool after it, which
  is all a restart is about.
* `QueueCapacity` 3: the queue of the code has room for the pool; a duplicate
  can fill it, and `try_enqueue` may fail at any length.
* `NumTransfers` 3, `MaxInits` 3: every URB in another place, and two
  generations of freed URBs. The code has 16 (proved for any number).
* `FieldLines` 2 (240 or 288 in the code): 3 packets, a first, a last and one
  that is split over two lines. `DevicePackets` 4 is one beyond the field.
  `MaxFields` 5 has two frames before and after a loss, and more fields than
  `NumIds` 3 (256 in the code), so that ids come again; `MaxRestarts` 1 is a change
  of the scan type with the counters of the old one. Proved for any even number
  of lines, of ids, of fields and of restarts.
* `BlockSize` 2 (32 in the code) crosses a block every other frame; `MaxFrames`
  6 fills, empties and reuses three blocks; `IndexSize` 2 wraps the block index;
  three sessions let an id be reused after another was used between. The
  semaphore is proved for any set of threads, the queue for any values of its
  constants.
* `MaxSize` 2 (16384 in the code), `MaxLength` 5: two whole pieces and a rest.
  `MaxRetries` 2: a retry that is looked at and the last one, which is not.
  `Parts` 3: a first, a middle and a last part of a series, so that a failure can
  leave parts before and after it. `MaxRounds` 3 is a submission after a failed
  and after a successful one. Proved for any sizes, parts, rounds and faults.
* `Devices` 2, `MaxOpens` 3: one instance replaces another of the same device
  while a third has another device. `MaxMessages` 2 messages wait in a queue: a
  close behind a start, a stop or a restart. Proved for any of them.

`CHECK_DEADLOCK FALSE` everywhere: a disposed or crashed driver stops, a client
need not call again, bounds stop the device, and the deadlock of `stop_hangs` is
real; that a stop ends is checked as liveness instead.

### Fairness

* `UsbTvDriver`: weak fairness of each thread (the OS schedules what can run),
  but not of the return from `REAPURB`: the kernel may have no URB to give back,
  as after every resubmission failed. Weak fairness of each return by the client of a frame it has, without which
  `FetchTerminates` says nothing. Strong fairness of `UrbPacketsDone`: a URB
  carries finitely many packets, so a callback cannot complete fields for ever.
  Nothing makes Java send a message or the client render.
* `AndroidUsbDevice`: weak fairness of the thread, of a join that can end, and
  of the device completing what it was given. Not of an unplug.
* `ProcessQueue`: weak fairness of each of the three threads. Nobody has to
  start a stream or to have a frame.
* `BulkUrbs`: weak fairness of a call that has begun, of the URB thread, and of
  usbdevfs completing what it has. Nobody has to call, stop or fail.
* `UsbTvSession`: weak fairness of each handler thread while it is not in a native
  stop, which need not return. Nobody has to open, to answer a dialog or to send a
  message.

The properties name the exceptions rather than assume them away:
`UrbJoinProgresses` the mutex (`upc = "resubmit"`) and a `REAPURB` that does not
return, `JoinProgresses` the mutex and a `REAPURB` after every URB was lost,
`Answered`, of a close, a native stop that some handler never leaves. They do not
say that a stop ends; `stop_hangs` shows that it need not. `StopEnds` of `ProcessQueue` is about the process thread
and the queue only, with the URB thread joined before, as in the code.

## 4. Proofs

Eight modules, one per component, each an inductive invariant and what follows
from it. Assumptions are the named ones of the modules (`DriverAssumption`,
`QueueAssumption`, ...), which TLC evaluates in every run, and those stated here.

### UsbTvDriver

`IInv` has two halves. `Control` holds for every client: what the place of the
control thread says about pool, threads, queue and mutex (`Phases`), how a
thread's place relates to its flag (`Threads`), that nothing exists without a
pool (`QuietWithoutPool`), that a stream has an input frame
(`InputIsFrame`). `ClientAway` and `Owned` hold for a client that stops its
renderer before a stop (assumption `ClientQuiesces`, which the samples intend:
`usbtvsample1`'s `FullscreenActivity.java:290-295` gives the reason).

`Exclusive` alone is not inductive: a fetch finds an unlocked frame, and that
it has no user follows only from every user having its lock (`HeldIsLocked`),
which a return preserves only if a frame has one user. So the two go together;
and that a return clears a lock of the pool the frame came from needs
`h[1] = session`, hence `ClientAway`, hence where the control thread is.

* `TypeCorrect`, `StopsClean`: for every client, pool size, queue and number of
  sessions.
* `StreamsAreReal`: for every client. `StreamingIsReal` speaks of an idle control
  thread only; the invariant `Agrees` adds that a start finds a driver which is
  not active, or was left active by a start that failed at its first
  `setInterface(0, 0)` (`halfStarted`), so that `StartAlreadyActive` claims a success
  without a stream only then.
* `Invariance`, `FramesExclusive`, `LocksConserved`, `FramesNotDangling`: under
  `ClientQuiesces`, without which they are false (section 3).
* `DriverReads`: `Spec => ReaderSpec`.

### AndroidUsbDevice

The invariant adds to the checked ones that URBs of past generations are not in
flight and the thread's phases; `TypeCorrect`, `LiveUntilDone`, `Accounted` and
`DeviceReads` hold for any number of transfers and inits.

### FrameLayout and FieldAssembly

`InBuffer`, `NoOverlap` and `LineInPlace` are about the layout alone, for every
even number of lines: no part of a packet is written beyond the buffer, no two
parts to one place, and line k of a field is line k of the picture, or of its
half of it.

The invariant of the driver over it turns on one fact, `Counted`: while the count
is of the field that comes and of no other (`Counting`), it is never more than the
number of the next packet. So when as many were counted as a field has, none is
missing, and by `InPlace` the buffer has them all: `OneField`, `LastField`.
`NoEvenField` needs that a discarded field leaves nothing (`NoEven`), `Pairing` that
after a whole field the driver waits for the other half (`Paired`); a field that
arrives whole begins with its first packet and so is counted alone. They hold,
with `FieldTypeOK`, for any number of fields, ids, restarts and packets that the
device sends, which is at the price of the exception `mixed` in the two about
complete frames. When that exception occurs is `MixesByCollision`, which is
model-checked.

### LightweightSemaphore and ProcessQueue

`WakeupsBalance`, that as many threads sleep as a negative count, tokens and
posts to come account for, is inductive with the types. Each step moves one
thread into or out of one of two sets (lemma `Moves`), which is arithmetic on
cardinalities. With it a step maps to a step of `Semaphore` or a stutter
(`ImplementsSemaphore`): its value is the count plus the threads that are
blocked. `ProcessQueueProofs` shows that each step of the queue is a step of the
semaphore by the thread that takes it, or leaves it alone
(`QueueUsesSemaphore`); the theorems of the semaphore then hold of the queue
(`QueueWakeupsBalance`, `QueuePermits`).

The rest of the module is about the sub-queues, for any block size, index,
capacity, thread ids and number of sessions. No property of section 3 is
inductive; `QueueInv` has these parts, each needed by the next:

* `PermitsInv`: where the three threads can be at once (`Phases`: one enqueuer
  and one dequeuer), what a thread midway has (`Claims`), and that elements are
  permits and threads midway (`PermitBacked`). Since a permit is backed, a
  thread that scans finds an element (`ScansFind`), and since the last permit is
  gone when a drain ends, nothing is left (`StopsDrain`).
* `Rings`: the entries of a block index in use are a stretch `First(p)..Last(p)`
  of block numbers, entry `j` at `j % IndexSize` with base `j * BlockSize`. It is
  this that makes `SlotOf`, which computes an entry from the newest one, find
  the block of an element, across wraps of the ring and refused enqueues, which
  leave a stale key behind. `Kept` and `Opened` move the ends while a block is
  being emptied or added; `Boundaries` has new blocks begin at a boundary.
* `Owned`: a block has one owner; all that were handed out have one. This gives
  `NoBlockLost`; with `AtRest` it survives the deletion of the queue.
* `Counts`: a block counts as many elements taken as the head has passed in it,
  so that the one who takes the last, and nobody else, frees it. This needs that
  no two entries have one block, so that only its own elements are counted.
* `Contents` and `Totals`: element `i` of the sub-queue of the URB thread is the
  frame that is as far from the last one sent as `i` is from the tail, and only
  that sub-queue and the one of control have elements. Hence `FramesInOrder`.
  A write does not touch a cell that is waited for, since its block is in one
  entry; a URB thread with a new id starts when the old sub-queue is empty.

`QueueTypeOK` follows too: that the head is never further back than the index
reaches is the length of the ring. The proofs are about arithmetic of `\div` and
`%` (lemmas `DivMod` to `Successor`), about the ring alone (`RingRoom` to
`RingClears`), then one lemma per action and part.

### BulkTransfer

`TransferIsRight`: count and rest add up to the size, bytes moved are the count
while a transfer goes on, and each try so far of a piece failed. Hence for every
length, piece and number of retries a transfer stays in its buffer; one that
returns says what was moved; one that fails drops what the pieces before moved, and
at most one piece more; and a read fails only after all its retries.

### BulkUrbs

The invariant `UInv` follows the parts of a round: each is still to be
submitted, with usbdevfs, waiting to be reaped or reaped, none is in two places,
and usbdevfs has them in the order of the series (`Placed`). Since usbdevfs cancels
the continuations of a part that failed, the last part comes back good only when
all before it did, unless something was discarded or refused; hence
`SuccessesAreWhole`, and hence all parts are back when the callback of a good
series asks for it again, so that none is submitted twice (`UrbsAreOnce`). Who
has `_urbMutex` (`Mutex`) keeps a discard, a kill and a resubmission of a series
apart. `BulkTypeOK` is the bound on the length that is added up. The three
assume `CarefulClient`, a client that resubmits after a success only, without
which `UrbOnce` is false (section 2); they hold for any number of parts, rounds
and faults, with synchronous transfers at any time between the calls.

### UsbTvSession

An instance goes through phases (`Phases`): fresh, queued, initializing, open,
closing, over. At most one is between its open and the answer to it
(`OneOpens`), and the one that has the driver knows it (`Driving`). Who believes
in a stream has the driver; a stream that is there has a believer, and one that is
not has none, unless the driver is half started (`Streaming`).
That a second instance opens only when no other has the driver follows from
`OPEN_LOCK` being held over a close and from `PoliteClient`, that is
`SerialOpens` and `QuietClosed`; without either the theorems are false
(section 2). `SessionTypes`, `OpenHasDriver` and the refinement `OwnedDriver`,
`Spec => DriverSpec`, hold for any devices, instances and messages.

### Model-checked only

* Liveness under fairness, which is out of the prover's reach: `FetchTerminates`,
  `QueueDrains`, `UrbJoinProgresses`, `StopTerminatesAfterUrb`, `JoinProgresses`,
  `WaiterWakes`, `StopEnds`, `CalledBack`, `Answered`.
* `MixesByCollision`, an action property: a proof needs that ids run in a cycle,
  which is arithmetic modulo the number of ids over all the fields in between.
* The counterexamples.

## 5. Not modelled, and why

* `setRegisters`, the register tables, `setTvInput`: sequences of constants that
  are written to the device; only that they may fail has an effect on the
  models. `controlTransfer`, `setInterface` and `isoReadSync` are single ioctls.
  `setControl` and `getControl` are empty in the code.
* JNI lookups, thread attachment, reference counts of Java objects, profiling,
  logging.
* Of the vendored queue what the driver does not use: explicit producers,
  tokens, bulk operations, moves, timed waits, the growth of the block index and
  of the producer hash. Its memory orders: the models are sequentially
  consistent.
* Several bulk URBs at once and addresses within their buffers. Nothing in the
  repository submits one.
* `returnFrameToPool` of a client thread racing `dispose`: `usbtv.cpp` uses the
  pointer after a null check and no module has both the pointer and the client.
* The renderers and activities of the samples are example code. `UsbTvDriver` has
  the most general client instead, which may keep any frame or return it at any
  time; whether a renderer is a client that `ClientQuiesces` describes is not
  shown.
* The size of an iso packet: `onUrbReceived` walks a URB with the length of the
  packet before, which is right only because all have the same.
* Pools above 255 frames: `allocateFramePool` would never end
  (`UsbTvDriver.cpp:413`, a `uint8_t` index); the model assumes the size.

Every invariant and every refinement that a passing run checks is a theorem
(`TransferResult` of `BulkTransfer`, whose steps are all that `Transfers` of
`BulkUrbs` takes). What would come next: `MixesByCollision`, the bulk URBs with a
client that also resubmits after an error, from the condition under which that is
safe, and the renderers as clients of `UsbTvDriver`.
