-------------------------- MODULE AndroidUsbDevice --------------------------
(***************************************************************************)
(* The isochronous half of AndroidUsbDevice: the URBs it allocates, its    *)
(* thread that reaps and resubmits them, _urbMutex, and the usbdevfs of    *)
(* the kernel that holds them in between.                                  *)
(*                                                                         *)
(* A URB is <<n, i>>: the i-th that the n-th initIsoUrbs allocated.  The   *)
(* control thread calls as UsbTvDriver does: initIsoUrbs, then             *)
(* startUrbAsyncRead, then stopUrbAsyncRead, and at last the destructor.   *)
(* The kernel is external: a submitted URB is in flight until the device   *)
(* has filled it or it is discarded; then it is done, and stays with       *)
(* usbdevfs until REAPURB gives it back.                                   *)
(***************************************************************************)
EXTENDS Naturals, FiniteSets

CONSTANTS
  NumTransfers,   \* USBTV_ISOC_TRANSFERS
  MaxInits        \* bound: how often initIsoUrbs is called

ASSUME DeviceAssumption == NumTransfers \in Nat \ {0} /\ MaxInits \in Nat

VARIABLES
  ctl,        \* where the control thread is
  inits,      \* how often initIsoUrbs was called
  pool,       \* _isoUrbPool
  submitted,  \* _isoUrbsSubmitted
  freed,      \* URBs that were deleted
  running,    \* _urbThreadRunning
  mutexHeld,  \* does the control thread hold _urbMutex
  upc,        \* where the URB thread is; "none" iff _urbThread = nullptr
  urb,        \* `urb` of the URB thread: a set of at most one
  inflight,   \* URBs the kernel may write to
  done,       \* URBs that wait to be reaped
  gone,       \* was the device unplugged
  lost        \* history: URBs of the pool whose resubmission failed

kernelVars == <<inflight, done, gone>>
poolVars   == <<inits, pool, submitted, freed>>
threadVars == <<running, mutexHeld, upc, urb>>
vars == <<ctl, poolVars, threadVars, kernelVars, lost>>

Urbs == (1..MaxInits) \X (1..NumTransfers)
CtlStates == {"idle", "inited", "streaming", "joining", "deleted", "crashed"}
UrbThreadStates ==
  {"none", "loop", "reap", "callback", "resubmit", "submit", "exit"}

Init ==
  /\ ctl = "idle" /\ inits = 0
  /\ pool = {} /\ submitted = 0 /\ freed = {}
  /\ running = FALSE /\ mutexHeld = FALSE /\ upc = "none" /\ urb = {}
  /\ inflight = {} /\ done = {} /\ gone = FALSE /\ lost = {}

-----------------------------------------------------------------------------
(***************************************************************************)
(* The control thread.  The kernel is never asked by two threads at once   *)
(* in initIsoUrbs: the URB thread was joined before.                       *)
(***************************************************************************)

\* Mutant: the count is reset, the ioctl is forgotten.
DiscardIso_NoIoctl(p) == UNCHANGED <<inflight, done>>

\* discardIsoUrbs: USBDEVFS_DISCARDURB kills what is in flight, and leaves it
\* to be reaped.
DiscardIso(p) ==
  /\ inflight' = inflight \ p
  /\ done' = done \cup (inflight \cap p)

\* What initIsoUrbs discards of an earlier stream: nothing if the count says
\* that there is nothing.
Discarded == IF submitted > 0 THEN inflight \cap pool ELSE {}

\* Mutant: the loop allocates one URB too many.
NewUrbs_OneMore == {inits + 1} \X (1..(NumTransfers + 1))

NewUrbs == {inits + 1} \X (1..NumTransfers)

\* The old URBs are discarded and deleted, the new ones submitted.
InitIso ==
  /\ ctl = "idle" /\ inits < MaxInits /\ ~mutexHeld /\ ~gone
  /\ pool' = NewUrbs
  /\ inflight' = (inflight \ Discarded) \cup NewUrbs
  /\ done' = done \cup Discarded
  /\ submitted' = NumTransfers
  /\ freed' = freed \cup pool /\ lost' = {}
  /\ inits' = inits + 1
  /\ ctl' = "inited"
  /\ UNCHANGED <<threadVars, gone>>

\* Not all of the new URBs can be submitted: those that were are discarded
\* and deleted too.  startStreaming fails.
InitIsoFails ==
  /\ ctl = "idle" /\ inits < MaxInits /\ ~mutexHeld
  /\ \E n \in 0..(NumTransfers - 1) :
       LET new == {inits + 1} \X (1..n)
       IN  /\ gone => n = 0
           /\ done' = done \cup Discarded \cup new
           /\ freed' = freed \cup pool \cup new
  /\ inflight' = inflight \ Discarded
  /\ pool' = {} /\ submitted' = 0 /\ lost' = {}
  /\ inits' = inits + 1
  /\ UNCHANGED <<ctl, threadVars, gone>>

StartUrbAsyncRead ==
  /\ ctl = "inited" /\ upc = "none" /\ ~mutexHeld
  /\ running' = TRUE /\ upc' = "loop"
  /\ ctl' = "streaming"
  /\ UNCHANGED <<poolVars, mutexHeld, urb, kernelVars, lost>>

\* stopUrbAsyncRead, up to its join and from there on.
StopUrbAsyncRead ==
  /\ ctl = "streaming" /\ ~mutexHeld
  /\ mutexHeld' = TRUE /\ running' = FALSE
  /\ ctl' = "joining"
  /\ UNCHANGED <<poolVars, upc, urb, kernelVars, lost>>

\* Mutant: the thread is deleted without a join.
JoinUrbThread_Detached ==
  /\ ctl = "joining"
  /\ upc' = "none" /\ mutexHeld' = FALSE
  /\ DiscardIso(pool) /\ submitted' = 0
  /\ ctl' = "idle"
  /\ UNCHANGED <<inits, pool, freed, running, urb, gone, lost>>

JoinUrbThread ==
  /\ ctl = "joining" /\ upc = "exit"
  /\ upc' = "none" /\ mutexHeld' = FALSE
  /\ DiscardIso(pool) /\ submitted' = 0
  /\ ctl' = "idle"
  /\ UNCHANGED <<inits, pool, freed, running, urb, gone, lost>>

\* The destructor, after ~UsbTvDriver has stopped the stream: freeIsoUrbs.
Destroy ==
  /\ ctl = "idle"
  /\ IF submitted > 0 THEN DiscardIso(pool) ELSE UNCHANGED <<inflight, done>>
  /\ freed' = freed \cup pool /\ pool' = {} /\ lost' = {}
  /\ ctl' = "deleted"
  /\ UNCHANGED <<inits, submitted, threadVars, gone>>

-----------------------------------------------------------------------------
(***************************************************************************)
(* The URB thread: reapUrbAsync.                                           *)
(***************************************************************************)

TestRunning ==
  /\ upc = "loop"
  /\ upc' = IF running THEN "reap" ELSE "exit"
  /\ UNCHANGED <<ctl, poolVars, running, mutexHeld, urb, kernelVars, lost>>

\* Mutant: the URB goes back to the kernel before its callback.
ReapUrb_ResubmitsFirst(u) ==
  /\ upc = "reap" /\ u \in done \ freed
  /\ done' = done \ {u} /\ inflight' = inflight \cup {u}
  /\ urb' = {u} /\ upc' = "callback"
  /\ UNCHANGED <<ctl, poolVars, running, mutexHeld, gone, lost>>

\* USBDEVFS_REAPURB waits until there is a URB that is done.
ReapUrb(u) ==
  /\ upc = "reap" /\ u \in done \ freed
  /\ done' = done \ {u}
  /\ urb' = {u} /\ upc' = "callback"
  /\ UNCHANGED <<ctl, poolVars, running, mutexHeld, inflight, gone, lost>>

\* The kernel writes its results to memory that was freed, and the thread
\* takes its callback from there.  What follows is undefined: it ends here.
ReapFreedUrb(u) ==
  /\ upc = "reap" /\ u \in done \cap freed
  /\ ctl' = "crashed"
  /\ UNCHANGED <<poolVars, threadVars, kernelVars, lost>>

\* Mutant: the ioctl is tried again without a look at _urbThreadRunning.
ReapFails_Retries ==
  /\ upc = "reap" /\ gone /\ done = {}
  /\ UNCHANGED vars

\* Without a device and without a URB the ioctl fails.  libc returns -1 for
\* every error, so that no case of the switch but the default matches, and
\* there is no URB to resubmit.
ReapFails ==
  /\ upc = "reap" /\ gone /\ done = {}
  /\ upc' = "loop"
  /\ UNCHANGED <<ctl, poolVars, running, mutexHeld, urb, kernelVars, lost>>

\* onUrbReceived, until it calls resubmitUrb.
CallbackDone ==
  /\ upc = "callback"
  /\ upc' = "resubmit"
  /\ UNCHANGED <<ctl, poolVars, running, mutexHeld, urb, kernelVars, lost>>

\* resubmitUrb resets the URB under the mutex and submits it after it.
ResubmitUrb ==
  /\ upc = "resubmit" /\ ~mutexHeld
  /\ upc' = "submit"
  /\ UNCHANGED <<ctl, poolVars, running, mutexHeld, urb, kernelVars, lost>>

SubmitUrb ==
  /\ upc = "submit" /\ ~gone
  /\ inflight' = inflight \cup urb
  /\ urb' = {} /\ upc' = "loop"
  /\ UNCHANGED <<ctl, poolVars, running, mutexHeld, done, gone, lost>>

\* Nobody looks at the result of resubmitUrb: the URB is not submitted again.
SubmitUrbFails ==
  /\ upc = "submit"
  /\ lost' = lost \cup urb
  /\ urb' = {} /\ upc' = "loop"
  /\ UNCHANGED <<ctl, poolVars, running, mutexHeld, kernelVars>>

-----------------------------------------------------------------------------
(***************************************************************************)
(* The kernel and the device.                                              *)
(***************************************************************************)

Complete(u) ==
  /\ u \in inflight
  /\ inflight' = inflight \ {u} /\ done' = done \cup {u}
  /\ UNCHANGED <<ctl, poolVars, threadVars, gone, lost>>

Unplug ==
  /\ ~gone /\ gone' = TRUE
  /\ inflight' = {} /\ done' = done \cup inflight
  /\ UNCHANGED <<ctl, poolVars, threadVars, lost>>

-----------------------------------------------------------------------------
Ctl == InitIso \/ InitIsoFails \/ StartUrbAsyncRead \/ StopUrbAsyncRead
       \/ JoinUrbThread \/ Destroy

UrbThread == TestRunning \/ ReapFails \/ CallbackDone \/ ResubmitUrb
             \/ SubmitUrb \/ SubmitUrbFails
             \/ \E u \in done : ReapUrb(u) \/ ReapFreedUrb(u)

Kernel == Unplug \/ \E u \in inflight : Complete(u)

Next == ctl # "crashed" /\ (Ctl \/ UrbThread \/ Kernel)

Spec == Init /\ [][Next]_vars

\* The URB thread runs, a join that can end does, and the device completes
\* what it was given.  Nobody has to start, stop or unplug.
FairSpec ==
  /\ Spec
  /\ WF_vars(UrbThread) /\ WF_vars(JoinUrbThread)
  /\ WF_vars(\E u \in inflight : Complete(u))

-----------------------------------------------------------------------------
\* Every variable keeps its type.
TypeOK ==
  /\ ctl \in CtlStates /\ inits \in 0..MaxInits
  /\ pool \subseteq Urbs /\ submitted \in 0..NumTransfers
  /\ freed \subseteq Urbs
  /\ running \in BOOLEAN /\ mutexHeld \in BOOLEAN
  /\ upc \in UrbThreadStates /\ urb \subseteq Urbs
  /\ inflight \subseteq Urbs /\ done \subseteq Urbs /\ gone \in BOOLEAN
  /\ lost \subseteq Urbs

\* Nothing is deleted under its user: not a URB that the device fills, and not
\* one that the URB thread was given.  What is done and was not reaped may be
\* deleted, and REAPURB would still write to it: see NoFreedUrbReaped.
LiveUrbs == (inflight \cup urb) \cap freed = {}

\* Each URB of _isoUrbPool is in exactly one place: with the device, done, with
\* the thread, or lost by a resubmission that failed.  So the callback reads a
\* buffer that the device does not write, and a stop finds all that it has to
\* discard.
UrbsAccounted ==
  /\ pool = inflight \cup (done \ freed) \cup urb \cup lost
  /\ inflight \cap (done \cup urb \cup lost) = {}
  /\ done \cap (urb \cup lost) = {}
  /\ urb \cap lost = {}
  /\ urb # {} => upc \in {"callback", "resubmit", "submit"}

\* What AndroidUsbDevice promises to its driver.
Reader == INSTANCE UrbReader WITH
  phase <- IF upc = "none" THEN "off"
           ELSE IF running THEN "on" ELSE "stopping",
  busy  <- upc \in {"callback", "resubmit", "submit"}

\* No callback runs before the start, two at a time, or after the stop.
ReaderSpec == Reader!Spec

\* A stop gets its thread, unless the thread waits for the mutex that the stop
\* holds, or sits in REAPURB after every URB was lost by a resubmission whose
\* result nobody looked at.
JoinProgresses ==
  (ctl = "joining") ~>
     \/ ctl \in {"idle", "crashed"}
     \/ upc = "resubmit"
     \/ upc = "reap" /\ ~gone /\ done = {} /\ lost = pool

-----------------------------------------------------------------------------
\* AndroidUsbDevice.cpp:543, of discardIsoUrbs: "Removes iso transfers from
\* usbdevfs if they are submitted".  So usbdevfs has no URB that was deleted,
\* and none is reaped.
NoFreedUrbReaped == ctl # "crashed"

\* AndroidUsbDevice.cpp:852, of the errors that mean the device is lost: "I
\* don't think these errors are recoverable.  I need to signal an Exit", and
\* _urbThreadRunning = false.
LostDeviceEndsThread ==
  (gone /\ upc = "reap" /\ done = {}) ~> (~running \/ ctl = "crashed")

=============================================================================
