----------------------- MODULE AndroidUsbDeviceProofs -----------------------
(***************************************************************************)
(* The safety properties of AndroidUsbDevice, for every number of URBs and *)
(* of streams, and that it keeps the promises of UrbReader.                *)
(***************************************************************************)
EXTENDS AndroidUsbDevice, TLAPS

\* The control thread and its URB thread.
ThreadPhases ==
  /\ ctl \in {"idle", "inited", "deleted"} => upc = "none" /\ ~mutexHeld
  /\ ctl = "streaming" => running /\ upc \notin {"none", "exit"} /\ ~mutexHeld
  /\ ctl = "joining" => ~running /\ upc # "none"
  /\ upc = "none" => ~running
  /\ upc = "exit" => ~running

\* Where the URBs are.  A URB that is done may have been deleted; every other
\* one is in the pool.
UrbPlaces ==
  /\ UrbsAccounted
  /\ pool \cap freed = {}
  /\ done \subseteq pool \cup freed
  /\ \A u \in pool \cup freed : u[1] \in 1..inits
  /\ ctl \in {"idle", "deleted"} => inflight = {} /\ submitted = 0 /\ urb = {}
  /\ upc \in {"none", "loop", "reap", "exit"} => urb = {}

DeviceInv == TypeOK /\ ThreadPhases /\ UrbPlaces

LEMMA DeviceInit == Init => DeviceInv
<1> SUFFICES ASSUME Init PROVE DeviceInv
  OBVIOUS
<1>1. TypeOK
  <2>1. running \in BOOLEAN /\ mutexHeld \in BOOLEAN /\ gone \in BOOLEAN
    BY Zenon DEF Init
  <2>2. inits \in 0..MaxInits /\ submitted \in 0..NumTransfers
    BY DeviceAssumption DEF Init
  <2> QED BY <2>1, <2>2 DEF Init, TypeOK, CtlStates, UrbThreadStates
<1>2. ThreadPhases
  BY DEF Init, ThreadPhases
<1>3. UrbPlaces
  BY DEF Init, UrbPlaces, UrbsAccounted
<1> QED BY <1>1, <1>2, <1>3 DEF DeviceInv

LEMMA TypeStep == TypeOK /\ [Next]_vars => TypeOK'
<1> SUFFICES ASSUME TypeOK, [Next]_vars PROVE TypeOK'
  OBVIOUS
<1> USE DeviceAssumption
    DEF TypeOK, CtlStates, UrbThreadStates, poolVars, threadVars, kernelVars
<1>1. CASE InitIso
  BY <1>1 DEF InitIso, NewUrbs, Urbs, Discarded
<1>2. CASE InitIsoFails
  BY <1>2 DEF InitIsoFails, Urbs, Discarded
<1>3. CASE StartUrbAsyncRead
  BY <1>3 DEF StartUrbAsyncRead
<1>4. CASE StopUrbAsyncRead
  <2>1. running' \in BOOLEAN
    BY <1>4, Zenon DEF StopUrbAsyncRead
  <2> QED BY <1>4, <2>1 DEF StopUrbAsyncRead
<1>5. CASE JoinUrbThread
  <2>1. mutexHeld' \in BOOLEAN
    BY <1>5, Zenon DEF JoinUrbThread
  <2> QED BY <1>5, <2>1 DEF JoinUrbThread, DiscardIso
<1>6. CASE Destroy
  BY <1>6 DEF Destroy, DiscardIso
<1>7. CASE TestRunning
  BY <1>7 DEF TestRunning
<1>8. CASE ReapFails
  BY <1>8 DEF ReapFails
<1>9. CASE CallbackDone
  BY <1>9 DEF CallbackDone
<1>10. CASE ResubmitUrb
  BY <1>10 DEF ResubmitUrb
<1>11. CASE SubmitUrb
  BY <1>11 DEF SubmitUrb
<1>12. CASE SubmitUrbFails
  BY <1>12 DEF SubmitUrbFails
<1>13. CASE Unplug
  BY <1>13 DEF Unplug
<1>14. CASE \E u \in done : ReapUrb(u)
  BY <1>14 DEF ReapUrb
<1>15. CASE \E u \in done : ReapFreedUrb(u)
  BY <1>15 DEF ReapFreedUrb
<1>16. CASE \E u \in inflight : Complete(u)
  BY <1>16 DEF Complete
<1>17. CASE UNCHANGED vars
  BY <1>17 DEF vars
<1> QED
  BY <1>1, <1>2, <1>3, <1>4, <1>5, <1>6, <1>7, <1>8, <1>9, <1>10, <1>11,
     <1>12, <1>13, <1>14, <1>15, <1>16, <1>17
  DEF Next, Ctl, UrbThread, Kernel

LEMMA PhaseStep == DeviceInv /\ [Next]_vars => ThreadPhases'
<1> SUFFICES ASSUME DeviceInv, [Next]_vars PROVE ThreadPhases'
  OBVIOUS
<1> USE DEF DeviceInv, ThreadPhases, poolVars, threadVars, kernelVars
<1>1. CASE InitIso
  BY <1>1 DEF InitIso, NewUrbs
<1>2. CASE InitIsoFails
  BY <1>2 DEF InitIsoFails
<1>3. CASE StartUrbAsyncRead
  BY <1>3 DEF StartUrbAsyncRead
<1>4. CASE StopUrbAsyncRead
  BY <1>4 DEF StopUrbAsyncRead
<1>5. CASE JoinUrbThread
  BY <1>5 DEF JoinUrbThread
<1>6. CASE Destroy
  BY <1>6 DEF Destroy
<1>7. CASE TestRunning
  BY <1>7 DEF TestRunning
<1>8. CASE ReapFails
  BY <1>8 DEF ReapFails
<1>9. CASE CallbackDone
  BY <1>9 DEF CallbackDone
<1>10. CASE ResubmitUrb
  BY <1>10 DEF ResubmitUrb
<1>11. CASE SubmitUrb
  BY <1>11 DEF SubmitUrb
<1>12. CASE SubmitUrbFails
  BY <1>12 DEF SubmitUrbFails
<1>13. CASE Unplug
  BY <1>13 DEF Unplug
<1>14. CASE \E u \in done : ReapUrb(u)
  BY <1>14 DEF ReapUrb
<1>15. CASE \E u \in done : ReapFreedUrb(u)
  BY <1>15 DEF ReapFreedUrb
<1>16. CASE \E u \in inflight : Complete(u)
  BY <1>16 DEF Complete
<1>17. CASE UNCHANGED vars
  BY <1>17 DEF vars
<1> QED
  BY <1>1, <1>2, <1>3, <1>4, <1>5, <1>6, <1>7, <1>8, <1>9, <1>10, <1>11,
     <1>12, <1>13, <1>14, <1>15, <1>16, <1>17
  DEF Next, Ctl, UrbThread, Kernel

LEMMA PlaceStep == DeviceInv /\ [Next]_vars => UrbPlaces'
<1> SUFFICES ASSUME DeviceInv, [Next]_vars PROVE UrbPlaces'
  OBVIOUS
<1> USE DeviceAssumption
    DEF DeviceInv, UrbPlaces, UrbsAccounted, ThreadPhases, poolVars,
        threadVars, kernelVars
<1>1. CASE InitIso
  <2> DEFINE new == {inits + 1} \X (1..NumTransfers)
  <2>1. inflight = {} /\ submitted = 0 /\ Discarded = {}
    BY <1>1 DEF InitIso, NewUrbs, Discarded
  <2>2. /\ pool' = new /\ inflight' = new /\ done' = done
        /\ freed' = freed \cup pool /\ inits' = inits + 1 /\ inits \in Nat
        /\ UNCHANGED <<urb, upc>> /\ ctl' = "inited" /\ lost' = {}
    BY <1>1, <2>1 DEF InitIso, NewUrbs, TypeOK
  <2>3. urb = {}
    BY <1>1 DEF InitIso, NewUrbs
  <2>4. \A u \in new : u[1] = inits + 1
    OBVIOUS
  <2>5. \A u \in pool \cup freed : u[1] \in 1..inits /\ u[1] # inits + 1
    BY <2>2
  <2>6. new \cap (pool \cup freed) = {}
    BY <2>4, <2>5
  <2>7. \A u \in pool' \cup freed' : u[1] \in 1..inits'
    BY <2>2, <2>4, <2>5
  <2> HIDE DEF new
  <2> QED BY <2>2, <2>3, <2>6, <2>7
<1>2. CASE InitIsoFails
  <2>1. inflight = {} /\ submitted = 0 /\ Discarded = {}
    BY <1>2 DEF InitIsoFails, Discarded
  <2>2. PICK n \in 0..(NumTransfers - 1) :
          /\ done' = done \cup ({inits + 1} \X (1..n))
          /\ freed' = freed \cup pool \cup ({inits + 1} \X (1..n))
    BY <1>2, <2>1 DEF InitIsoFails
  <2> DEFINE new == {inits + 1} \X (1..n)
  <2>3. /\ pool' = {} /\ inflight' = {} /\ inits' = inits + 1
        /\ inits \in Nat /\ UNCHANGED <<urb, upc, ctl>> /\ submitted' = 0
        /\ lost' = {} /\ ctl = "idle" /\ urb = {}
    BY <1>2, <2>1 DEF InitIsoFails, TypeOK
  <2>4. \A u \in new : u[1] = inits + 1
    OBVIOUS
  <2>5. \A u \in pool' \cup freed' : u[1] \in 1..inits'
    BY <2>2, <2>3, <2>4
  <2>6. done' = done \cup new /\ freed' = freed \cup pool \cup new
    BY <2>2
  <2> HIDE DEF new
  <2> QED BY <2>3, <2>5, <2>6
<1>3. CASE StartUrbAsyncRead
  BY <1>3 DEF StartUrbAsyncRead
<1>4. CASE StopUrbAsyncRead
  BY <1>4 DEF StopUrbAsyncRead
<1>5. CASE JoinUrbThread
  BY <1>5 DEF JoinUrbThread, DiscardIso
<1>6. CASE Destroy
  BY <1>6 DEF Destroy, DiscardIso
<1>7. CASE TestRunning
  BY <1>7 DEF TestRunning
<1>8. CASE ReapFails
  BY <1>8 DEF ReapFails
<1>9. CASE CallbackDone
  BY <1>9 DEF CallbackDone
<1>10. CASE ResubmitUrb
  BY <1>10 DEF ResubmitUrb
<1>11. CASE SubmitUrb
  BY <1>11 DEF SubmitUrb
<1>12. CASE SubmitUrbFails
  BY <1>12 DEF SubmitUrbFails
<1>13. CASE Unplug
  BY <1>13 DEF Unplug
<1>14. CASE \E u \in done : ReapUrb(u)
  BY <1>14 DEF ReapUrb
<1>15. CASE \E u \in done : ReapFreedUrb(u)
  BY <1>15 DEF ReapFreedUrb
<1>16. CASE \E u \in inflight : Complete(u)
  BY <1>16 DEF Complete
<1>17. CASE UNCHANGED vars
  BY <1>17 DEF vars
<1> QED
  BY <1>1, <1>2, <1>3, <1>4, <1>5, <1>6, <1>7, <1>8, <1>9, <1>10, <1>11,
     <1>12, <1>13, <1>14, <1>15, <1>16, <1>17
  DEF Next, Ctl, UrbThread, Kernel

LEMMA Invariance == Spec => []DeviceInv
<1>1. DeviceInv /\ [Next]_vars => DeviceInv'
  BY TypeStep, PhaseStep, PlaceStep DEF DeviceInv
<1> QED BY DeviceInit, <1>1, PTL DEF Spec

\* Every variable keeps its type, for every number of URBs and of streams.
THEOREM TypeCorrect == Spec => []TypeOK
BY Invariance, PTL DEF DeviceInv

\* Whatever deletes a URB has taken it from the device and from the URB thread
\* first.
THEOREM LiveUntilDone == Spec => []LiveUrbs
<1>1. DeviceInv => LiveUrbs
  BY DEF DeviceInv, UrbPlaces, UrbsAccounted, LiveUrbs
<1> QED BY <1>1, Invariance, PTL

\* Each URB of the pool is in exactly one place, those that a failed
\* resubmission lost included.
THEOREM Accounted == Spec => []UrbsAccounted
<1>1. DeviceInv => UrbsAccounted
  BY DEF DeviceInv, UrbPlaces
<1> QED BY <1>1, Invariance, PTL

-----------------------------------------------------------------------------
(***************************************************************************)
(* The device implements UrbReader.                                        *)
(***************************************************************************)

LEMMA ReaderInit == Init => Reader!Init
BY DEF Init, Reader!Init

LEMMA ReaderStep == DeviceInv /\ [Next]_vars => [Reader!Next]_(Reader!vars)
<1> SUFFICES ASSUME DeviceInv, [Next]_vars
             PROVE  [Reader!Next]_(Reader!vars)
  OBVIOUS
<1> USE DEF DeviceInv, ThreadPhases, poolVars, threadVars, kernelVars
<1>1. CASE InitIso
  BY <1>1 DEF InitIso, Reader!vars
<1>2. CASE InitIsoFails
  BY <1>2 DEF InitIsoFails, Reader!vars
<1>3. CASE StartUrbAsyncRead
  <2>1. Reader!Start
    BY <1>3 DEF StartUrbAsyncRead, Reader!Start
  <2> QED BY <2>1 DEF Reader!Next
<1>4. CASE StopUrbAsyncRead
  <2>1. Reader!StopBegins
    BY <1>4 DEF StopUrbAsyncRead, Reader!StopBegins
  <2> QED BY <2>1 DEF Reader!Next
<1>5. CASE JoinUrbThread
  <2>1. Reader!StopEnds
    BY <1>5 DEF JoinUrbThread, Reader!StopEnds
  <2> QED BY <2>1 DEF Reader!Next
<1>6. CASE Destroy
  BY <1>6 DEF Destroy, Reader!vars
<1>7. CASE TestRunning
  BY <1>7 DEF TestRunning, Reader!vars
<1>8. CASE ReapFails
  BY <1>8 DEF ReapFails, Reader!vars
<1>9. CASE CallbackDone
  BY <1>9 DEF CallbackDone, Reader!vars
<1>10. CASE ResubmitUrb
  BY <1>10 DEF ResubmitUrb, Reader!vars
<1>11. CASE SubmitUrb
  <2>1. Reader!CallbackEnds
    BY <1>11 DEF SubmitUrb, Reader!CallbackEnds
  <2> QED BY <2>1 DEF Reader!Next
<1>12. CASE SubmitUrbFails
  <2>1. Reader!CallbackEnds
    BY <1>12 DEF SubmitUrbFails, Reader!CallbackEnds
  <2> QED BY <2>1 DEF Reader!Next
<1>13. CASE Unplug
  BY <1>13 DEF Unplug, Reader!vars
<1>14. CASE \E u \in done : ReapUrb(u)
  <2>1. Reader!CallbackBegins
    BY <1>14 DEF ReapUrb, Reader!CallbackBegins
  <2> QED BY <2>1 DEF Reader!Next
<1>15. CASE \E u \in done : ReapFreedUrb(u)
  BY <1>15 DEF ReapFreedUrb, Reader!vars
<1>16. CASE \E u \in inflight : Complete(u)
  BY <1>16 DEF Complete, Reader!vars
<1>17. CASE UNCHANGED vars
  BY <1>17 DEF vars, Reader!vars
<1> QED
  BY <1>1, <1>2, <1>3, <1>4, <1>5, <1>6, <1>7, <1>8, <1>9, <1>10, <1>11,
     <1>12, <1>13, <1>14, <1>15, <1>16, <1>17
  DEF Next, Ctl, UrbThread, Kernel

\* Callbacks run one at a time, and only between a start and the end of a
\* stop.
THEOREM DeviceReads == Spec => ReaderSpec
BY Invariance, ReaderInit, ReaderStep, PTL DEF Spec, ReaderSpec, Reader!Spec

=============================================================================
