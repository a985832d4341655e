------------------------------ MODULE BulkUrbs ------------------------------
(***************************************************************************)
(* Asynchronous bulk transfers of AndroidUsbDevice.  A buffer of at most   *)
(* MAX_USBFS_BULK_SIZE is one URB; a longer one is cut into a series: a    *)
(* first part and continuations, whose lengths reapUrbAsync adds up in the *)
(* main URB until the last part, or one with an error, is reaped.          *)
(*                                                                         *)
(* One URB is followed through submitBulkUrb, the callbacks, resubmitUrb,  *)
(* discardBulkUrbs and killUrb, the stop of the reader, and the            *)
(* destructor.  Its callback submits it again after the statuses in        *)
(* Resubmits.  Between its calls for the URB the same caller makes         *)
(* synchronous transfers.                                                  *)
(*                                                                         *)
(* usbdevfs is external: it refuses continuations after an error until a   *)
(* first part comes, cancels the continuations that follow a part that     *)
(* failed, and keeps what is done until it is reaped.                      *)
(***************************************************************************)
EXTENDS BulkTransfer, SequencesExt

CONSTANTS
  Parts,       \* the parts of a long buffer
  Resubmits,   \* the statuses (TRUE: no error) after which a client resubmits
  MaxRounds,   \* bound: submissions of the URB
  MaxFaults    \* bound: errors of the device and refusals of the kernel

ASSUME BulkAssumption ==
  /\ Parts \in Nat /\ Parts > 1
  /\ Resubmits \subseteq BOOLEAN
  /\ MaxRounds \in Nat \ {0} /\ MaxFaults \in Nat

VARIABLES
  user,       \* what the caller is doing
  next,       \* the part the caller's loop is at
  refused,    \* ~success of submitBulkUrb
  parts,      \* subUrbCount; 1 for a URB that is not a series
  submitted,  \* _bulkUrbsSubmitted
  deleted,    \* was the memory of the URB freed
  mutex,      \* who holds _urbMutex: a set of at most one
  running,    \* _urbThreadRunning
  reader,     \* what the URB thread is doing; "none" iff _urbThread = nullptr
  rnext,      \* the part the thread's loop is at
  length,     \* actual_length of the (main) URB, in parts
  ok,         \* its status
  flight,     \* parts the device works on, in order
  done,       \* parts that wait to be reaped, and whether they are good
  disabled,   \* does usbdevfs refuse continuations
  rounds,     \* how often the URB was submitted
  faults,     \* errors and refusals
  calls,      \* callbacks since the URB was submitted
  disturbed   \* was a part refused or discarded since then

callerVars == <<user, next, refused, parts, submitted, deleted>>
readerVars == <<running, reader, rnext, length, ok>>
kernelVars == <<flight, done, disabled, faults>>
history    == <<rounds, calls, disturbed>>
urbVars    == <<callerVars, readerVars, kernelVars, history, mutex>>
vars       == <<transferVars, urbVars>>

Init ==
  /\ TransferInit
  /\ user = "idle" /\ next = 1 /\ refused = FALSE /\ parts = 1
  /\ submitted = 0 /\ deleted = FALSE /\ mutex = {}
  /\ running = FALSE /\ reader = "none" /\ rnext = 1
  /\ length = 0 /\ ok = TRUE
  /\ flight = <<>> /\ done = <<>> /\ disabled = FALSE /\ faults = 0
  /\ rounds = 0 /\ calls = 0 /\ disturbed = FALSE

-----------------------------------------------------------------------------
(***************************************************************************)
(* usbdevfs.                                                               *)
(***************************************************************************)

Failed(p) == [part |-> p, good |-> FALSE]

\* USBDEVFS_SUBMITURB.  A part that is no continuation ends the refusals.
Submit(p) ==
  /\ p = 1 \/ ~disabled
  /\ flight' = Append(flight, p)
  /\ disabled' = (disabled /\ p # 1)
  /\ UNCHANGED <<done, faults>>

\* Memory may be short at any time: before usbdevfs has looked at the URB, or
\* after it.
Refuse(p) ==
  /\ \/ p > 1 /\ disabled /\ UNCHANGED <<faults, disabled>>
     \/ /\ faults < MaxFaults /\ faults' = faults + 1
        /\ disabled' \in {disabled, disabled /\ p # 1}
  /\ UNCHANGED <<flight, done>>

\* USBDEVFS_DISCARDURB takes a part from the device, and leaves it to be
\* reaped.  It fails for a part that the device does not have.
Discard(p) ==
  /\ \/ /\ \E i \in DOMAIN flight :
             flight[i] = p /\ flight' = RemoveAt(flight, i)
        /\ done' = Append(done, Failed(p))
        /\ disturbed' = TRUE
     \/ /\ \A i \in DOMAIN flight : flight[i] # p
        /\ UNCHANGED <<flight, done, disturbed>>
  /\ UNCHANGED <<disabled, faults>>

Completes ==
  /\ flight # <<>>
  /\ flight' = Tail(flight)
  /\ done' = Append(done, [part |-> Head(flight), good |-> TRUE])
  /\ UNCHANGED <<transferVars, callerVars, readerVars, history, mutex,
                 disabled, faults>>

\* An error, or a short part that is not the last: all that follows is
\* cancelled, and no continuation accepted.
Fails ==
  /\ flight # <<>> /\ faults < MaxFaults
  /\ faults' = faults + 1 /\ disabled' = TRUE
  /\ flight' = <<>>
  /\ done' = done \o [i \in 1..Len(flight) |-> Failed(flight[i])]
  /\ UNCHANGED <<transferVars, callerVars, readerVars, history, mutex>>

-----------------------------------------------------------------------------
(***************************************************************************)
(* The caller.                                                             *)
(***************************************************************************)

callerOnly == <<transferVars, parts, deleted, readerVars, rounds, calls>>

\* The caller is in no call for the URB; the URB, and its thread, may be under
\* way.
Between == user \in {"idle", "submitted", "deleted"}

Transfers ==
  /\ Between /\ TransferNext
  /\ UNCHANGED urbVars

SubmitBulkUrb ==
  /\ user = "idle" /\ op = "idle" /\ mutex = {}
  /\ parts' \in {1, Parts}
  /\ user' = "submit" /\ next' = 1 /\ mutex' = {"caller"} /\ rounds' = 1
  /\ UNCHANGED <<transferVars, refused, submitted, deleted, readerVars,
                 kernelVars, calls, disturbed>>

\* The loop goes on when a part is refused.
SubmitPart ==
  /\ user = "submit" /\ next <= parts
  /\ next' = next + 1
  /\ \/ Submit(next) /\ UNCHANGED <<refused, disturbed>>
     \/ Refuse(next) /\ refused' = TRUE /\ disturbed' = TRUE
  /\ UNCHANGED <<callerOnly, user, submitted, mutex>>

\* Success: the URB is in the pool.
SubmitSucceeds ==
  /\ user = "submit" /\ next > parts /\ ~refused
  /\ user' = "submitted" /\ submitted' = 1 /\ mutex' = {}
  /\ UNCHANGED <<callerOnly, next, refused, kernelVars, disturbed>>

\* Some parts of a series may be with the kernel: all are discarded.  The loop
\* also looks past the end of subUrbs, at an address usbdevfs does not know.
SubmitFails ==
  /\ user = "submit" /\ next > parts /\ refused
  /\ user' = "undo" /\ next' = IF parts = 1 THEN 2 ELSE 1
  /\ UNCHANGED <<callerOnly, refused, submitted, mutex, kernelVars, disturbed>>

\* discardBulkUrbs, which takes no mutex.
BeginDiscard ==
  /\ user = "submitted" /\ op = "idle"
  /\ user' = "discard" /\ next' = 1
  /\ UNCHANGED <<callerOnly, refused, submitted, mutex, kernelVars, disturbed>>

\* killUrb of the URB that a callback has shown to the caller.
BeginKill ==
  /\ user = "submitted" /\ op = "idle" /\ mutex = {}
  /\ (rounds > 1 \/ calls > 0)
  /\ user' = "kill" /\ next' = 1 /\ mutex' = {"caller"}
  /\ UNCHANGED <<callerOnly, refused, submitted, kernelVars, disturbed>>

DiscardPart ==
  /\ user \in {"undo", "discard", "kill", "destroy"} /\ next <= parts
  /\ next' = next + 1
  /\ Discard(next)
  /\ UNCHANGED <<callerOnly, user, refused, submitted, mutex>>

\* The last line of discardBulkUrbs, killUrb or submitBulkUrb.
DiscardEnds ==
  /\ user \in {"undo", "discard", "kill", "destroy"} /\ next > parts
  /\ user' = CASE user = "undo" -> "deleted" [] user = "destroy" -> "destroyed"
               [] OTHER -> "submitted"
  /\ deleted' = (user = "undo")
  /\ submitted' = IF user \in {"discard", "destroy"} THEN 0 ELSE submitted
  /\ mutex' = IF user \in {"undo", "kill"} THEN {} ELSE mutex
  /\ UNCHANGED <<transferVars, parts, next, refused, readerVars, kernelVars,
                 history>>

StartUrbAsyncRead ==
  /\ Between /\ op = "idle"
  /\ reader = "none" /\ mutex = {}
  /\ running' = TRUE /\ reader' = "loop"
  /\ UNCHANGED <<transferVars, callerVars, kernelVars, history, mutex,
                 rnext, length, ok>>

StopUrbAsyncRead ==
  /\ user = "submitted" /\ op = "idle" /\ reader # "none" /\ mutex = {}
  /\ running' = FALSE /\ mutex' = {"caller"} /\ user' = "join"
  /\ UNCHANGED <<transferVars, next, refused, parts, submitted, deleted,
                 reader, rnext, length, ok, kernelVars, history>>

\* Only the isochronous URBs are discarded after the join.
JoinUrbThread ==
  /\ user = "join" /\ reader = "exit"
  /\ reader' = "none" /\ mutex' = {} /\ user' = "submitted"
  /\ UNCHANGED <<transferVars, next, refused, parts, submitted, deleted,
                 running, rnext, length, ok, kernelVars, history>>

\* freeBulkUrbs of the destructor.  Its second loop never runs: what was
\* allocated stays so.
FreeBulkUrbs ==
  /\ user = "submitted" /\ op = "idle" /\ reader = "none"
  /\ user' = IF submitted > 0 THEN "destroy" ELSE "destroyed"
  /\ next' = 1
  /\ UNCHANGED <<callerOnly, refused, submitted, mutex, kernelVars, disturbed>>

-----------------------------------------------------------------------------
(***************************************************************************)
(* The URB thread: reapUrbAsync.                                           *)
(***************************************************************************)

readerOnly == <<transferVars, callerVars, running>>

TestRunning ==
  /\ reader = "loop"
  /\ reader' = IF running THEN "reap" ELSE "exit"
  /\ UNCHANGED <<readerOnly, rnext, length, ok, kernelVars, history, mutex>>

\* Mutant: the isLast of a context is never set.
IsLast_Never(p) == FALSE

\* Mutant: isLast keeps its default, TRUE.
IsLast_Default(p) == TRUE

IsLast(p) == p = parts

\* A URB that is not a series has its own length.
ReapUrb ==
  /\ reader = "reap" /\ done # <<>> /\ ~deleted
  /\ done' = Tail(done)
  /\ LET urb == Head(done)
         got == IF urb.good THEN 1 ELSE 0
     IN  /\ length' = (IF parts = 1 THEN 0 ELSE length) + got
         /\ IF parts = 1 \/ IsLast(urb.part) \/ ~urb.good
              THEN ok' = urb.good /\ reader' = "callback"
              ELSE reader' = "loop" /\ UNCHANGED ok
  /\ UNCHANGED <<readerOnly, rnext, flight, disabled, faults, history, mutex>>

\* The thread takes the callback from a context that was freed.  What follows
\* is undefined: it ends here.
ReapDeletedUrb ==
  /\ reader = "reap" /\ done # <<>> /\ deleted
  /\ reader' = "crashed"
  /\ UNCHANGED <<readerOnly, rnext, length, ok, kernelVars, history, mutex>>

Callback ==
  /\ reader = "callback"
  /\ calls' = calls + 1
  /\ reader' = IF ok \in Resubmits /\ rounds < MaxRounds THEN "lock" ELSE "loop"
  /\ UNCHANGED <<readerOnly, rnext, length, ok, kernelVars, rounds, disturbed,
                 mutex>>

\* Mutant: the length of the main URB is not reset.
ResubmitUrb_KeepsLength ==
  /\ reader = "lock" /\ mutex = {}
  /\ reader' = "resubmit" /\ rnext' = 1 /\ ok' = TRUE
  /\ mutex' = IF parts = 1 THEN {} ELSE {"reader"}
  /\ rounds' = rounds + 1 /\ calls' = 0 /\ disturbed' = FALSE
  /\ UNCHANGED <<readerOnly, length, kernelVars>>

\* resubmitUrb resets the URB under the mutex, and keeps it for the parts of
\* a series.
ResubmitUrb ==
  /\ reader = "lock" /\ mutex = {}
  /\ reader' = "resubmit" /\ rnext' = 1 /\ length' = 0 /\ ok' = TRUE
  /\ mutex' = IF parts = 1 THEN {} ELSE {"reader"}
  /\ rounds' = rounds + 1 /\ calls' = 0 /\ disturbed' = FALSE
  /\ UNCHANGED <<readerOnly, kernelVars>>

ResubmitPart ==
  /\ reader = "resubmit" /\ rnext <= parts
  /\ rnext' = rnext + 1
  /\ \/ Submit(rnext) /\ UNCHANGED disturbed
     \/ Refuse(rnext) /\ disturbed' = TRUE
  /\ UNCHANGED <<readerOnly, reader, length, ok, rounds, calls, mutex>>

\* The client does not look at the result.
ResubmitEnds ==
  /\ reader = "resubmit" /\ rnext > parts
  /\ reader' = "loop" /\ mutex' = mutex \ {"reader"}
  /\ UNCHANGED <<readerOnly, rnext, length, ok, kernelVars, history>>

-----------------------------------------------------------------------------
CallerSteps == SubmitPart \/ SubmitSucceeds \/ SubmitFails \/ DiscardPart
               \/ DiscardEnds \/ JoinUrbThread

Caller == SubmitBulkUrb \/ BeginDiscard \/ BeginKill \/ StartUrbAsyncRead
          \/ StopUrbAsyncRead \/ FreeBulkUrbs \/ CallerSteps

UrbThread == TestRunning \/ ReapUrb \/ ReapDeletedUrb \/ Callback
             \/ ResubmitUrb \/ ResubmitPart \/ ResubmitEnds

Next == reader # "crashed"
        /\ (Transfers \/ Caller \/ UrbThread \/ Completes \/ Fails)

Spec == Init /\ [][Next]_vars

\* What was begun goes on: the calls of the caller, the thread, and the work
\* of the device.  Nobody has to call, stop or fail.
FairSpec == /\ Spec
            /\ WF_vars(CallerSteps) /\ WF_vars(UrbThread) /\ WF_vars(Completes)

-----------------------------------------------------------------------------
\* Every variable keeps its type; in particular the length of the main URB is
\* never more than its parts.
TypeOK ==
  /\ TransferTypeOK
  /\ user \in {"idle", "submit", "submitted", "undo", "deleted", "discard",
               "kill", "join", "destroy", "destroyed"}
  /\ next \in 1..(Parts + 1) /\ rnext \in 1..(Parts + 1)
  /\ refused \in BOOLEAN /\ parts \in {1, Parts}
  /\ submitted \in {0, 1} /\ deleted \in BOOLEAN
  /\ mutex \in {{}, {"caller"}, {"reader"}} /\ running \in BOOLEAN
  /\ reader \in {"none", "loop", "reap", "callback", "lock", "resubmit",
                 "exit", "crashed"}
  /\ length \in 0..parts /\ ok \in BOOLEAN
  /\ flight \in Seq(1..parts)
  /\ done \in Seq([part : 1..parts, good : BOOLEAN])
  /\ disabled \in BOOLEAN /\ faults \in 0..MaxFaults
  /\ rounds \in 0..MaxRounds /\ calls \in Nat /\ disturbed \in BOOLEAN

\* A client that resubmits only what was good gets, for a URB of which no
\* part was discarded or refused, one callback with its whole length, or an
\* error: a success is never a part of the series, and never the second word.
SuccessIsWhole ==
  reader = "callback" /\ ok /\ ~disturbed => length = parts /\ calls = 0

\* No part is with usbdevfs twice: when the series is submitted again, each
\* of its parts was reaped.  usbdevfs would write to one buffer for two URBs.
UrbOnce ==
  LET all == flight \o [i \in 1..Len(done) |-> done[i].part]
  IN  IsInjective(all)

\* As long as the thread runs, a URB that is with the device is called back,
\* however many parts it has and wherever an error comes.
CalledBack ==
  (flight # <<>> /\ calls = 0 /\ running)
    ~> (calls > 0 \/ ~running \/ disturbed \/ reader = "crashed")

=============================================================================
