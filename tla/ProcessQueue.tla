---------------------------- MODULE ProcessQueue ----------------------------
(***************************************************************************)
(* _frameProcessQueue, a moodycamel BlockingConcurrentQueue, as the driver *)
(* uses it: the URB thread calls try_enqueue, the process thread           *)
(* wait_dequeue, and the control thread enqueues the null frame of a stop  *)
(* and drains the queue with try_dequeue when both threads are gone.       *)
(*                                                                         *)
(* Inside, the queue has a sub-queue (ImplicitProducer) per thread id that *)
(* ever enqueued.  A sub-queue writes to blocks of BlockSize elements and  *)
(* finds them by a ring of entries, its block index.  Blocks come from the *)
(* pool that the constructor made, from those that were emptied, and, for  *)
(* enqueue but not for try_enqueue, from malloc.  The support for thread   *)
(* exits is compiled out (concurrentqueue.h:193-203), so the sub-queue of  *)
(* a thread that ended stays, with its block.                              *)
(*                                                                         *)
(* Memory is sequentially consistent here.  The lock-free free list is one *)
(* set that a block is added to or got from in one step; at most one       *)
(* thread gets and one adds at a time, as the driver has it.  Frames are   *)
(* numbered as they are enqueued; 0 is the null frame.                     *)
(***************************************************************************)
EXTENDS LightweightSemaphore

CONSTANTS
  BlockSize,      \* BLOCK_SIZE, 32
  IndexSize,      \* IMPLICIT_INITIAL_INDEX_SIZE, 32
  InitialBlocks,  \* initialBlockPoolSize
  Capacity,       \* what the driver asks of the constructor
  UrbIds,         \* thread ids that the URB threads can get
  CtlId,          \* the thread id of the control thread
  MaxBlocks,      \* bound: blocks there can be
  MaxFrames,      \* bound: frames that are enqueued
  MaxSessions     \* bound: how often the stream is started

ASSUME QueueAssumption ==
  /\ BlockSize \in Nat /\ BlockSize > 1 /\ IndexSize \in Nat \ {0}
  /\ InitialBlocks \in Nat /\ Capacity \in Nat /\ CtlId \notin UrbIds
  /\ MaxBlocks \in Nat /\ MaxFrames \in Nat /\ MaxSessions \in Nat
  /\ InitialBlocks <= MaxBlocks
  /\ InitialBlocks = (Capacity + BlockSize - 1) \div BlockSize
  /\ Threads = {"urb", "proc", "ctl"}

VARIABLES
  pc,        \* where a thread is in an operation of the queue
  ctl,       \* where startStreaming and stopStreaming are
  session,   \* how often the stream was started
  running,   \* _processThreadRunning
  urbId,     \* the id of the URB thread
  prods,     \* the sub-queues by thread id: ids that never enqueued have none
  issued,    \* blocks taken of the initial pool, and then of malloc
  freeList,  \* blocks that were emptied
  emptied,   \* per block, elementsCompletelyDequeued
  cell,      \* per block, its elements
  from,      \* of a dequeue: the sub-queue that has the element
  slot,      \* of a dequeue: the index entry, then the block that it frees
  sent,      \* the last frame that was enqueued
  recv,      \* the last frame that was taken
  taken,     \* how many frames were taken
  starved    \* did try_enqueue refuse a frame although the queue was empty

dequeueVars == <<from, slot>>
memoryVars  == <<prods, issued, freeList, emptied, cell>>
driverVars  == <<ctl, session, running, urbId>>
historyVars == <<sent, recv, taken, starved>>
vars == <<pc, driverVars, memoryVars, dequeueVars, historyVars, semaVars>>

Ids    == UrbIds \cup {CtlId}
Blocks == 1..MaxBlocks
Slots  == 0..(IndexSize - 1)
Null   == 0
NoBase  == -1   \* INVALID_BLOCK_BASE
NoBlock == 0

\* A new ImplicitProducer, with the index of new_block_index.
NewProducer ==
  [tail |-> 0, head |-> 0, block |-> NoBlock,
   last |-> IndexSize - 1,
   key |-> [s \in Slots |-> NoBase], value |-> [s \in Slots |-> NoBlock]]

Init ==
  /\ SemaInit
  /\ pc = [t \in Threads |-> "off"] /\ ctl = "off" /\ session = 0
  /\ running = FALSE /\ urbId \in UrbIds
  /\ prods = <<>> /\ issued = 0 /\ freeList = {}
  /\ emptied = [b \in Blocks |-> 0]
  /\ cell = [b \in Blocks |-> [i \in 0..(BlockSize - 1) |-> Null]]
  /\ from = CtlId /\ slot = 0
  /\ sent = 0 /\ recv = 0 /\ taken = 0 /\ starved = FALSE

Go(t, place) == pc' = [pc EXCEPT ![t] = place]

Size(p) == prods[p].tail - prods[p].head

\* The elements that are in the queue, by sub-queue and index.
Elements == UNION {{p} \X (prods[p].head .. (prods[p].tail - 1)) :
                     p \in DOMAIN prods}

-----------------------------------------------------------------------------
(***************************************************************************)
(* ImplicitProducer::enqueue, by the URB thread or the control thread.     *)
(***************************************************************************)

Id(t)   == IF t = "urb" THEN urbId ELSE CtlId
Item(t) == IF t = "urb" THEN sent + 1 ELSE Null
Done(t) == IF t = "urb" THEN "idle" ELSE "done"

\* get_or_add_implicit_producer.
FindProducer(t) ==
  /\ pc[t] = "find"
  /\ LET p == Id(t) IN
       /\ prods' = [q \in DOMAIN prods \cup {p} |->
                      IF q \in DOMAIN prods THEN prods[q] ELSE NewProducer]
       /\ Go(t, IF prods'[p].tail % BlockSize = 0 THEN "index" ELSE "write")
  /\ UNCHANGED <<driverVars, issued, freeList, emptied, cell, dequeueVars,
                 historyVars, semaVars>>

NextSlot(p) == (prods[p].last + 1) % IndexSize
HasRoom(p)  == prods[p].value[NextSlot(p)] = NoBlock

\* The last block is full: insert_block_index_entry takes the next entry for
\* a new one, which dequeues already see.
InsertEntry(t) ==
  /\ pc[t] = "index" /\ HasRoom(Id(t))
  /\ prods' = [prods EXCEPT
       ![Id(t)].key[NextSlot(Id(t))] = prods[Id(t)].tail,
       ![Id(t)].last = NextSlot(Id(t))]
  /\ Go(t, "block")
  /\ UNCHANGED <<driverVars, issued, freeList, emptied, cell, dequeueVars,
                 historyVars, semaVars>>

\* The blocks that the constructor allocated, taken one after the other.
InitialPool == 1..InitialBlocks

\* requisition_block: the initial pool, the free list, malloc if it may.
FreshBlocks(t) ==
  IF issued + 1 \in InitialPool THEN {issued + 1}
  ELSE IF freeList # {} THEN freeList
  ELSE IF t = "ctl" /\ issued < MaxBlocks THEN {issued + 1}
  ELSE {}

\* Mutant: elementsCompletelyDequeued is not reset.
NextBlock_NoReset(t) ==
  /\ pc[t] = "block"
  /\ \E b \in FreshBlocks(t) :
       /\ prods' = [prods EXCEPT ![Id(t)].block = b,
                                 ![Id(t)].value[prods[Id(t)].last] = b]
       /\ issued' = IF b > issued THEN b ELSE issued
       /\ freeList' = freeList \ {b}
  /\ Go(t, "write")
  /\ UNCHANGED <<driverVars, cell, emptied, dequeueVars, historyVars, semaVars>>

\* The block is reset and put into its entry.
NextBlock(t) ==
  /\ pc[t] = "block"
  /\ \E b \in FreshBlocks(t) :
       /\ prods' = [prods EXCEPT ![Id(t)].block = b,
                                 ![Id(t)].value[prods[Id(t)].last] = b]
       /\ issued' = IF b > issued THEN b ELSE issued
       /\ freeList' = freeList \ {b}
       /\ emptied' = [emptied EXCEPT ![b] = 0]
  /\ Go(t, "write")
  /\ UNCHANGED <<driverVars, cell, dequeueVars, historyVars, semaVars>>

\* try_enqueue returns false: the index is full, or there is no block and
\* rewind_block_index_tail gives the entry back, with its key.
Refuses ==
  /\ \/ pc["urb"] = "index" /\ ~HasRoom(urbId) /\ UNCHANGED prods
     \/ /\ pc["urb"] = "block" /\ FreshBlocks("urb") = {}
        /\ prods' = [prods EXCEPT ![urbId].last = (@ - 1) % IndexSize]
  /\ starved' = (starved \/ (Elements = {} /\ pc["proc"] \notin {"empty", "free"}))
  /\ Go("urb", "idle")
  /\ UNCHANGED <<driverVars, issued, freeList, emptied, cell, dequeueVars,
                 sent, recv, taken, semaVars>>

\* Mutant: the element is written, and nobody is told.
Write_NoSignal(t) ==
  /\ pc[t] = "write"
  /\ LET p == prods[Id(t)] IN
       /\ cell' = [cell EXCEPT ![p.block][p.tail % BlockSize] = Item(t)]
       /\ prods' = [prods EXCEPT ![Id(t)].tail = p.tail + 1]
  /\ sent' = IF t = "urb" THEN sent + 1 ELSE sent
  /\ Go(t, Done(t))
  /\ UNCHANGED <<driverVars, issued, freeList, emptied, dequeueVars, recv,
                 taken, starved, semaVars>>

\* The element is written, and then the tail that makes it visible.
Write(t) ==
  /\ pc[t] = "write"
  /\ LET p == prods[Id(t)] IN
       /\ cell' = [cell EXCEPT ![p.block][p.tail % BlockSize] = Item(t)]
       /\ prods' = [prods EXCEPT ![Id(t)].tail = p.tail + 1]
  /\ sent' = IF t = "urb" THEN sent + 1 ELSE sent
  /\ Go(t, "signal")
  /\ UNCHANGED <<driverVars, issued, freeList, emptied, dequeueVars, recv,
                 taken, starved, semaVars>>

\* enqueue and try_enqueue of the blocking queue end with a signal.
Signals(t) ==
  /\ \/ pc[t] = "signal" /\ SignalAdds(t)
     \/ pc[t] = "post" /\ SignalPosts(t)
  /\ Go(t, IF sema'[t] = "post" THEN "post" ELSE Done(t))
  /\ UNCHANGED <<driverVars, memoryVars, dequeueVars, historyVars>>

-----------------------------------------------------------------------------
(***************************************************************************)
(* wait_dequeue by the process thread, try_dequeue by the control thread.  *)
(***************************************************************************)

\* LightweightSemaphore::wait.  The thread goes on when it has a permit.
Waits ==
  /\ pc["proc"] = "wait"
  /\ \/ TryWait("proc") /\ Go("proc", "scan")
     \/ StartSpin("proc") /\ UNCHANGED pc
     \/ SpinTakes("proc") /\ Go("proc", "scan")
     \/ /\ SpinGivesUp("proc")
        /\ Go("proc", IF sema'["proc"] = "idle" THEN "scan" ELSE "wait")
     \/ Wakes("proc") /\ Go("proc", "scan")
  /\ UNCHANGED <<driverVars, memoryVars, dequeueVars, historyVars>>

\* With a permit, the longest sub-queue is chosen.  When the thread sees none
\* with an element it looks again.  Nobody else dequeues: its claim, the raise
\* of dequeueOptimisticCount, is never taken back.
Scans(t) ==
  /\ pc[t] = "scan"
  /\ \E p \in DOMAIN prods :
       /\ Size(p) > 0 /\ \A q \in DOMAIN prods : Size(q) <= Size(p)
       /\ from' = p
  /\ Go(t, "take")
  /\ UNCHANGED <<driverVars, memoryVars, slot, historyVars, semaVars>>

\* get_block_index_index_for_index.
SlotOf(p, index) ==
  LET base == index - (index % BlockSize)
  IN  (p.last + (base - p.key[p.last]) \div BlockSize) % IndexSize

\* Mutant: the head is not raised.
Takes_NoRaise(t) ==
  /\ pc[t] = "take"
  /\ LET p    == prods[from]
         s    == SlotOf(p, p.head)
         item == cell[p.value[s]][p.head % BlockSize]
     IN  /\ slot' = s
         /\ recv' = IF item = Null THEN recv ELSE item
         /\ taken' = IF item = Null THEN taken ELSE taken + 1
  /\ Go(t, "empty")
  /\ UNCHANGED <<driverVars, memoryVars, from, sent, starved, semaVars>>

\* The head is raised, and the element behind it is ours.
Takes(t) ==
  /\ pc[t] = "take"
  /\ LET p    == prods[from]
         s    == SlotOf(p, p.head)
         item == cell[p.value[s]][p.head % BlockSize]
     IN  /\ slot' = s
         /\ recv' = IF item = Null THEN recv ELSE item
         /\ taken' = IF item = Null THEN taken ELSE taken + 1
         /\ prods' = [prods EXCEPT ![from].head = p.head + 1]
  /\ Go(t, "empty")
  /\ UNCHANGED <<driverVars, issued, freeList, emptied, cell, from, sent,
                 starved, semaVars>>

\* Where a thread is when it has its element.
Returned(t) == IF t = "proc" THEN "idle" ELSE "drain"

\* set_empty counts the elements that were taken from a block: is one left?
OneLeft(b) == emptied[b] = BlockSize - 1

\* Mutant: the entry of the block index is not cleared.
Empties_KeepsEntry(t) ==
  /\ pc[t] = "empty"
  /\ LET b == prods[from].value[slot] IN
       /\ emptied' = [emptied EXCEPT ![b] = @ + 1]
       /\ IF OneLeft(b)
            THEN slot' = b /\ Go(t, "free")
            ELSE UNCHANGED slot /\ Go(t, Returned(t))
  /\ UNCHANGED <<driverVars, prods, issued, freeList, cell, from,
                 historyVars, semaVars>>

\* The one who takes the last element of a block takes the block
\* out of the index ...
Empties(t) ==
  /\ pc[t] = "empty"
  /\ LET b == prods[from].value[slot] IN
       /\ emptied' = [emptied EXCEPT ![b] = @ + 1]
       /\ IF OneLeft(b)
            THEN /\ prods' = [prods EXCEPT ![from].value[slot] = NoBlock]
                 /\ slot' = b /\ Go(t, "free")
            ELSE UNCHANGED <<prods, slot>> /\ Go(t, Returned(t))
  /\ UNCHANGED <<driverVars, issued, freeList, cell, from, historyVars, semaVars>>

\* ... and gives it to the free list.
FreesBlock(t) ==
  /\ pc[t] = "free"
  /\ freeList' = freeList \cup {slot}
  /\ slot' = 0
  /\ Go(t, Returned(t))
  /\ UNCHANGED <<driverVars, prods, issued, emptied, cell, from,
                 historyVars, semaVars>>

-----------------------------------------------------------------------------
(***************************************************************************)
(* The driver around the queue.                                            *)
(***************************************************************************)

\* startStreaming: two new threads.  The URB thread has an id that an earlier
\* one had, or another.
StartStreaming ==
  /\ ctl = "off" /\ session < MaxSessions
  /\ session' = session + 1 /\ running' = TRUE
  /\ urbId' \in UrbIds
  /\ ctl' = "streaming"
  /\ pc' = [pc EXCEPT !["urb"] = "idle", !["proc"] = "idle"]
  /\ UNCHANGED <<memoryVars, dequeueVars, historyVars, semaVars>>

\* addCompleteFrameToQueue.  The pool has one frame more than Capacity, and
\* the input is one of them.
EnqueuesFrame ==
  /\ ctl = "streaming" /\ pc["urb"] = "idle"
  /\ sent < MaxFrames /\ sent - recv <= Capacity
  /\ Go("urb", "find")
  /\ UNCHANGED <<driverVars, memoryVars, dequeueVars, historyVars, semaVars>>

\* frame_process_thread between two frames.
ProcessThread ==
  /\ pc["proc"] = "idle"
  /\ Go("proc", IF running THEN "wait" ELSE "done")
  /\ UNCHANGED <<driverVars, memoryVars, dequeueVars, historyVars, semaVars>>

\* Mutant: no null frame is enqueued.
StopStreaming_NoNullFrame ==
  /\ ctl = "streaming" /\ pc["urb"] = "idle"
  /\ running' = FALSE /\ ctl' = "stopping"
  /\ pc' = [pc EXCEPT !["urb"] = "off", !["ctl"] = "done"]
  /\ UNCHANGED <<session, urbId, memoryVars, dequeueVars, historyVars,
                 semaVars>>

\* stopStreaming joins the URB thread and wakes the process thread with a
\* null frame.
StopStreaming ==
  /\ ctl = "streaming" /\ pc["urb"] = "idle"
  /\ running' = FALSE /\ ctl' = "stopping"
  /\ pc' = [pc EXCEPT !["urb"] = "off", !["ctl"] = "find"]
  /\ UNCHANGED <<session, urbId, memoryVars, dequeueVars, historyVars,
                 semaVars>>

JoinProcessThread ==
  /\ ctl = "stopping" /\ pc["ctl"] = "done" /\ pc["proc"] = "done"
  /\ pc' = [pc EXCEPT !["proc"] = "off", !["ctl"] = "drain"]
  /\ ctl' = "draining"
  /\ UNCHANGED <<session, running, urbId, memoryVars, dequeueVars,
                 historyVars, semaVars>>

\* while (try_dequeue(frame)).
Drains ==
  /\ ctl = "draining" /\ pc["ctl"] = "drain"
  /\ TryWait("ctl") /\ Go("ctl", "scan")
  /\ UNCHANGED <<driverVars, memoryVars, dequeueVars, historyVars>>

\* Mutant: the queue is left as it is.
Drained_Skipped ==
  /\ ctl = "draining" /\ pc["ctl"] = "drain"
  /\ ctl' = "off" /\ Go("ctl", "off")
  /\ UNCHANGED <<session, running, urbId, memoryVars, dequeueVars,
                 historyVars, semaVars>>

Drained ==
  /\ ctl = "draining" /\ pc["ctl"] = "drain" /\ count <= 0
  /\ ctl' = "off" /\ Go("ctl", "off")
  /\ UNCHANGED <<session, running, urbId, memoryVars, dequeueVars,
                 historyVars, semaVars>>

\* The blocks that sub-queues have begun and not filled.
TailBlocks == {prods[p].block : p \in {q \in DOMAIN prods :
                                         prods[q].tail % BlockSize # 0}}

\* Mutant: a sub-queue is destroyed without its tail block.
DeleteQueue_KeepsTails ==
  /\ ctl = "off" /\ ctl' = "deleted"
  /\ prods' = <<>>
  /\ UNCHANGED <<pc, session, running, urbId, issued, freeList, emptied, cell,
                 dequeueVars, historyVars, semaVars>>

\* ~UsbTvDriver deletes the queue, which is empty: each ~ImplicitProducer gives
\* its tail block to the free list, and ~ConcurrentQueue frees what is there.
DeleteQueue ==
  /\ ctl = "off" /\ ctl' = "deleted"
  /\ freeList' = freeList \cup TailBlocks
  /\ prods' = <<>>
  /\ UNCHANGED <<pc, session, running, urbId, issued, emptied, cell,
                 dequeueVars, historyVars, semaVars>>

Enqueue(t) == FindProducer(t) \/ InsertEntry(t) \/ NextBlock(t) \/ Write(t)
              \/ Signals(t)
Dequeue(t) == Scans(t) \/ Takes(t) \/ Empties(t) \/ FreesBlock(t)

UrbThread  == Enqueue("urb") \/ Refuses
ProcThread == ProcessThread \/ Waits \/ Dequeue("proc")
CtlThread  == Enqueue("ctl") \/ JoinProcessThread \/ Drains \/ Dequeue("ctl")
              \/ Drained

Next == StartStreaming \/ EnqueuesFrame \/ StopStreaming \/ DeleteQueue
        \/ UrbThread \/ ProcThread \/ CtlThread

Spec == Init /\ [][Next]_vars

\* Every thread goes on with what it has begun.  Nobody has to start or stop
\* a stream, or to have a frame.
FairSpec ==
  Spec /\ WF_vars(UrbThread) /\ WF_vars(ProcThread) /\ WF_vars(CtlThread)

-----------------------------------------------------------------------------
(***************************************************************************)
(* Properties.                                                             *)
(***************************************************************************)

Places == {"off", "idle", "find", "index", "block", "write", "signal", "post",
           "wait", "scan", "take", "empty", "free", "drain", "done"}

\* Every variable has its type, no sub-queue is taken from more often than it
\* was written to, and the head is never further back than the index reaches.
TypeOK ==
  /\ SemaTypeOK
  /\ pc \in [Threads -> Places]
  /\ ctl \in {"off", "streaming", "stopping", "draining", "deleted"}
  /\ session \in 0..MaxSessions /\ running \in BOOLEAN /\ urbId \in UrbIds
  /\ DOMAIN prods \subseteq Ids
  /\ \A p \in DOMAIN prods :
       /\ prods[p].head <= prods[p].tail
       /\ prods[p].tail - prods[p].head <= BlockSize * IndexSize
       /\ prods[p].block \in Blocks \cup {NoBlock} /\ prods[p].last \in Slots
  /\ issued \in 0..MaxBlocks /\ freeList \subseteq Blocks
  /\ emptied \in [Blocks -> 0..BlockSize]
  /\ from \in Ids /\ slot \in Slots \cup Blocks
  /\ sent \in 0..MaxFrames /\ recv \in 0..sent /\ starved \in BOOLEAN

\* The n-th frame that is taken is the n-th that was enqueued: none is lost,
\* none is taken twice or read from a block that is used again, over all the
\* sessions and whichever sub-queues they went through.
TakesInOrder == recv = taken

\* How many entries of a block index have the block.
Entries(b) == Cardinality({e \in (DOMAIN prods) \X Slots :
                             prods[e[1]].value[e[2]] = b})

\* A block that was handed out is in one place: in one entry of one index, in
\* the free list, or with the thread that emptied it; all are in the free list
\* when the queue is deleted.  A block that is not full yet is in an index.
BlocksAccounted ==
  /\ \A b \in 1..issued :
       Entries(b) + Cardinality({b} \cap freeList)
       + Cardinality({t \in Threads : pc[t] = "free" /\ slot = b}) = 1
  /\ \A b \in TailBlocks : Entries(b) = 1
  /\ ctl = "deleted" => freeList = 1..issued

\* The permits are the elements, but for those that are written and not yet
\* signalled and those that belong to a thread that has its permit: a thread
\* with a permit never loops in `while (!inner.try_dequeue(item))' for good.
PermitBacked ==
  Cardinality(Elements) =
    Value + Cardinality({t \in Threads :
                           pc[t] \in {"signal", "scan", "take"}})

\* A stop leaves nothing behind: the next session starts with a queue that
\* has no element and no permit of this one, and nobody sleeps on it.
DrainedAtEnd ==
  ctl = "off" => Elements = {} /\ Value = 0 /\ tokens = 0 /\ Blocked = {}

\* A process thread that sleeps while there is a permit wakes up.
WaiterWakes ==
  (sema["proc"] = "blocked" /\ Value > 0) ~> (sema["proc"] # "blocked")

\* A stop ends, wherever it finds the process thread.
StopEnds == (ctl \in {"stopping", "draining"}) ~> (ctl = "off")

\* UsbTvDriver.cpp:735, of a frame that is refused: "no space in process Queue".
\* So try_enqueue does not refuse a frame while there is nothing in the queue.
\* concurrentqueue.h:719 warns of it: "Creates a queue with at least `capacity`
\* element slots; note that the actual number of elements that can be inserted
\* without additional memory allocation depends on the number of producers and
\* the block size (e.g. if the block size is equal to `capacity`, only a single
\* block will be allocated up-front, which means only a single producer will be
\* able to enqueue elements without an extra allocation -- blocks aren't shared
\* between producers)."
EmptyQueueAccepts == ~starved

=============================================================================
