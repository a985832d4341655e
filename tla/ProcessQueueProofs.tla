------------------------- MODULE ProcessQueueProofs -------------------------
(***************************************************************************)
(* The process queue, for any block size, block index, capacity, thread    *)
(* ids and number of sessions.  First what it has of its semaphore, since  *)
(* each of its steps is a step of LightweightSemaphore or leaves that      *)
(* alone; then the permits, which are the elements but for those of        *)
(* threads midway (PermitsInv).  Then the sub-queues: the ring of a block  *)
(* index (Rings), who has a block (Owned), how many elements of it were    *)
(* taken (Counts) and what is in it (Contents, Totals).  Together they are *)
(* the inductive invariant QueueInv.                                       *)
(***************************************************************************)
EXTENDS ProcessQueue, LightweightSemaphoreProofs

LEMMA QueueStep ==
  ASSUME [Next]_vars
  PROVE  [SemaNext]_semaVars
<1>1. {"urb", "proc", "ctl"} \subseteq Threads
  BY QueueAssumption
<1>2. CASE UNCHANGED vars
  BY <1>2 DEF vars
<1>3. ASSUME NEW t \in {"urb", "ctl"}, Enqueue(t)
      PROVE  [SemaNext]_semaVars
  BY <1>1, <1>3 DEF Enqueue, FindProducer, InsertEntry, NextBlock, Write,
                    Signals, SemaNext
<1>4. ASSUME NEW t \in {"proc", "ctl"}, Dequeue(t)
      PROVE  [SemaNext]_semaVars
  BY <1>4 DEF Dequeue, Scans, Takes, Empties, FreesBlock
<1>5. CASE Waits
  BY <1>1, <1>5 DEF Waits, SemaNext
<1>6. CASE Drains
  BY <1>1, <1>6 DEF Drains, SemaNext
<1>7. CASE \/ StartStreaming \/ EnqueuesFrame \/ StopStreaming \/ Refuses
           \/ ProcessThread \/ JoinProcessThread \/ Drained
           \/ DeleteQueue
  BY <1>7 DEF StartStreaming, EnqueuesFrame, StopStreaming, Refuses,
              ProcessThread, JoinProcessThread, Drained, DeleteQueue
<1> QED
  BY <1>2, <1>3, <1>4, <1>5, <1>6, <1>7 DEF Next, UrbThread, ProcThread,
     CtlThread

\* The queue starts and goes on as its semaphore allows.
THEOREM QueueUsesSemaphore == Spec => SemaSpec
<1>1. Init => SemaInit
  BY DEF Init
<1> QED  BY <1>1, QueueStep, PTL DEF Spec, SemaSpec

\* Whatever the URB thread, the process thread and a stop do, as many of them
\* sleep as the count and the tokens account for: no wakeup is lost.
THEOREM QueueWakeupsBalance == Spec => []WakeupsBalance
<1> QED  BY QueueUsesSemaphore, WakeupsBalanceHolds, PTL

\* wait_dequeue and try_dequeue take each permit once, and only permits that
\* an enqueue has given.
THEOREM QueuePermits == Spec => PermitSpec
<1> QED  BY QueueUsesSemaphore, ImplementsSemaphore, PTL

-----------------------------------------------------------------------------
(***************************************************************************)
(* Where the threads are.  One thread at a time enqueues and one dequeues. *)
(***************************************************************************)

EnqueuePlaces == {"find", "index", "block", "write", "signal", "post"}
DequeuePlaces == {"scan", "take", "empty", "free"}

\* What each thread does in each phase of a session, and in the semaphore.
Phases ==
  /\ ctl \in {"off", "streaming", "stopping", "draining", "deleted"}
  /\ ctl \in {"off", "deleted"} => \A t \in Threads : pc[t] = "off"
  /\ ctl = "streaming" =>
       /\ pc["urb"] \in EnqueuePlaces \cup {"idle"}
       /\ pc["proc"] \in DequeuePlaces \cup {"idle", "wait"}
       /\ pc["ctl"] = "off" /\ running
  /\ ctl = "stopping" =>
       /\ pc["urb"] = "off"
       /\ pc["proc"] \in DequeuePlaces \cup {"idle", "wait", "done"}
       /\ pc["ctl"] \in EnqueuePlaces \cup {"done"}
  /\ ctl = "draining" =>
       /\ pc["urb"] = "off" /\ pc["proc"] = "off"
       /\ pc["ctl"] \in DequeuePlaces \cup {"drain"}
  /\ \A t \in {"urb", "ctl"} :
       sema[t] = IF pc[t] = "post" THEN "post" ELSE "idle"
  /\ sema["proc"] \in {"idle", "spin", "blocked"}
  /\ sema["proc"] # "idle" => pc["proc"] = "wait"

\* The sub-queue that a thread works on.
Claims ==
  /\ \A t \in {"urb", "ctl"} :
       pc[t] \in {"index", "block", "write"} => Id(t) \in DOMAIN prods
  /\ \A t \in {"proc", "ctl"} :
       /\ pc[t] \in {"take", "empty"} => from \in DOMAIN prods
       /\ pc[t] = "take" => Size(from) > 0
       /\ pc[t] = "empty" => slot \in Slots

Producer ==
  [tail : Nat, head : Nat, block : Nat, last : Slots,
   key : [Slots -> Int], value : [Slots -> Nat]]

Typed ==
  /\ SemaTypeOK /\ pc \in [Threads -> Places]
  /\ DOMAIN prods \subseteq Ids /\ prods \in [DOMAIN prods -> Producer]
  /\ \A p \in DOMAIN prods : prods[p].head <= prods[p].tail
  /\ issued \in Nat /\ freeList \subseteq Nat
  /\ slot \in Nat /\ from \in Ids /\ urbId \in UrbIds

LEMMA ThreadIds ==
  /\ Threads = {"urb", "proc", "ctl"}
  /\ \A t \in {"urb", "ctl"} : t \in Threads
  /\ \A t \in {"proc", "ctl"} : t \in Threads
BY QueueAssumption

\* Go moves one thread.
LEMMA Goes ==
  ASSUME Typed, NEW t \in Threads, NEW place, Go(t, place)
  PROVE  /\ pc'[t] = place
         /\ \A u \in Threads \ {t} : pc'[u] = pc[u]
BY DEF Typed, Go

\* What an enqueue and a dequeue have in common with where they may be.
LEMMA Alone ==
  ASSUME Typed, Phases
  PROVE  /\ pc["urb"] \in EnqueuePlaces => ctl = "streaming"
         /\ pc["ctl"] \in EnqueuePlaces => ctl = "stopping"
         /\ pc["proc"] \in DequeuePlaces => ctl \in {"streaming", "stopping"}
         /\ pc["ctl"] \in DequeuePlaces => ctl = "draining"
         /\ pc["proc"] = "wait" => ctl \in {"streaming", "stopping"}
BY ThreadIds DEF Phases, EnqueuePlaces, DequeuePlaces

LEMMA PhasesInit ==
  ASSUME Init
  PROVE  Phases
BY ThreadIds DEF Init, SemaInit, Phases

\* Each thread goes from place to place as its part of the driver has it.
LEMMA PhasesStep ==
  ASSUME Typed, Phases, [Next]_vars
  PROVE  Phases'
<1>0. /\ Threads = {"urb", "proc", "ctl"}
      /\ \A t \in Threads : \A place : Go(t, place) =>
           pc'[t] = place /\ \A u \in Threads \ {t} : pc'[u] = pc[u]
      /\ pc \in [Threads -> Places] /\ sema \in [Threads -> SemaStates]
  BY ThreadIds, Goes DEF Typed, SemaTypeOK
<1> USE DEF Phases, EnqueuePlaces, DequeuePlaces
<1>1. ASSUME NEW t \in {"urb", "ctl"},
             \/ FindProducer(t) \/ InsertEntry(t) \/ NextBlock(t) \/ Write(t)
      PROVE  Phases'
  <2>1. pc[t] \in {"find", "index", "block", "write"}
        /\ (\E place \in EnqueuePlaces \ {"post"} : Go(t, place))
        /\ ctl' = ctl /\ running' = running /\ sema' = sema
    BY <1>1 DEF FindProducer, InsertEntry, NextBlock, Write, driverVars,
                semaVars
  <2>2. PICK place \in EnqueuePlaces \ {"post"} : Go(t, place)
    BY <2>1
  <2>3. t \in Threads
    BY <1>0
  <2>4. pc'[t] = place /\ \A u \in Threads \ {t} : pc'[u] = pc[u]
    BY <1>0, <2>2, <2>3
  <2>5. CASE t = "urb"
    BY <1>0, <2>1, <2>4, <2>5
  <2>6. CASE t = "ctl"
    BY <1>0, <2>1, <2>4, <2>6
  <2> QED  BY <2>5, <2>6
<1>2. ASSUME NEW t \in {"urb", "ctl"}, Signals(t)
      PROVE  Phases'
  <2>1. /\ pc[t] \in {"signal", "post"} /\ t \in Threads
        /\ Go(t, IF sema'[t] = "post" THEN "post" ELSE Done(t))
        /\ ctl' = ctl /\ running' = running
        /\ (\E there \in {"idle", "post"} : sema' = [sema EXCEPT ![t] = there])
    BY <1>0, <1>2 DEF Signals, driverVars, SignalAdds, SignalPosts
  <2>2. PICK there \in {"idle", "post"} : sema' = [sema EXCEPT ![t] = there]
    BY <2>1
  <2>3. sema'[t] = there /\ \A u \in Threads \ {t} : sema'[u] = sema[u]
    BY <1>0, <2>1, <2>2
  <2>4. /\ pc'[t] = IF there = "post" THEN "post" ELSE Done(t)
        /\ \A u \in Threads \ {t} : pc'[u] = pc[u]
    BY <1>0, <2>1, <2>3
  <2>5. CASE t = "urb"
    BY <1>0, <2>1, <2>3, <2>4, <2>5 DEF Done
  <2>6. CASE t = "ctl"
    BY <1>0, <2>1, <2>3, <2>4, <2>6 DEF Done
  <2> QED  BY <2>5, <2>6
<1>3. ASSUME NEW t \in {"proc", "ctl"}, Dequeue(t)
      PROVE  Phases'
  <2>1. /\ pc[t] \in DequeuePlaces /\ t \in Threads
        /\ (\E place \in DequeuePlaces \cup {Returned(t)} : Go(t, place))
        /\ ctl' = ctl /\ running' = running /\ sema' = sema
    BY <1>0, <1>3 DEF Dequeue, Scans, Takes, Empties, FreesBlock, driverVars,
                      semaVars
  <2>2. PICK place \in DequeuePlaces \cup {Returned(t)} : Go(t, place)
    BY <2>1
  <2>3. pc'[t] = place /\ \A u \in Threads \ {t} : pc'[u] = pc[u]
    BY <1>0, <2>1, <2>2
  <2>4. CASE t = "proc"
    BY <1>0, <2>1, <2>3, <2>4 DEF Returned
  <2>5. CASE t = "ctl"
    BY <1>0, <2>1, <2>3, <2>5 DEF Returned
  <2> QED  BY <2>4, <2>5
<1>4. CASE Waits
  <2>1. /\ pc["proc"] = "wait" /\ ctl' = ctl /\ running' = running
        /\ \/ sema' = sema /\ sema["proc"] = "idle" /\ Go("proc", "scan")
           \/ pc' = pc /\ sema' = [sema EXCEPT !["proc"] = "spin"]
           \/ Go("proc", "scan") /\ sema' = [sema EXCEPT !["proc"] = "idle"]
           \/ /\ Go("proc", IF sema'["proc"] = "idle" THEN "scan" ELSE "wait")
              /\ \/ sema' = [sema EXCEPT !["proc"] = "idle"]
                 \/ sema' = [sema EXCEPT !["proc"] = "blocked"]
    BY <1>4 DEF Waits, driverVars, TryWait, StartSpin, SpinTakes, SpinGivesUp,
                Wakes
  <2>2. \A place : Go("proc", place) =>
           pc'["proc"] = place /\ pc'["urb"] = pc["urb"] /\ pc'["ctl"] = pc["ctl"]
    BY <1>0
  <2>3. \A there : sema' = [sema EXCEPT !["proc"] = there] =>
           /\ sema'["proc"] = there /\ sema'["urb"] = sema["urb"]
           /\ sema'["ctl"] = sema["ctl"]
    BY <1>0
  <2>4. CASE pc' = pc /\ sema' = [sema EXCEPT !["proc"] = "spin"]
    BY <1>0, <2>1, <2>3, <2>4
  <2>5. CASE sema' = sema /\ sema["proc"] = "idle" /\ Go("proc", "scan")
    BY <1>0, <2>1, <2>2, <2>5
  <2>6. CASE Go("proc", "scan") /\ sema' = [sema EXCEPT !["proc"] = "idle"]
    BY <1>0, <2>1, <2>2, <2>3, <2>6
  <2>7. CASE /\ Go("proc", "wait")
             /\ sema' = [sema EXCEPT !["proc"] = "blocked"]
    BY <1>0, <2>1, <2>2, <2>3, <2>7
  <2> QED  BY <2>1, <2>3, <2>4, <2>5, <2>6, <2>7
<1>5. CASE ProcessThread
  <2>1. /\ pc["proc"] = "idle" /\ ctl' = ctl /\ running' = running
        /\ sema' = sema /\ pc'["proc"] = (IF running THEN "wait" ELSE "done")
        /\ pc'["urb"] = pc["urb"] /\ pc'["ctl"] = pc["ctl"]
    BY <1>0, <1>5 DEF ProcessThread, driverVars, semaVars
  <2> QED  BY <1>0, <2>1
<1>6. CASE Refuses \/ EnqueuesFrame
  <2>1. /\ pc["urb"] \in {"index", "block", "idle"} /\ ctl' = ctl
        /\ (pc["urb"] = "idle" => ctl = "streaming")
        /\ (Go("urb", "idle") \/ Go("urb", "find"))
        /\ running' = running /\ sema' = sema
    BY <1>6 DEF Refuses, EnqueuesFrame, driverVars, semaVars
  <2>2. /\ pc'["urb"] \in {"idle", "find"}
        /\ pc'["proc"] = pc["proc"] /\ pc'["ctl"] = pc["ctl"]
    BY <1>0, <2>1
  <2> QED  BY <1>0, <2>1, <2>2
<1>7. CASE Drains
  <2>1. /\ ctl = "draining" /\ ctl' = ctl /\ running' = running
        /\ sema' = sema /\ pc["ctl"] = "drain" /\ pc'["ctl"] = "scan"
        /\ pc'["urb"] = pc["urb"] /\ pc'["proc"] = pc["proc"]
    BY <1>0, <1>7 DEF Drains, driverVars, TryWait
  <2> QED  BY <1>0, <2>1
<1>8. CASE Drained
  <2>1. /\ ctl = "draining" /\ ctl' = "off" /\ sema' = sema
        /\ pc["ctl"] = "drain" /\ pc'["ctl"] = "off"
        /\ pc'["urb"] = pc["urb"] /\ pc'["proc"] = pc["proc"]
    BY <1>0, <1>8 DEF Drained, semaVars
  <2> QED  BY <1>0, <2>1
<1>9. CASE StartStreaming
  <2>1. /\ ctl = "off" /\ ctl' = "streaming" /\ sema' = sema /\ running'
        /\ pc'["urb"] = "idle" /\ pc'["proc"] = "idle" /\ pc'["ctl"] = pc["ctl"]
    BY <1>0, <1>9 DEF StartStreaming, semaVars
  <2> QED  BY <1>0, <2>1
<1>10. CASE StopStreaming
  <2>1. /\ ctl = "streaming" /\ ctl' = "stopping" /\ sema' = sema
        /\ pc["urb"] = "idle"
        /\ pc'["urb"] = "off" /\ pc'["ctl"] = "find" /\ pc'["proc"] = pc["proc"]
    BY <1>0, <1>10 DEF StopStreaming, semaVars
  <2> QED  BY <1>0, <2>1
<1>11. CASE JoinProcessThread
  <2>1. /\ ctl = "stopping" /\ ctl' = "draining" /\ sema' = sema
        /\ pc["ctl"] = "done" /\ pc["proc"] = "done"
        /\ pc'["proc"] = "off" /\ pc'["ctl"] = "drain" /\ pc'["urb"] = pc["urb"]
    BY <1>0, <1>11 DEF JoinProcessThread, semaVars
  <2> QED  BY <1>0, <2>1
<1>12. CASE DeleteQueue
  <2>1. ctl = "off" /\ ctl' = "deleted" /\ sema' = sema /\ pc' = pc
    BY <1>12 DEF DeleteQueue, semaVars
  <2> QED  BY <1>0, <2>1
<1>13. CASE UNCHANGED vars
  BY <1>13 DEF vars, driverVars, semaVars
<1> QED
  BY <1>1, <1>2, <1>3, <1>4, <1>5, <1>6, <1>7, <1>8, <1>9, <1>10, <1>11,
     <1>12, <1>13 DEF Next, UrbThread, ProcThread, CtlThread, Enqueue

-----------------------------------------------------------------------------
(***************************************************************************)
(* What each step does to the sub-queues.                                  *)
(***************************************************************************)

\* No sub-queue comes or goes, and none but p changes.
OnlyIn(p) ==
  /\ p \in DOMAIN prods /\ DOMAIN prods' = DOMAIN prods
  /\ prods' \in [DOMAIN prods -> Producer]
  /\ \A q \in DOMAIN prods \ {p} : prods'[q] = prods[q]

SameEnds(p)  == prods'[p].tail = prods[p].tail /\ prods'[p].head = prods[p].head
SameBlock(p) == prods'[p].block = prods[p].block
SameIndex(p) == prods'[p].last = prods[p].last /\ prods'[p].key = prods[p].key
                /\ prods'[p].value = prods[p].value

\* An index of the ring is a slot.
LEMMA InRing ==
  ASSUME NEW n \in Int
  PROVE  n % IndexSize \in Slots
BY QueueAssumption DEF Slots

LEMMA InBlock ==
  ASSUME NEW n \in Int
  PROVE  n % BlockSize \in 0..(BlockSize - 1)
BY QueueAssumption

\* The fields of a sub-queue have their types.
LEMMA Fields ==
  ASSUME Typed, NEW p \in DOMAIN prods
  PROVE  /\ prods[p].tail \in Nat /\ prods[p].head \in Nat
         /\ prods[p].head <= prods[p].tail
         /\ prods[p].block \in Nat /\ prods[p].last \in Slots
         /\ prods[p].key \in [Slots -> Int]
         /\ prods[p].value \in [Slots -> Nat]
         /\ NextSlot(p) \in Slots /\ p \in Ids
         /\ Size(p) \in Nat /\ Size(p) = prods[p].tail - prods[p].head
<1>1. prods[p] \in Producer /\ prods[p].head <= prods[p].tail /\ p \in Ids
  BY DEF Typed
<1>2. prods[p].last \in Slots
  BY <1>1 DEF Producer
<1>3. NextSlot(p) \in Slots
  BY <1>2, InRing, QueueAssumption DEF NextSlot, Slots
<1> QED  BY <1>1, <1>2, <1>3 DEF Producer, Size

LEMMA NewOnes == NewProducer \in Producer
BY QueueAssumption DEF NewProducer, Producer, NoBlock, NoBase, Slots

\* The sub-queue that an enqueue finds is there, or is added empty.
LEMMA Finding ==
  ASSUME Typed, NEW t \in {"urb", "ctl"}, FindProducer(t)
  PROVE  /\ DOMAIN prods' = DOMAIN prods \cup {Id(t)}
         /\ prods' \in [DOMAIN prods' -> Producer]
         /\ \A q \in DOMAIN prods : prods'[q] = prods[q]
         /\ Id(t) \notin DOMAIN prods => prods'[Id(t)] = NewProducer
         /\ Id(t) \in DOMAIN prods => prods' = prods
<1>1. prods' = [q \in DOMAIN prods \cup {Id(t)} |->
                  IF q \in DOMAIN prods THEN prods[q] ELSE NewProducer]
  BY DEF FindProducer
<1>2. prods \in [DOMAIN prods -> Producer]
  BY DEF Typed
<1>3. CASE Id(t) \in DOMAIN prods
  <2>1. DOMAIN prods \cup {Id(t)} = DOMAIN prods
    BY <1>3
  <2> QED  BY <1>1, <1>2, <1>3, <2>1
<1>4. CASE Id(t) \notin DOMAIN prods
  BY <1>1, <1>2, <1>4, NewOnes
<1> QED  BY <1>3, <1>4

LEMMA Inserting ==
  ASSUME Typed, NEW t \in {"urb", "ctl"}, InsertEntry(t),
         Id(t) \in DOMAIN prods
  PROVE  /\ OnlyIn(Id(t)) /\ SameEnds(Id(t)) /\ SameBlock(Id(t))
         /\ prods'[Id(t)].last = NextSlot(Id(t))
         /\ prods'[Id(t)].value = prods[Id(t)].value
         /\ prods'[Id(t)].key =
              [prods[Id(t)].key EXCEPT ![NextSlot(Id(t))] = prods[Id(t)].tail]
<1> DEFINE p == Id(t)
<1>1. /\ prods[p] \in Producer /\ NextSlot(p) \in Slots
      /\ prods \in [DOMAIN prods -> Producer] /\ p \in DOMAIN prods
      /\ prods[p].tail \in Nat /\ prods[p].key \in [Slots -> Int]
  BY Fields DEF Typed
<1>2. prods' = [prods EXCEPT ![p].key[NextSlot(p)] = prods[p].tail,
                             ![p].last = NextSlot(p)]
  BY DEF InsertEntry
<1> HIDE DEF p
<1>3. /\ DOMAIN prods' = DOMAIN prods
      /\ \A q \in DOMAIN prods \ {p} : prods'[q] = prods[q]
      /\ prods'[p] = [prods[p] EXCEPT !.key[NextSlot(p)] = prods[p].tail,
                                     !.last = NextSlot(p)]
  BY <1>1, <1>2
<1>4. /\ prods'[p].last = NextSlot(p)
      /\ prods'[p].key = [prods[p].key EXCEPT ![NextSlot(p)] = prods[p].tail]
      /\ prods'[p].value = prods[p].value /\ prods'[p].block = prods[p].block
      /\ prods'[p].tail = prods[p].tail /\ prods'[p].head = prods[p].head
      /\ prods'[p] \in Producer
  <2>1. prods'[p] = [prods[p] EXCEPT
                       !.key = [prods[p].key EXCEPT ![NextSlot(p)] = prods[p].tail],
                       !.last = NextSlot(p)]
    BY <1>3
  <2>2. [prods[p].key EXCEPT ![NextSlot(p)] = prods[p].tail] \in [Slots -> Int]
    BY <1>1
  <2> QED  BY <1>1, <2>1, <2>2 DEF Producer
<1>5. prods' \in [DOMAIN prods -> Producer]
  BY <1>1, <1>2, <1>3, <1>4
<1> QED  BY <1>1, <1>3, <1>4, <1>5 DEF OnlyIn, SameEnds, SameBlock, p

LEMMA GettingBlock ==
  ASSUME Typed, NEW t \in {"urb", "ctl"}, NextBlock(t),
         Id(t) \in DOMAIN prods
  PROVE  \E b \in FreshBlocks(t) \cap Nat :
           /\ OnlyIn(Id(t)) /\ SameEnds(Id(t))
           /\ prods'[Id(t)].block = b
           /\ prods'[Id(t)].last = prods[Id(t)].last
           /\ prods'[Id(t)].key = prods[Id(t)].key
           /\ prods'[Id(t)].value =
                [prods[Id(t)].value EXCEPT ![prods[Id(t)].last] = b]
           /\ issued' = (IF b > issued THEN b ELSE issued)
           /\ freeList' = freeList \ {b}
           /\ emptied' = [emptied EXCEPT ![b] = 0]
<1> DEFINE p == Id(t)
<1>1. /\ prods[p] \in Producer /\ prods[p].last \in Slots
      /\ prods \in [DOMAIN prods -> Producer] /\ p \in DOMAIN prods
      /\ prods[p].value \in [Slots -> Nat]
  BY Fields DEF Typed
<1>2. PICK b \in FreshBlocks(t) :
        /\ prods' = [prods EXCEPT ![p].block = b,
                                  ![p].value[prods[p].last] = b]
        /\ issued' = (IF b > issued THEN b ELSE issued)
        /\ freeList' = freeList \ {b}
        /\ emptied' = [emptied EXCEPT ![b] = 0]
  BY DEF NextBlock
<1>3. b \in Nat
  BY DEF FreshBlocks, Typed
<1> HIDE DEF p
<1>4. /\ DOMAIN prods' = DOMAIN prods
      /\ \A q \in DOMAIN prods \ {p} : prods'[q] = prods[q]
      /\ prods'[p] = [prods[p] EXCEPT
                        !.block = b,
                        !.value = [prods[p].value EXCEPT ![prods[p].last] = b]]
  BY <1>1, <1>2
<1>5. [prods[p].value EXCEPT ![prods[p].last] = b] \in [Slots -> Nat]
  BY <1>1, <1>3
<1>6. /\ prods'[p] \in Producer
      /\ prods'[p].block = b /\ prods'[p].last = prods[p].last
      /\ prods'[p].key = prods[p].key
      /\ prods'[p].value = [prods[p].value EXCEPT ![prods[p].last] = b]
      /\ prods'[p].tail = prods[p].tail /\ prods'[p].head = prods[p].head
  BY <1>1, <1>3, <1>4, <1>5 DEF Producer
<1>7. prods' \in [DOMAIN prods -> Producer]
  BY <1>1, <1>2, <1>4, <1>6
<1> QED
  BY <1>1, <1>2, <1>3, <1>4, <1>6, <1>7 DEF OnlyIn, SameEnds, p

\* Refuses leaves the sub-queues alone, or takes the new entry back.
LEMMA Refusing ==
  ASSUME Typed, Claims, Refuses
  PROVE  \/ pc["urb"] = "index" /\ prods' = prods
         \/ /\ pc["urb"] = "block" /\ FreshBlocks("urb") = {}
            /\ OnlyIn(urbId) /\ SameEnds(urbId) /\ SameBlock(urbId)
            /\ prods'[urbId].last = (prods[urbId].last - 1) % IndexSize
            /\ prods'[urbId].key = prods[urbId].key
            /\ prods'[urbId].value = prods[urbId].value
<1>1. CASE pc["urb"] = "index" /\ prods' = prods
  BY <1>1
<1>2. CASE /\ pc["urb"] = "block" /\ FreshBlocks("urb") = {}
           /\ prods' = [prods EXCEPT
                          ![urbId].last = (prods[urbId].last - 1) % IndexSize]
  <2>1. urbId \in DOMAIN prods
    BY <1>2 DEF Claims, Id
  <2>2. /\ prods[urbId] \in Producer /\ prods[urbId].last \in Int
        /\ prods \in [DOMAIN prods -> Producer]
    BY <2>1, Fields DEF Typed, Slots
  <2>3. (prods[urbId].last - 1) % IndexSize \in Slots
    BY <2>2, InRing
  <2>4. /\ DOMAIN prods' = DOMAIN prods
        /\ \A q \in DOMAIN prods \ {urbId} : prods'[q] = prods[q]
        /\ prods'[urbId] =
             [prods[urbId] EXCEPT !.last = (prods[urbId].last - 1) % IndexSize]
    BY <1>2, <2>1, <2>2
  <2>5. /\ prods'[urbId] \in Producer
        /\ prods'[urbId].last = (prods[urbId].last - 1) % IndexSize
        /\ SameEnds(urbId) /\ SameBlock(urbId)
        /\ prods'[urbId].key = prods[urbId].key
        /\ prods'[urbId].value = prods[urbId].value
    BY <2>2, <2>3, <2>4 DEF Producer, SameEnds, SameBlock
  <2>6. prods' \in [DOMAIN prods -> Producer]
    BY <1>2, <2>1, <2>2, <2>4, <2>5
  <2> QED  BY <1>2, <2>1, <2>4, <2>5, <2>6 DEF OnlyIn
<1> QED  BY <1>1, <1>2 DEF Refuses

LEMMA Writing ==
  ASSUME Typed, NEW t \in {"urb", "ctl"}, Write(t), Id(t) \in DOMAIN prods
  PROVE  /\ OnlyIn(Id(t)) /\ SameBlock(Id(t)) /\ SameIndex(Id(t))
         /\ prods'[Id(t)].tail = prods[Id(t)].tail + 1
         /\ prods'[Id(t)].head = prods[Id(t)].head
<1> DEFINE p == Id(t)
<1>1. /\ prods[p] \in Producer /\ prods[p].tail + 1 \in Nat
      /\ prods \in [DOMAIN prods -> Producer] /\ p \in DOMAIN prods
  BY Fields DEF Typed
<1>2. prods' = [prods EXCEPT ![p].tail = prods[p].tail + 1]
  BY DEF Write
<1> HIDE DEF p
<1>3. /\ DOMAIN prods' = DOMAIN prods
      /\ \A q \in DOMAIN prods \ {p} : prods'[q] = prods[q]
      /\ prods'[p] = [prods[p] EXCEPT !.tail = prods[p].tail + 1]
  BY <1>1, <1>2
<1>4. /\ prods'[p] \in Producer /\ SameBlock(p) /\ SameIndex(p)
      /\ prods'[p].tail = prods[p].tail + 1 /\ prods'[p].head = prods[p].head
  BY <1>1, <1>3 DEF Producer, SameBlock, SameIndex
<1>5. prods' \in [DOMAIN prods -> Producer]
  BY <1>1, <1>2, <1>3, <1>4
<1> QED  BY <1>1, <1>3, <1>4, <1>5 DEF OnlyIn, p

LEMMA Taking ==
  ASSUME Typed, NEW t \in {"proc", "ctl"}, Takes(t), from \in DOMAIN prods
  PROVE  /\ OnlyIn(from) /\ SameBlock(from) /\ SameIndex(from)
         /\ prods'[from].tail = prods[from].tail
         /\ prods'[from].head = prods[from].head + 1
         /\ slot' = SlotOf(prods[from], prods[from].head) /\ slot' \in Slots
<1> DEFINE p == from
<1>1. /\ prods[p] \in Producer /\ prods[p].head + 1 \in Nat
      /\ prods \in [DOMAIN prods -> Producer] /\ p \in DOMAIN prods
  BY Fields DEF Typed
<1>2. prods' = [prods EXCEPT ![p].head = prods[p].head + 1]
  BY DEF Takes
<1>3. slot' = SlotOf(prods[from], prods[from].head)
  BY DEF Takes
<1>4. slot' \in Slots
  <2>1. /\ prods[p].last \in Slots /\ prods[p].key \in [Slots -> Int]
        /\ prods[p].head \in Int
    BY <1>1, Fields
  <2>2. prods[p].head % BlockSize \in Int /\ prods[p].key[prods[p].last] \in Int
    BY <2>1, InBlock
  <2> DEFINE d == prods[p].head - (prods[p].head % BlockSize)
                    - prods[p].key[prods[p].last]
  <2>3. d \in Int
    BY <2>1, <2>2
  <2>4. d \div BlockSize \in Int
    BY <2>3, QueueAssumption
  <2>5. (prods[p].last + (d \div BlockSize)) \in Int
    BY <2>1, <2>4 DEF Slots
  <2>6. slot' = (prods[p].last + (d \div BlockSize)) % IndexSize
    BY <1>3, Zenon DEF SlotOf
  <2> QED  BY <2>5, <2>6, InRing
<1> HIDE DEF p
<1>5. /\ DOMAIN prods' = DOMAIN prods
      /\ \A q \in DOMAIN prods \ {p} : prods'[q] = prods[q]
      /\ prods'[p] = [prods[p] EXCEPT !.head = prods[p].head + 1]
  BY <1>1, <1>2
<1>6. /\ prods'[p] \in Producer /\ SameBlock(p) /\ SameIndex(p)
      /\ prods'[p].tail = prods[p].tail /\ prods'[p].head = prods[p].head + 1
  BY <1>1, <1>5 DEF Producer, SameBlock, SameIndex
<1>7. prods' \in [DOMAIN prods -> Producer]
  BY <1>1, <1>2, <1>5, <1>6
<1> QED  BY <1>1, <1>3, <1>4, <1>5, <1>6, <1>7 DEF OnlyIn, p

\* Empties clears the entry when it was the last element of the block.
LEMMA EmptyingOne ==
  ASSUME Typed, NEW t \in {"proc", "ctl"}, Empties(t), from \in DOMAIN prods,
         slot \in Slots
  PROVE  /\ OnlyIn(from) /\ SameEnds(from) /\ SameBlock(from)
         /\ prods'[from].last = prods[from].last
         /\ prods'[from].key = prods[from].key
         /\ prods'[from].value =
              IF OneLeft(prods[from].value[slot])
              THEN [prods[from].value EXCEPT ![slot] = NoBlock]
              ELSE prods[from].value
<1> DEFINE p == from
           one == OneLeft(prods[p].value[slot])
<1>1. /\ prods[p] \in Producer /\ prods[p].value \in [Slots -> Nat]
      /\ prods \in [DOMAIN prods -> Producer] /\ p \in DOMAIN prods
  BY Fields DEF Typed
<1>2. /\ one => prods' = [prods EXCEPT ![p].value[slot] = NoBlock]
      /\ ~one => prods' = prods
  BY DEF Empties
<1> HIDE DEF p, one
<1>3. CASE one
  <2>1. /\ DOMAIN prods' = DOMAIN prods
        /\ \A q \in DOMAIN prods \ {p} : prods'[q] = prods[q]
        /\ prods'[p] = [prods[p] EXCEPT
                          !.value = [prods[p].value EXCEPT ![slot] = NoBlock]]
    BY <1>1, <1>2, <1>3
  <2>2. [prods[p].value EXCEPT ![slot] = NoBlock] \in [Slots -> Nat]
    BY <1>1 DEF NoBlock
  <2>3. /\ prods'[p] \in Producer /\ SameEnds(p) /\ SameBlock(p)
        /\ prods'[p].last = prods[p].last /\ prods'[p].key = prods[p].key
        /\ prods'[p].value = [prods[p].value EXCEPT ![slot] = NoBlock]
    BY <1>1, <2>1, <2>2 DEF Producer, SameEnds, SameBlock
  <2>4. prods' \in [DOMAIN prods -> Producer]
    BY <1>1, <1>2, <1>3, <2>1, <2>3
  <2> QED  BY <1>1, <1>3, <2>1, <2>3, <2>4 DEF OnlyIn, p, one
<1>4. CASE ~one
  BY <1>1, <1>2, <1>4 DEF OnlyIn, SameEnds, SameBlock, p, one
<1> QED  BY <1>3, <1>4

-----------------------------------------------------------------------------
(***************************************************************************)
(* Types and claims are kept.                                              *)
(***************************************************************************)

\* Heads stay behind tails when no end moves.
LEMMA TypedEnds ==
  ASSUME Typed, NEW p, OnlyIn(p), prods'[p].head <= prods'[p].tail
  PROVE  /\ DOMAIN prods' \subseteq Ids /\ prods' \in [DOMAIN prods' -> Producer]
         /\ \A q \in DOMAIN prods' : prods'[q].head <= prods'[q].tail
BY DEF Typed, OnlyIn

LEMMA GoTyped ==
  ASSUME Typed, NEW t \in Threads, NEW place \in Places, Go(t, place)
  PROVE  pc' \in [Threads -> Places]
BY DEF Typed, Go

LEMMA TypedStep ==
  ASSUME Typed, Phases, Claims, SemaTypeOK', [Next]_vars
  PROVE  Typed'
<1> DEFINE ProdsTyped ==
             /\ DOMAIN prods' \subseteq Ids
             /\ prods' \in [DOMAIN prods' -> Producer]
             /\ \A q \in DOMAIN prods' : prods'[q].head <= prods'[q].tail
           RestTyped == /\ issued' \in Nat /\ freeList' \subseteq Nat
                        /\ slot' \in Nat /\ from' \in Ids /\ urbId' \in UrbIds
<1>0. /\ issued \in Nat /\ freeList \subseteq Nat
      /\ slot \in Nat /\ from \in Ids /\ urbId \in UrbIds
      /\ \A t \in {"urb", "ctl"} : Id(t) \in Ids
      /\ prods' = prods => ProdsTyped
  BY DEF Typed, Id, Ids
<1>t. /\ \A t \in {"urb", "ctl"} : t \in Threads
      /\ \A t \in {"proc", "ctl"} : t \in Threads
      /\ Threads = {"urb", "proc", "ctl"}
  BY ThreadIds
<1>u. SUFFICES pc' \in [Threads -> Places] /\ ProdsTyped /\ RestTyped
  BY DEF Typed
<1>1. ASSUME NEW t \in {"urb", "ctl"}, FindProducer(t)
      PROVE  pc' \in [Threads -> Places] /\ ProdsTyped /\ RestTyped
  <2>1. pc' \in [Threads -> Places]
    BY <1>1, <1>t, GoTyped DEF FindProducer, Places
  <2>2. NewProducer.head <= NewProducer.tail
    BY DEF NewProducer
  <2>3. ProdsTyped
    BY <1>0, <1>1, <2>2, Finding DEF Typed
  <2>4. RestTyped
    BY <1>0, <1>1 DEF FindProducer, driverVars, dequeueVars
  <2> QED  BY <2>1, <2>3, <2>4
<1>2. ASSUME NEW t \in {"urb", "ctl"}, InsertEntry(t)
      PROVE  pc' \in [Threads -> Places] /\ ProdsTyped /\ RestTyped
  <2>1. pc' \in [Threads -> Places]
    BY <1>2, <1>t, GoTyped DEF InsertEntry, Places
  <2>2. Id(t) \in DOMAIN prods
    BY <1>2 DEF InsertEntry, Claims
  <2>3. ProdsTyped
    BY <1>2, <2>2, Inserting, Fields, TypedEnds DEF SameEnds
  <2>4. RestTyped
    BY <1>0, <1>2 DEF InsertEntry, driverVars, dequeueVars
  <2> QED  BY <2>1, <2>3, <2>4
<1>3. ASSUME NEW t \in {"urb", "ctl"}, NextBlock(t)
      PROVE  pc' \in [Threads -> Places] /\ ProdsTyped /\ RestTyped
  <2>1. pc' \in [Threads -> Places]
    BY <1>3, <1>t, GoTyped DEF NextBlock, Places
  <2>2. Id(t) \in DOMAIN prods
    BY <1>3 DEF NextBlock, Claims
  <2>3. OnlyIn(Id(t)) /\ SameEnds(Id(t)) /\ issued' \in Nat
        /\ freeList' \subseteq Nat
    BY <1>0, <1>3, <2>2, GettingBlock
  <2>4. ProdsTyped
    BY <2>2, <2>3, Fields, TypedEnds DEF SameEnds
  <2>5. RestTyped
    BY <1>0, <1>3, <2>3 DEF NextBlock, driverVars, dequeueVars
  <2> QED  BY <2>1, <2>4, <2>5
<1>4. ASSUME NEW t \in {"urb", "ctl"}, Write(t)
      PROVE  pc' \in [Threads -> Places] /\ ProdsTyped /\ RestTyped
  <2>1. pc' \in [Threads -> Places]
    BY <1>4, <1>t, GoTyped DEF Write, Places
  <2>2. Id(t) \in DOMAIN prods
    BY <1>4 DEF Write, Claims
  <2>3. prods'[Id(t)].head <= prods'[Id(t)].tail
    BY <1>4, <2>2, Writing, Fields
  <2>4. ProdsTyped
    BY <1>4, <2>2, <2>3, Writing, TypedEnds
  <2>5. RestTyped
    BY <1>0, <1>4 DEF Write, driverVars, dequeueVars
  <2> QED  BY <2>1, <2>4, <2>5
<1>5. ASSUME NEW t \in {"urb", "ctl"}, Signals(t)
      PROVE  pc' \in [Threads -> Places] /\ ProdsTyped /\ RestTyped
  <2>1. (IF sema'[t] = "post" THEN "post" ELSE Done(t)) \in Places
    BY DEF Done, Places
  <2>2. pc' \in [Threads -> Places]
    BY <1>5, <1>t, <2>1, GoTyped DEF Signals
  <2> QED
    BY <1>0, <1>5, <2>2 DEF Signals, driverVars, memoryVars, dequeueVars
<1>6. ASSUME NEW t \in {"proc", "ctl"}, Scans(t)
      PROVE  pc' \in [Threads -> Places] /\ ProdsTyped /\ RestTyped
  <2>1. pc' \in [Threads -> Places]
    BY <1>6, <1>t, GoTyped DEF Scans, Places
  <2>2. from' \in Ids
    BY <1>6 DEF Scans, Typed
  <2> QED  BY <1>0, <1>6, <2>1, <2>2 DEF Scans, driverVars, memoryVars
<1>7. ASSUME NEW t \in {"proc", "ctl"}, Takes(t)
      PROVE  pc' \in [Threads -> Places] /\ ProdsTyped /\ RestTyped
  <2>1. pc' \in [Threads -> Places]
    BY <1>7, <1>t, GoTyped DEF Takes, Places
  <2>2. from \in DOMAIN prods /\ Size(from) > 0
    BY <1>7 DEF Takes, Claims
  <2>3. OnlyIn(from) /\ slot' \in Slots
        /\ prods'[from].tail = prods[from].tail
        /\ prods'[from].head = prods[from].head + 1
    BY <1>7, <2>2, Taking
  <2>4. prods'[from].head <= prods'[from].tail
    BY <2>2, <2>3, Fields
  <2>5. ProdsTyped
    BY <2>3, <2>4, TypedEnds
  <2>6. slot' \in Nat
    BY <2>3 DEF Slots
  <2> QED  BY <1>0, <1>7, <2>1, <2>5, <2>6 DEF Takes, driverVars
<1>8. ASSUME NEW t \in {"proc", "ctl"}, Empties(t)
      PROVE  pc' \in [Threads -> Places] /\ ProdsTyped /\ RestTyped
  <2>1. Go(t, "free") \/ Go(t, Returned(t))
    BY <1>8 DEF Empties
  <2>2. "free" \in Places /\ Returned(t) \in Places
    BY DEF Places, Returned
  <2>3. pc' \in [Threads -> Places]
    BY <1>t, <2>1, <2>2, GoTyped
  <2>4. from \in DOMAIN prods /\ slot \in Slots
    BY <1>8 DEF Empties, Claims
  <2>5. ProdsTyped
    BY <1>8, <2>4, EmptyingOne, Fields, TypedEnds DEF SameEnds
  <2>6. slot' = slot \/ slot' = prods[from].value[slot]
    BY <1>8 DEF Empties
  <2>7. slot' \in Nat
    BY <1>0, <2>4, <2>6, Fields
  <2> QED  BY <1>0, <1>8, <2>3, <2>5, <2>7 DEF Empties, driverVars
<1>9. ASSUME NEW t \in {"proc", "ctl"}, FreesBlock(t)
      PROVE  pc' \in [Threads -> Places] /\ ProdsTyped /\ RestTyped
  <2>1. Returned(t) \in Places
    BY DEF Places, Returned
  <2>2. pc' \in [Threads -> Places]
    BY <1>9, <1>t, <2>1, GoTyped DEF FreesBlock
  <2> QED  BY <1>0, <1>9, <2>2 DEF FreesBlock, driverVars
<1>10. CASE Refuses
  <2>1. pc' \in [Threads -> Places]
    BY <1>10, <1>t, GoTyped DEF Refuses, Places
  <2>2. pc["urb"] = "block" => urbId \in DOMAIN prods
    BY DEF Claims, Id
  <2>3. ProdsTyped
    BY <1>0, <1>10, <2>2, Refusing, Fields, TypedEnds DEF SameEnds
  <2> QED
    BY <1>0, <1>10, <2>1, <2>3 DEF Refuses, driverVars, dequeueVars
<1>11. CASE Waits
  <2>1. pc' = pc \/ Go("proc", "scan") \/ Go("proc", "wait")
    BY <1>11 DEF Waits
  <2>2. pc' \in [Threads -> Places]
    BY <1>t, <2>1, GoTyped DEF Typed, Places
  <2> QED
    BY <1>0, <1>11, <2>2 DEF Waits, driverVars, memoryVars, dequeueVars
<1>12. CASE ProcessThread \/ EnqueuesFrame \/ Drains \/ Drained
  <2>1. \E t \in Threads, place \in {"wait", "done", "find", "scan", "off"} :
          Go(t, place)
    BY <1>12, <1>t DEF ProcessThread, EnqueuesFrame, Drains, Drained
  <2>2. {"wait", "done", "find", "scan", "off"} \subseteq Places
    BY DEF Places
  <2>3. pc' \in [Threads -> Places]
    BY <2>1, <2>2, GoTyped
  <2> QED
    BY <1>0, <1>12, <2>3 DEF ProcessThread, EnqueuesFrame, Drains, Drained,
       driverVars, memoryVars, dequeueVars
<1>13. CASE StartStreaming \/ StopStreaming \/ JoinProcessThread
  <2>1. pc' \in [Threads -> Places]
    BY <1>13, <1>t DEF StartStreaming, StopStreaming, JoinProcessThread, Typed,
       Places
  <2> QED
    BY <1>0, <1>13, <2>1 DEF StartStreaming, StopStreaming, JoinProcessThread,
       memoryVars, dequeueVars
<1>14. CASE DeleteQueue
  <2>1. TailBlocks \subseteq Nat
    BY Fields DEF TailBlocks
  <2>2. pc' = pc /\ prods' = <<>> /\ freeList' = freeList \cup TailBlocks
        /\ issued' = issued /\ slot' = slot /\ from' = from /\ urbId' = urbId
    BY <1>14 DEF DeleteQueue, dequeueVars
  <2>3. ProdsTyped
    BY <2>2
  <2> QED  BY <1>0, <2>1, <2>2, <2>3 DEF Typed
<1>15. CASE UNCHANGED vars
  BY <1>0, <1>15 DEF vars, driverVars, memoryVars, dequeueVars, Typed
<1> HIDE DEF ProdsTyped, RestTyped
<1> QED
  BY <1>1, <1>2, <1>3, <1>4, <1>5, <1>6, <1>7, <1>8, <1>9, <1>10, <1>11,
     <1>12, <1>13, <1>14, <1>15
  DEF Next, UrbThread, ProcThread, CtlThread, Enqueue, Dequeue

\* A thread keeps what it has claimed: the two ends of a sub-queue are moved
\* by different threads, and no second thread works at the same end.
LEMMA ClaimsStep ==
  ASSUME Typed, Phases, Claims, [Next]_vars
  PROVE  Claims'
<1>0. /\ Threads = {"urb", "proc", "ctl"}
      /\ \A t \in Threads : \A place : Go(t, place) =>
           pc'[t] = place /\ \A u \in Threads \ {t} : pc'[u] = pc[u]
      /\ \A t \in {"urb", "ctl"} : t \in Threads
      /\ \A t \in {"proc", "ctl"} : t \in Threads
  BY ThreadIds, Goes
<1>a. /\ pc["urb"] \in EnqueuePlaces => pc["ctl"] = "off"
      /\ pc["ctl"] \in EnqueuePlaces => pc["urb"] = "off"
      /\ pc["proc"] \in DequeuePlaces => pc["ctl"] \notin DequeuePlaces
      /\ pc["proc"] = "wait" => pc["ctl"] \notin DequeuePlaces
      /\ pc["ctl"] \in DequeuePlaces \cup {"drain"} =>
           pc["urb"] = "off" /\ pc["proc"] = "off"
  BY <1>0, Alone DEF Phases, EnqueuePlaces, DequeuePlaces
<1>b. /\ from \in DOMAIN prods => Size(from) \in Nat
      /\ \A t \in {"urb", "ctl"} : Id(t) = IF t = "urb" THEN urbId ELSE CtlId
  BY Fields DEF Id
<1> USE DEF EnqueuePlaces, DequeuePlaces
<1>1. ASSUME NEW t \in {"urb", "ctl"}, FindProducer(t)
      PROVE  Claims'
  <2>1. /\ pc[t] = "find" /\ pc'[t] \in {"index", "write"}
        /\ (\A u \in Threads \ {t} : pc'[u] = pc[u])
        /\ urbId' = urbId /\ from' = from /\ slot' = slot
    BY <1>0, <1>1 DEF FindProducer, driverVars, dequeueVars
  <2>2. /\ DOMAIN prods' = DOMAIN prods \cup {Id(t)}
        /\ from \in DOMAIN prods => Size(from)' = Size(from)
    BY <1>1, <2>1, Finding DEF Size
  <2>3. CASE t = "urb"
    BY <1>0, <1>a, <2>1, <2>2, <2>3 DEF Claims, Id
  <2>4. CASE t = "ctl"
    BY <1>0, <1>a, <2>1, <2>2, <2>4 DEF Claims, Id
  <2> QED  BY <2>3, <2>4
<1>2. ASSUME NEW t \in {"urb", "ctl"},
             InsertEntry(t) \/ NextBlock(t) \/ Write(t)
      PROVE  Claims'
  <2>1. /\ pc[t] \in {"index", "block", "write"}
        /\ pc'[t] \in {"block", "write", "signal"}
        /\ (\A u \in Threads \ {t} : pc'[u] = pc[u])
        /\ urbId' = urbId /\ from' = from /\ slot' = slot
    BY <1>0, <1>2 DEF InsertEntry, NextBlock, Write, driverVars, dequeueVars
  <2>2. Id(t) \in DOMAIN prods
    BY <2>1 DEF Claims
  <2>3. /\ OnlyIn(Id(t))
        /\ \/ SameEnds(Id(t))
           \/ /\ prods'[Id(t)].tail = prods[Id(t)].tail + 1
              /\ prods'[Id(t)].head = prods[Id(t)].head
    BY <1>2, <2>2, Inserting, GettingBlock, Writing
  <2>4. from \in DOMAIN prods /\ Size(from) > 0 => Size(from)' > 0
    <3>1. CASE from = Id(t)
      BY <2>1, <2>3, <3>1, Fields DEF SameEnds, Size
    <3>2. CASE from # Id(t)
      BY <2>1, <2>3, <3>2 DEF OnlyIn, Size
    <3> QED  BY <3>1, <3>2
  <2>5. DOMAIN prods' = DOMAIN prods /\ Id(t)' = Id(t)
    BY <2>1, <2>3 DEF OnlyIn, Id
  <2>6. CASE t = "urb"
    BY <1>0, <1>a, <2>1, <2>2, <2>4, <2>5, <2>6 DEF Claims, Id
  <2>7. CASE t = "ctl"
    BY <1>0, <1>a, <2>1, <2>2, <2>4, <2>5, <2>7 DEF Claims, Id
  <2> QED  BY <2>6, <2>7
<1>3. ASSUME NEW t \in {"urb", "ctl"}, Signals(t)
      PROVE  Claims'
  <2>1. /\ pc'[t] \in {"post", "idle", "done"}
        /\ (\A u \in Threads \ {t} : pc'[u] = pc[u])
        /\ urbId' = urbId /\ from' = from /\ slot' = slot /\ prods' = prods
    BY <1>0, <1>3 DEF Signals, Done, driverVars, dequeueVars, memoryVars
  <2> QED  BY <1>0, <2>1 DEF Claims, Id, Size
<1>4. ASSUME NEW t \in {"proc", "ctl"}, Scans(t)
      PROVE  Claims'
  <2>1. /\ pc[t] = "scan" /\ pc'[t] = "take" /\ from' \in DOMAIN prods
        /\ (\A u \in Threads \ {t} : pc'[u] = pc[u]) /\ Size(from)' > 0
        /\ urbId' = urbId /\ slot' = slot /\ prods' = prods
    BY <1>0, <1>4 DEF Scans, driverVars, memoryVars, Size
  <2>2. CASE t = "proc"
    BY <1>0, <1>a, <2>1, <2>2 DEF Claims, Id
  <2>3. CASE t = "ctl"
    BY <1>0, <1>a, <2>1, <2>3 DEF Claims, Id
  <2> QED  BY <2>2, <2>3
<1>5. ASSUME NEW t \in {"proc", "ctl"}, Takes(t)
      PROVE  Claims'
  <2>1. /\ pc[t] = "take" /\ pc'[t] = "empty" /\ from' = from
        /\ (\A u \in Threads \ {t} : pc'[u] = pc[u]) /\ urbId' = urbId
    BY <1>0, <1>5 DEF Takes, driverVars
  <2>2. from \in DOMAIN prods
    BY <2>1 DEF Claims
  <2>3. DOMAIN prods' = DOMAIN prods /\ slot' \in Slots
    BY <1>5, <2>2, Taking DEF OnlyIn
  <2>4. /\ \A u \in {"urb", "ctl"} :
             pc'[u] \in {"index", "block", "write"} =>
               pc[u] = pc'[u] /\ Id(u) \in DOMAIN prods
        /\ \A u \in {"urb", "ctl"} : Id(u)' = Id(u)
        /\ \A u \in {"proc", "ctl"} : pc'[u] # "take"
    <3>1. CASE t = "proc"
      BY <1>0, <1>a, <2>1, <3>1 DEF Claims, Id
    <3>2. CASE t = "ctl"
      BY <1>0, <1>a, <2>1, <3>2 DEF Claims, Id
    <3> QED  BY <3>1, <3>2
  <2> QED  BY <2>1, <2>2, <2>3, <2>4 DEF Claims
<1>6. ASSUME NEW t \in {"proc", "ctl"}, Empties(t) \/ FreesBlock(t)
      PROVE  Claims'
  <2>1. /\ pc[t] \in {"empty", "free"} /\ from' = from
        /\ pc'[t] \in {"free", "idle", "drain"}
        /\ (\A u \in Threads \ {t} : pc'[u] = pc[u]) /\ urbId' = urbId
    BY <1>0, <1>6 DEF Empties, FreesBlock, Returned, driverVars
  <2>2. Empties(t) => from \in DOMAIN prods /\ slot \in Slots
    BY DEF Empties, Claims
  <2>3. DOMAIN prods' = DOMAIN prods
    BY <1>6, <2>2, EmptyingOne DEF OnlyIn, FreesBlock
  <2>4. /\ \A u \in {"urb", "ctl"} :
             pc'[u] \in {"index", "block", "write"} =>
               pc[u] = pc'[u] /\ Id(u) \in DOMAIN prods
        /\ \A u \in {"urb", "ctl"} : Id(u)' = Id(u)
        /\ \A u \in {"proc", "ctl"} : pc'[u] \notin {"take", "empty"}
    <3>1. CASE t = "proc"
      BY <1>0, <1>a, <2>1, <3>1 DEF Claims, Id
    <3>2. CASE t = "ctl"
      BY <1>0, <1>a, <2>1, <3>2 DEF Claims, Id
    <3> QED  BY <3>1, <3>2
  <2> QED  BY <2>1, <2>3, <2>4 DEF Claims
<1>7. CASE Refuses
  <2>1. /\ pc'["urb"] = "idle" /\ urbId' = urbId /\ from' = from /\ slot' = slot
        /\ pc["urb"] \in {"index", "block"}
        /\ pc'["proc"] = pc["proc"] /\ pc'["ctl"] = pc["ctl"]
    BY <1>0, <1>7 DEF Refuses, driverVars, dequeueVars
  <2>2. /\ DOMAIN prods' = DOMAIN prods
        /\ from \in DOMAIN prods => Size(from)' = Size(from)
    <3>1. CASE prods' = prods
      BY <2>1, <3>1 DEF Size
    <3>2. CASE OnlyIn(urbId) /\ SameEnds(urbId)
      BY <2>1, <3>2 DEF OnlyIn, SameEnds, Size
    <3> QED  BY <1>7, <3>1, <3>2, Refusing
  <2> QED  BY <1>0, <1>a, <2>1, <2>2 DEF Claims, Id
<1>8. CASE Waits \/ ProcessThread
  <2>1. /\ pc'["proc"] \in {"scan", "wait", "done"} /\ pc'["urb"] = pc["urb"]
        /\ pc'["ctl"] = pc["ctl"] /\ prods' = prods /\ from' = from
        /\ slot' = slot /\ urbId' = urbId
    BY <1>0, <1>8 DEF Waits, ProcessThread, driverVars, memoryVars,
                      dequeueVars
  <2> QED  BY <1>0, <2>1 DEF Claims, Id, Size
<1>9. CASE EnqueuesFrame \/ Drains \/ Drained
  <2>1. /\ pc'["urb"] \in {"find", pc["urb"]} /\ pc'["proc"] = pc["proc"]
        /\ pc'["ctl"] \in {"scan", "off", pc["ctl"]}
        /\ prods' = prods /\ from' = from /\ slot' = slot /\ urbId' = urbId
    BY <1>0, <1>9 DEF EnqueuesFrame, Drains, Drained, driverVars, memoryVars,
                      dequeueVars
  <2> QED  BY <1>0, <2>1 DEF Claims, Id, Size
<1>10. CASE StartStreaming \/ StopStreaming \/ JoinProcessThread
  <2>1. /\ pc'["urb"] \in {"idle", "off", pc["urb"]}
        /\ pc'["urb"] = pc["urb"] => urbId' = urbId
        /\ pc'["proc"] \in {"idle", "off", pc["proc"]}
        /\ pc'["ctl"] \in {"find", "drain", pc["ctl"]}
        /\ prods' = prods /\ from' = from /\ slot' = slot
    BY <1>0, <1>10 DEF StartStreaming, StopStreaming, JoinProcessThread,
       driverVars, memoryVars, dequeueVars, Typed, Phases
  <2> QED  BY <1>0, <2>1 DEF Claims, Id, Size
<1>11. CASE DeleteQueue
  <2>1. ctl = "off" /\ pc' = pc
    BY <1>11 DEF DeleteQueue
  <2>2. \A t \in Threads : pc'[t] = "off"
    BY <2>1 DEF Phases
  <2> QED  BY <1>0, <2>2 DEF Claims
<1>12. CASE UNCHANGED vars
  BY <1>12 DEF vars, driverVars, memoryVars, dequeueVars, Claims, Id, Size
<1> QED
  BY <1>1, <1>2, <1>3, <1>4, <1>5, <1>6, <1>7, <1>8, <1>9, <1>10, <1>11,
     <1>12
  DEF Next, UrbThread, ProcThread, CtlThread, Enqueue, Dequeue

-----------------------------------------------------------------------------
(***************************************************************************)
(* The permits are the elements.                                           *)
(***************************************************************************)

\* The threads that have written and not signalled, or have a permit and not
\* yet its element.
MidwayPlaces == {"signal", "scan", "take"}
Midway == {t \in Threads : pc[t] \in MidwayPlaces}

LEMMA MidwayFinite == IsFiniteSet(Midway) /\ Cardinality(Midway) \in Nat
<1>1. Midway \subseteq Threads
  BY DEF Midway
<1> QED  BY <1>1, SemaAssumption, FS_Subset, FS_CardinalityType

LEMMA MidwayMoves ==
  ASSUME Typed, NEW t \in Threads, NEW place, Go(t, place)
  PROVE  Cardinality(Midway') =
           Cardinality(Midway)
           - (IF pc[t] \in MidwayPlaces THEN 1 ELSE 0)
           + (IF place \in MidwayPlaces THEN 1 ELSE 0)
<1>1. pc'[t] = place /\ \A u \in Threads \ {t} : pc'[u] = pc[u]
  BY Goes
<1>2. IsFiniteSet(Midway) /\ Cardinality(Midway) \in Nat
  BY MidwayFinite
<1>3. CASE (pc[t] \in MidwayPlaces) = (place \in MidwayPlaces)
  <2>1. Midway' = Midway
    BY <1>1, <1>3 DEF Midway
  <2> QED  BY <1>2, <1>3, <2>1
<1>4. CASE pc[t] \in MidwayPlaces /\ place \notin MidwayPlaces
  <2>1. Midway' = Midway \ {t} /\ t \in Midway
    BY <1>1, <1>4 DEF Midway
  <2>2. Cardinality(Midway') = Cardinality(Midway) - 1
    BY <1>2, <2>1, FS_RemoveElement
  <2> QED  BY <1>2, <1>4, <2>2
<1>5. CASE pc[t] \notin MidwayPlaces /\ place \in MidwayPlaces
  <2>1. Midway' = Midway \cup {t} /\ t \notin Midway
    BY <1>1, <1>5 DEF Midway
  <2>2. Cardinality(Midway') = Cardinality(Midway) + 1
    BY <1>2, <2>1, FS_AddElement
  <2> QED  BY <1>2, <1>5, <2>2
<1> QED  BY <1>3, <1>4, <1>5

LEMMA InElements ==
  ASSUME NEW e
  PROVE  e \in Elements <=>
           \E p \in DOMAIN prods :
             \E i \in prods[p].head .. (prods[p].tail - 1) : e = <<p, i>>
BY DEF Elements

LEMMA InElementsNext ==
  ASSUME NEW e
  PROVE  e \in Elements' <=>
           \E p \in DOMAIN prods' :
             \E i \in prods'[p].head .. (prods'[p].tail - 1) : e = <<p, i>>
BY DEF Elements

LEMMA ElementsKept ==
  ASSUME NEW p, OnlyIn(p), SameEnds(p)
  PROVE  Elements' = Elements
<1>1. \A q \in DOMAIN prods : /\ prods'[q].head = prods[q].head
                              /\ prods'[q].tail = prods[q].tail
  BY DEF OnlyIn, SameEnds
<1>2. \A e : e \in Elements' <=> e \in Elements
  BY <1>1, InElements, InElementsNext DEF OnlyIn
<1> QED  BY <1>2

LEMMA ElementsFound ==
  ASSUME Typed, NEW t \in {"urb", "ctl"}, FindProducer(t)
  PROVE  Elements' = Elements
<1>1. /\ DOMAIN prods' = DOMAIN prods \cup {Id(t)}
      /\ \A q \in DOMAIN prods : prods'[q] = prods[q]
      /\ Id(t) \notin DOMAIN prods =>
           prods'[Id(t)].head .. (prods'[Id(t)].tail - 1) = {}
  BY Finding DEF NewProducer
<1>2. \A e : e \in Elements' <=> e \in Elements
  BY <1>1, InElements, InElementsNext
<1> QED  BY <1>2

LEMMA ElementsWritten ==
  ASSUME Typed, NEW t \in {"urb", "ctl"}, Write(t), Id(t) \in DOMAIN prods
  PROVE  /\ Elements' = Elements \cup {<<Id(t), prods[Id(t)].tail>>}
         /\ <<Id(t), prods[Id(t)].tail>> \notin Elements
<1> DEFINE p == Id(t)
<1>1. /\ prods'[p].tail = prods[p].tail + 1 /\ prods'[p].head = prods[p].head
      /\ DOMAIN prods' = DOMAIN prods /\ p \in DOMAIN prods
      /\ \A q \in DOMAIN prods \ {p} : prods'[q] = prods[q]
  BY Writing DEF OnlyIn
<1>2. /\ prods[p].tail \in Nat /\ prods[p].head \in Nat
      /\ prods[p].head <= prods[p].tail
  BY Fields
<1> HIDE DEF p
<1>3. \A i : i \in prods'[p].head .. (prods'[p].tail - 1) <=>
               i \in prods[p].head .. (prods[p].tail - 1) \/ i = prods[p].tail
  BY <1>1, <1>2
<1>4. \A e : e \in Elements' <=>
               e \in Elements \/ e = <<p, prods[p].tail>>
  BY <1>1, <1>3, InElements, InElementsNext
<1>5. prods[p].tail \notin prods[p].head .. (prods[p].tail - 1)
  BY <1>2
<1>6. <<p, prods[p].tail>> \notin Elements
  BY <1>5, InElements
<1>7. Elements' = Elements \cup {<<p, prods[p].tail>>}
  BY <1>4
<1> QED  BY <1>6, <1>7 DEF p

LEMMA ElementsTaken ==
  ASSUME Typed, NEW t \in {"proc", "ctl"}, Takes(t), from \in DOMAIN prods,
         Size(from) > 0
  PROVE  /\ Elements' = Elements \ {<<from, prods[from].head>>}
         /\ <<from, prods[from].head>> \in Elements
<1>1. /\ prods'[from].tail = prods[from].tail
      /\ prods'[from].head = prods[from].head + 1
      /\ DOMAIN prods' = DOMAIN prods
      /\ \A q \in DOMAIN prods \ {from} : prods'[q] = prods[q]
  BY Taking DEF OnlyIn
<1>2. /\ prods[from].tail \in Nat /\ prods[from].head \in Nat
      /\ prods[from].head < prods[from].tail
  BY Fields DEF Size
<1>3. \A i : i \in prods'[from].head .. (prods'[from].tail - 1) <=>
               i \in prods[from].head .. (prods[from].tail - 1)
               /\ i # prods[from].head
  BY <1>1, <1>2
<1>4. \A e : e \in Elements' <=>
               e \in Elements /\ e # <<from, prods[from].head>>
  <2> SUFFICES ASSUME NEW e
               PROVE  e \in Elements' <=>
                        e \in Elements /\ e # <<from, prods[from].head>>
    OBVIOUS
  <2>1. CASE \E q \in DOMAIN prods \ {from} : \E i : e = <<q, i>>
    BY <1>1, <2>1, InElements, InElementsNext
  <2>2. CASE \E i : e = <<from, i>>
    BY <1>1, <1>3, <2>2, InElements, InElementsNext
  <2> QED  BY <1>1, <2>1, <2>2, InElements, InElementsNext
<1>5. prods[from].head \in prods[from].head .. (prods[from].tail - 1)
  BY <1>2
<1>6. <<from, prods[from].head>> \in Elements
  BY <1>5, InElements
<1> QED  BY <1>4, <1>6

LEMMA ValueType ==
  ASSUME SemaTypeOK
  PROVE  Value \in Int /\ count \in Int
BY FiniteAt DEF SemaTypeOK, Value

\* A thread that is let go by the semaphore has taken one permit, wherever it
\* was, and a thread that sleeps or spins has taken none.
LEMMA WaitValue ==
  ASSUME SemaTypeOK, NEW t \in Threads
  PROVE  /\ TryWait(t) \/ SpinTakes(t) \/ Wakes(t) => Value' = Value - 1
         /\ SpinGivesUp(t) =>
              Value' = IF sema'[t] = "idle" THEN Value - 1 ELSE Value
         /\ StartSpin(t) => Value' = Value
<1>0. /\ count \in Int /\ Cardinality(Blocked) \in Nat
      /\ {"idle", "spin", "blocked"} \subseteq SemaStates
      /\ \A place : sema' = [sema EXCEPT ![t] = place] => sema'[t] = place
  BY FiniteAt DEF SemaTypeOK, SemaStates
<1>1. ASSUME TryWait(t) PROVE Value' = Value - 1
  <2>1. Blocked' = Blocked /\ count' = count - 1
    BY <1>1 DEF TryWait, Blocked
  <2> QED  BY <1>0, <2>1 DEF Value
<1>2. ASSUME SpinTakes(t) PROVE Value' = Value - 1
  <2>1. sema' = [sema EXCEPT ![t] = "idle"] /\ sema[t] = "spin"
        /\ count' = count - 1
    BY <1>2 DEF SpinTakes
  <2>2. Moved(t, "idle")
    BY <1>0, <2>1, Moves
  <2> QED  BY <1>0, <2>1, <2>2 DEF Value, Moved
<1>3. ASSUME Wakes(t) PROVE Value' = Value - 1
  <2>1. sema' = [sema EXCEPT ![t] = "idle"] /\ sema[t] = "blocked"
        /\ count' = count
    BY <1>3 DEF Wakes
  <2>2. Moved(t, "idle")
    BY <1>0, <2>1, Moves
  <2> QED  BY <1>0, <2>1, <2>2 DEF Value, Moved
<1>4. ASSUME SpinGivesUp(t)
      PROVE  Value' = IF sema'[t] = "idle" THEN Value - 1 ELSE Value
  <2>1. PICK place \in {"idle", "blocked"} :
          sema' = [sema EXCEPT ![t] = place]
    BY <1>4 DEF SpinGivesUp
  <2>2. sema[t] = "spin" /\ count' = count - 1 /\ sema'[t] = place
    BY <1>0, <1>4, <2>1 DEF SpinGivesUp
  <2>3. Moved(t, place)
    BY <1>0, <2>1, Moves
  <2>4. CASE place = "idle"
    BY <1>0, <2>2, <2>3, <2>4 DEF Value, Moved
  <2>5. CASE place = "blocked"
    BY <1>0, <2>2, <2>3, <2>5 DEF Value, Moved
  <2> QED  BY <2>1, <2>4, <2>5
<1>5. ASSUME StartSpin(t) PROVE Value' = Value
  <2>1. sema' = [sema EXCEPT ![t] = "spin"] /\ sema[t] = "idle"
        /\ count' = count
    BY <1>5 DEF StartSpin
  <2>2. Moved(t, "spin")
    BY <1>0, <2>1, Moves
  <2> QED  BY <1>0, <2>1, <2>2 DEF Value, Moved
<1> QED  BY <1>1, <1>2, <1>3, <1>4, <1>5

\* A permit is there as soon as the count is raised, before the token is.
LEMMA SignalValue ==
  ASSUME SemaTypeOK, NEW t \in Threads
  PROVE  /\ SignalAdds(t) => Value' = Value + 1
         /\ SignalPosts(t) => Value' = Value
<1>0. /\ count \in Int /\ Cardinality(Blocked) \in Nat
      /\ {"idle", "post"} \subseteq SemaStates
  BY FiniteAt DEF SemaTypeOK, SemaStates
<1>1. ASSUME SignalAdds(t) PROVE Value' = Value + 1
  <2>1. PICK place \in {"idle", "post"} : sema' = [sema EXCEPT ![t] = place]
    BY <1>1 DEF SignalAdds
  <2>2. sema[t] = "idle" /\ count' = count + 1
    BY <1>1 DEF SignalAdds
  <2>3. Moved(t, place)
    BY <1>0, <2>1, Moves
  <2> QED  BY <1>0, <2>1, <2>2, <2>3 DEF Value, Moved
<1>2. ASSUME SignalPosts(t) PROVE Value' = Value
  <2>1. sema' = [sema EXCEPT ![t] = "idle"] /\ sema[t] = "post"
        /\ count' = count
    BY <1>2 DEF SignalPosts
  <2>2. Moved(t, "idle")
    BY <1>0, <2>1, Moves
  <2> QED  BY <1>0, <2>1, <2>2 DEF Value, Moved
<1> QED  BY <1>1, <1>2

-----------------------------------------------------------------------------
Backed == IsFiniteSet(Elements) /\ PermitBacked

LEMMA BackedAs ==
  /\ PermitBacked <=> Cardinality(Elements) = Value + Cardinality(Midway)
  /\ PermitBacked' <=> Cardinality(Elements') = Value' + Cardinality(Midway')
BY DEF PermitBacked, Midway, MidwayPlaces

\* A step that touches neither the elements nor the permits, by a thread that
\* is midway as it was.
LEMMA BackedKept ==
  ASSUME Backed, SemaTypeOK, Elements' = Elements, Value' = Value,
         Cardinality(Midway') = Cardinality(Midway)
  PROVE  Backed'
BY BackedAs DEF Backed

LEMMA BackedInit ==
  ASSUME Init
  PROVE  Backed
<1>1. Elements = {} /\ Midway = {} /\ Blocked = {}
  BY DEF Init, SemaInit, Elements, Midway, MidwayPlaces, Blocked
<1>2. count = 0
  BY DEF Init, SemaInit
<1>3. Value = 0 /\ Cardinality(Elements) = 0 /\ Cardinality(Midway) = 0
      /\ IsFiniteSet(Elements)
  BY <1>1, <1>2, FS_EmptySet DEF Value
<1> QED  BY <1>3, BackedAs DEF Backed

LEMMA BackedStep ==
  ASSUME SemaInv, Typed, Phases, Claims, Backed, DrainedAtEnd, [Next]_vars
  PROVE  Backed'
<1>0. /\ \A t \in {"urb", "ctl"} : t \in Threads
      /\ \A t \in {"proc", "ctl"} : t \in Threads
      /\ SemaTypeOK /\ Value \in Int
      /\ IsFiniteSet(Midway) /\ Cardinality(Midway) \in Nat
      /\ IsFiniteSet(Elements) /\ Cardinality(Elements) \in Nat
      /\ Cardinality(Elements) = Value + Cardinality(Midway)
  BY ThreadIds, ValueType, MidwayFinite, FS_CardinalityType, BackedAs
  DEF Backed, SemaInv
<1>a. /\ sema' = sema /\ count' = count => Value' = Value
      /\ prods' = prods => Elements' = Elements
      /\ pc' = pc => Midway' = Midway
  BY DEF Value, Blocked, Elements, Midway
<1> USE DEF MidwayPlaces
<1>1. ASSUME NEW t \in {"urb", "ctl"}, FindProducer(t)
      PROVE  Backed'
  <2>1. Elements' = Elements /\ Value' = Value
    BY <1>1, <1>a, ElementsFound DEF FindProducer, semaVars
  <2>2. PICK place \in {"index", "write"} : Go(t, place)
    BY <1>1 DEF FindProducer
  <2>3. Cardinality(Midway') = Cardinality(Midway)
    BY <1>0, <1>1, <2>2, MidwayMoves DEF FindProducer
  <2> QED  BY <1>0, <2>1, <2>3, BackedKept
<1>2. ASSUME NEW t \in {"urb", "ctl"}, InsertEntry(t) \/ NextBlock(t)
      PROVE  Backed'
  <2>1. pc[t] \in {"index", "block"} /\ Value' = Value
    BY <1>2, <1>a DEF InsertEntry, NextBlock, semaVars
  <2>2. Id(t) \in DOMAIN prods
    BY <2>1 DEF Claims
  <2>3. Elements' = Elements
    BY <1>2, <2>2, Inserting, GettingBlock, ElementsKept
  <2>4. PICK place \in {"block", "write"} : Go(t, place)
    BY <1>2 DEF InsertEntry, NextBlock
  <2>5. Cardinality(Midway') = Cardinality(Midway)
    BY <1>0, <2>1, <2>4, MidwayMoves
  <2> QED  BY <1>0, <2>1, <2>3, <2>5, BackedKept
<1>3. ASSUME NEW t \in {"urb", "ctl"}, Write(t)
      PROVE  Backed'
  <2>1. pc[t] = "write" /\ Value' = Value /\ Go(t, "signal")
    BY <1>3, <1>a DEF Write, semaVars
  <2>2. Id(t) \in DOMAIN prods
    BY <2>1 DEF Claims
  <2>3. Cardinality(Midway') = Cardinality(Midway) + 1
    BY <1>0, <2>1, MidwayMoves
  <2>4. PICK e : Elements' = Elements \cup {e} /\ e \notin Elements
    BY <1>3, <2>2, ElementsWritten
  <2>5. IsFiniteSet(Elements')
        /\ Cardinality(Elements') = Cardinality(Elements) + 1
    BY <1>0, <2>4, FS_AddElement
  <2> QED  BY <1>0, <2>1, <2>3, <2>5, BackedAs DEF Backed
<1>4. ASSUME NEW t \in {"urb", "ctl"}, Signals(t)
      PROVE  Backed'
  <2>1. Elements' = Elements
    BY <1>4, <1>a DEF Signals, memoryVars
  <2>2. CASE pc[t] = "signal" /\ SignalAdds(t)
    <3>1. PICK place \in {"post", "idle", "done"} : Go(t, place)
      BY <1>4 DEF Signals, Done
    <3>2. Cardinality(Midway') = Cardinality(Midway) - 1
      BY <1>0, <2>2, <3>1, MidwayMoves
    <3>3. Value' = Value + 1
      BY <1>0, <2>2, SignalValue
    <3> QED  BY <1>0, <2>1, <3>2, <3>3, BackedAs DEF Backed
  <2>3. CASE pc[t] = "post" /\ SignalPosts(t)
    <3>1. PICK place \in {"post", "idle", "done"} : Go(t, place)
      BY <1>4 DEF Signals, Done
    <3>2. Cardinality(Midway') = Cardinality(Midway)
      BY <1>0, <2>3, <3>1, MidwayMoves
    <3>3. Value' = Value
      BY <1>0, <2>3, SignalValue
    <3> QED  BY <1>0, <2>1, <3>2, <3>3, BackedKept
  <2> QED  BY <1>4, <2>2, <2>3 DEF Signals
<1>5. CASE Waits
  <2>1. pc["proc"] = "wait" /\ Elements' = Elements /\ "proc" \in Threads
    BY <1>0, <1>5, <1>a DEF Waits, memoryVars
  <2>2. CASE Go("proc", "scan") /\ Value' = Value - 1
    <3>1. Cardinality(Midway') = Cardinality(Midway) + 1
      BY <1>0, <2>1, <2>2, MidwayMoves
    <3> QED  BY <1>0, <2>1, <2>2, <3>1, BackedAs DEF Backed
  <2>3. CASE Go("proc", "wait") /\ Value' = Value
    <3>1. Cardinality(Midway') = Cardinality(Midway)
      BY <1>0, <2>1, <2>3, MidwayMoves
    <3> QED  BY <1>0, <2>1, <2>3, <3>1, BackedKept
  <2>4. CASE pc' = pc /\ Value' = Value
    BY <1>0, <1>a, <2>1, <2>4, BackedKept
  <2> QED  BY <1>0, <1>5, <2>1, <2>2, <2>3, <2>4, WaitValue DEF Waits
<1>6. CASE Drains
  <2>1. /\ pc["ctl"] = "drain" /\ TryWait("ctl") /\ Go("ctl", "scan")
        /\ Elements' = Elements /\ "ctl" \in Threads
    BY <1>0, <1>6, <1>a DEF Drains, memoryVars
  <2>2. Cardinality(Midway') = Cardinality(Midway) + 1
    BY <2>1, <1>0, MidwayMoves
  <2>3. Value' = Value - 1
    BY <1>0, <2>1, WaitValue
  <2> QED  BY <1>0, <2>1, <2>2, <2>3, BackedAs DEF Backed
<1>7. ASSUME NEW t \in {"proc", "ctl"}, Scans(t)
      PROVE  Backed'
  <2>1. pc[t] = "scan" /\ Go(t, "take") /\ Elements' = Elements
        /\ Value' = Value
    BY <1>7, <1>a DEF Scans, memoryVars, semaVars
  <2>2. Cardinality(Midway') = Cardinality(Midway)
    BY <1>0, <2>1, MidwayMoves
  <2> QED  BY <1>0, <2>1, <2>2, BackedKept
<1>8. ASSUME NEW t \in {"proc", "ctl"}, Takes(t)
      PROVE  Backed'
  <2>1. pc[t] = "take" /\ Value' = Value /\ Go(t, "empty")
    BY <1>8, <1>a DEF Takes, semaVars
  <2>2. from \in DOMAIN prods /\ Size(from) > 0
    BY <2>1 DEF Claims
  <2>3. Cardinality(Midway') = Cardinality(Midway) - 1
    BY <1>0, <2>1, MidwayMoves
  <2>4. PICK e : Elements' = Elements \ {e} /\ e \in Elements
    BY <1>8, <2>2, ElementsTaken
  <2>5. IsFiniteSet(Elements')
        /\ Cardinality(Elements') = Cardinality(Elements) - 1
    BY <1>0, <2>4, FS_RemoveElement
  <2> QED  BY <1>0, <2>1, <2>3, <2>5, BackedAs DEF Backed
<1>9. ASSUME NEW t \in {"proc", "ctl"}, Empties(t)
      PROVE  Backed'
  <2>1. pc[t] = "empty" /\ Value' = Value
        /\ (Go(t, "free") \/ Go(t, Returned(t)))
    BY <1>9, <1>a DEF Empties, semaVars
  <2>2. from \in DOMAIN prods /\ slot \in Slots
    BY <2>1 DEF Claims
  <2>3. Elements' = Elements
    BY <1>9, <2>2, EmptyingOne, ElementsKept
  <2>4. PICK place \in {"free", "idle", "drain"} : Go(t, place)
    BY <2>1 DEF Returned
  <2>5. Cardinality(Midway') = Cardinality(Midway)
    BY <1>0, <2>1, <2>4, MidwayMoves
  <2> QED  BY <1>0, <2>1, <2>3, <2>5, BackedKept
<1>10. ASSUME NEW t \in {"proc", "ctl"}, FreesBlock(t)
       PROVE  Backed'
  <2>1. pc[t] = "free" /\ Value' = Value /\ Elements' = Elements
    BY <1>10, <1>a DEF FreesBlock, semaVars
  <2>2. PICK place \in {"idle", "drain"} : Go(t, place)
    BY <1>10 DEF FreesBlock, Returned
  <2>3. Cardinality(Midway') = Cardinality(Midway)
    BY <1>0, <2>1, <2>2, MidwayMoves
  <2> QED  BY <1>0, <2>1, <2>3, BackedKept
<1>11. CASE Refuses
  <2>1. pc["urb"] \in {"index", "block"} /\ Value' = Value
        /\ Go("urb", "idle") /\ "urb" \in Threads
    BY <1>0, <1>11, <1>a DEF Refuses, semaVars
  <2>2. Elements' = Elements
    BY <1>11, <1>a, Refusing, ElementsKept
  <2>3. Cardinality(Midway') = Cardinality(Midway)
    BY <1>0, <2>1, MidwayMoves
  <2> QED  BY <1>0, <2>1, <2>2, <2>3, BackedKept
<1>12. CASE ProcessThread \/ EnqueuesFrame \/ Drained
  <2>1. Value' = Value /\ Elements' = Elements
    BY <1>12, <1>a DEF ProcessThread, EnqueuesFrame, Drained, memoryVars,
                      semaVars
  <2>2. \E t \in Threads, place \in {"wait", "done", "find", "off"} :
          Go(t, place) /\ pc[t] \in {"idle", "drain"}
    BY <1>0, <1>12 DEF ProcessThread, EnqueuesFrame, Drained
  <2>3. PICK t \in Threads, place \in {"wait", "done", "find", "off"} :
          Go(t, place) /\ pc[t] \in {"idle", "drain"}
    BY <2>2
  <2>4. Cardinality(Midway') = Cardinality(Midway)
    BY <1>0, <2>3, MidwayMoves
  <2> QED  BY <1>0, <2>1, <2>4, BackedKept
<1>13. CASE StartStreaming \/ StopStreaming \/ JoinProcessThread
  <2>1. Value' = Value /\ Elements' = Elements
    BY <1>13, <1>a DEF StartStreaming, StopStreaming, JoinProcessThread,
                      memoryVars, semaVars
  <2>2. \A t \in Threads : pc'[t] \in MidwayPlaces <=> pc[t] \in MidwayPlaces
    BY <1>0, <1>13 DEF StartStreaming, StopStreaming, JoinProcessThread, Typed,
                      Phases
  <2>3. Midway' = Midway
    BY <2>2 DEF Midway
  <2> QED  BY <1>0, <2>1, <2>3, BackedKept
<1>14. CASE DeleteQueue
  <2>1. /\ ctl = "off" /\ prods' = <<>> /\ Value' = Value /\ Midway' = Midway
    BY <1>14, <1>a DEF DeleteQueue, semaVars
  <2>2. Elements' = {} /\ Elements = {}
    BY <2>1 DEF DrainedAtEnd, Elements
  <2> QED  BY <1>0, <2>1, <2>2, BackedKept
<1>15. CASE UNCHANGED vars
  BY <1>0, <1>15, <1>a, BackedKept DEF vars, memoryVars, semaVars
<1> QED
  BY <1>1, <1>2, <1>3, <1>4, <1>5, <1>6, <1>7, <1>8, <1>9, <1>10, <1>11,
     <1>12, <1>13, <1>14, <1>15
  DEF Next, UrbThread, ProcThread, CtlThread, Enqueue, Dequeue

\* When a drain finds the count at zero, nobody is in the semaphore, so the
\* balance of wakeups leaves no token, and the permits no element.
LEMMA DrainedStep ==
  ASSUME SemaInv, Typed, Phases, Backed, DrainedAtEnd, [Next]_vars
  PROVE  DrainedAtEnd'
<1>1. CASE Drained
  <2>1. /\ ctl = "draining" /\ pc["ctl"] = "drain" /\ count <= 0
        /\ prods' = prods /\ count' = count /\ tokens' = tokens
        /\ sema' = sema
    BY <1>1 DEF Drained, memoryVars, semaVars
  <2>2. \A t \in Threads : sema[t] = "idle" /\ pc[t] \notin MidwayPlaces
    BY <2>1, ThreadIds DEF Phases, MidwayPlaces
  <2>3. Blocked = {} /\ Posting = {} /\ Midway = {}
    BY <2>2 DEF Blocked, Posting, Midway
  <2>4. /\ Cardinality(Blocked) = 0 /\ Cardinality(Posting) = 0
        /\ Cardinality(Midway) = 0
    BY <2>3, FS_EmptySet
  <2>5. IsFiniteSet(Elements) /\ Cardinality(Elements) \in Nat
        /\ Cardinality(Elements) = Value + Cardinality(Midway)
    BY BackedAs, FS_CardinalityType DEF Backed
  <2>6. /\ count \in Int /\ tokens \in Nat
        /\ Cardinality(Blocked) = tokens + Cardinality(Posting)
                                  + (IF count < 0 THEN -count ELSE 0)
    BY DEF SemaInv, SemaTypeOK, WakeupsBalance
  <2>7. count = 0 /\ tokens = 0 /\ Cardinality(Elements) = 0 /\ Value = 0
    BY <2>1, <2>4, <2>5, <2>6 DEF Value
  <2>8. Elements = {}
    BY <2>5, <2>7, FS_EmptySet
  <2>9. Elements' = Elements /\ Value' = Value /\ Blocked' = Blocked
    BY <2>1 DEF Elements, Value, Blocked
  <2> QED  BY <2>1, <2>3, <2>7, <2>8, <2>9 DEF DrainedAtEnd
<1>2. CASE ctl' # "off"
  BY <1>2 DEF DrainedAtEnd
<1>3. CASE UNCHANGED vars
  BY <1>3 DEF vars, driverVars, memoryVars, semaVars, DrainedAtEnd, Elements,
             Value, Blocked
<1>4. ASSUME ctl' = "off", ~Drained, Next
      PROVE  FALSE
  <2>1. /\ ~StartStreaming /\ ~StopStreaming /\ ~DeleteQueue
        /\ ~JoinProcessThread
    BY <1>4 DEF StartStreaming, StopStreaming, DeleteQueue, JoinProcessThread
  <2>2. ctl' = ctl
    BY <1>4, <2>1
    DEF Next, UrbThread, ProcThread, CtlThread, Enqueue, Dequeue, FindProducer,
        InsertEntry, NextBlock, Write, Signals, Refuses, ProcessThread, Waits,
        Scans, Takes, Empties, FreesBlock, Drains, EnqueuesFrame, driverVars
  <2>3. \A t \in Threads : pc[t] = "off"
    BY <1>4, <2>2 DEF Phases
  <2> QED
    BY <1>4, <2>1, <2>2, <2>3, ThreadIds
    DEF Next, UrbThread, ProcThread, CtlThread, Enqueue, Dequeue, FindProducer,
        InsertEntry, NextBlock, Write, Signals, Refuses, ProcessThread, Waits,
        Scans, Takes, Empties, FreesBlock, Drains, EnqueuesFrame
<1> QED  BY <1>1, <1>2, <1>3, <1>4

-----------------------------------------------------------------------------
(***************************************************************************)
(* The inductive invariant of the permits, and what follows from it.       *)
(***************************************************************************)

PermitsInv ==
  SemaInv /\ Typed /\ Phases /\ Claims /\ Backed /\ DrainedAtEnd

LEMMA PermitsInvInit ==
  ASSUME Init
  PROVE  PermitsInv
<1>1. SemaInv
  BY InitInv DEF Init
<1>2. Elements = {} /\ Blocked = {} /\ tokens = 0 /\ count = 0
  BY DEF Init, SemaInit, Elements, Blocked
<1>3. DrainedAtEnd
  BY <1>2, FS_EmptySet DEF DrainedAtEnd, Value
<1>4. Typed
  <2>1. pc \in [Threads -> Places] /\ SemaTypeOK
    BY <1>1 DEF Init, Places, SemaInv
  <2> QED  BY <2>1 DEF Init, Typed, Ids
<1>5. Claims
  BY ThreadIds DEF Init, Claims
<1> QED  BY <1>1, <1>3, <1>4, <1>5, PhasesInit, BackedInit DEF PermitsInv

LEMMA PermitsInvStep ==
  ASSUME PermitsInv, [Next]_vars
  PROVE  PermitsInv'
<1>1. SemaInv'
  BY QueueStep, StepInv DEF PermitsInv
<1> QED
  BY <1>1, PhasesStep, TypedStep, ClaimsStep, BackedStep, DrainedStep
  DEF PermitsInv, SemaInv

LEMMA PermitsInvHolds == Spec => []PermitsInv
BY PermitsInvInit, PermitsInvStep, PTL DEF Spec

\* For any blocks, index, capacity and number of sessions the permits are the
\* elements of the queue, but for those of threads midway in an enqueue or a
\* dequeue.
THEOREM PermitsAreBacked == Spec => []PermitBacked
<1>1. PermitsInv => PermitBacked
  BY DEF PermitsInv, Backed
<1> QED  BY <1>1, PermitsInvHolds, PTL

\* A stop leaves no element, no permit, no token and no sleeper behind.
THEOREM StopsDrain == Spec => []DrainedAtEnd
<1>1. PermitsInv => DrainedAtEnd
  BY DEF PermitsInv
<1> QED  BY <1>1, PermitsInvHolds, PTL

\* A thread that has a permit and looks for its element always finds one: the
\* loop `while (!inner.try_dequeue(item)) continue;' of wait_dequeue does not
\* depend on anybody else.
ScanFinds ==
  \A t \in {"proc", "ctl"} :
    pc[t] = "scan" => \E p \in DOMAIN prods : Size(p) > 0

\* ScanFinds, for any blocks, index, capacity, thread ids and sessions.
THEOREM ScansFind == Spec => []ScanFinds
<1>1. ASSUME PermitsInv, NEW t \in {"proc", "ctl"}, pc[t] = "scan"
      PROVE  \E p \in DOMAIN prods : Size(p) > 0
  <2>1. /\ IsFiniteSet(Midway) /\ Cardinality(Midway) \in Nat
        /\ IsFiniteSet(Elements) /\ Cardinality(Elements) \in Nat
        /\ Cardinality(Elements) = Value + Cardinality(Midway)
    BY <1>1, MidwayFinite, BackedAs, FS_CardinalityType DEF PermitsInv, Backed
  <2>2. t \in Midway
    BY <1>1, ThreadIds DEF Midway, MidwayPlaces
  <2>3. Cardinality(Midway) # 0
    BY <2>1, <2>2, FS_EmptySet
  <2>4. /\ count \in Int /\ tokens \in Nat
        /\ Cardinality(Posting) \in Nat /\ Cardinality(Blocked) \in Nat
        /\ Cardinality(Blocked) = tokens + Cardinality(Posting)
                                  + (IF count < 0 THEN -count ELSE 0)
    BY <1>1, FiniteAt DEF PermitsInv, SemaInv, SemaTypeOK, WakeupsBalance
  <2>5. Cardinality(Elements) > 0
    BY <2>1, <2>3, <2>4 DEF Value
  <2>6. Elements # {}
    BY <2>1, <2>5, FS_EmptySet
  <2>7. PICK p \in DOMAIN prods :
          prods[p].head .. (prods[p].tail - 1) # {}
    BY <2>6, InElements
  <2>8. Typed
    BY <1>1 DEF PermitsInv
  <2>9. prods[p].head \in Nat /\ prods[p].tail \in Nat
        /\ Size(p) = prods[p].tail - prods[p].head
    BY <2>7, <2>8, Fields
  <2> QED  BY <2>7, <2>9
<1>2. PermitsInv => ScanFinds
  BY <1>1 DEF ScanFinds
<1> QED  BY <1>2, PermitsInvHolds, PTL


-----------------------------------------------------------------------------
(***************************************************************************)
(* Quotients and remainders, by which an index finds its block in a ring.  *)
(***************************************************************************)

LEMMA DivMod ==
  ASSUME NEW a \in Int, NEW n \in Nat \ {0}
  PROVE  /\ a = n * (a \div n) + (a % n)
         /\ a % n \in 0..(n - 1) /\ a \div n \in Int
OBVIOUS

LEMMA Multiple ==
  ASSUME NEW n \in Nat \ {0}, NEW d \in Int, NEW c \in Int, d * n = c,
         c < n, -n < c
  PROVE  d = 0
<1>1. ASSUME d >= 1 PROVE FALSE
  <2>1. d * n >= n  BY <1>1
  <2> QED  BY <2>1
<1>2. ASSUME d <= -1 PROVE FALSE
  <2>1. (-d) * n >= n  BY <1>2
  <2>2. (-d) * n = -c  OBVIOUS
  <2> QED  BY <2>1, <2>2
<1> QED  BY <1>1, <1>2

\* A number has one quotient and one remainder.
LEMMA Quotient ==
  ASSUME NEW n \in Nat \ {0}, NEW q \in Int, NEW r \in 0..(n - 1)
  PROVE  ((q * n) + r) \div n = q /\ ((q * n) + r) % n = r
<1> DEFINE a == (q * n) + r
           k == a \div n
           m == a % n
<1>1. a \in Int  OBVIOUS
<1>2. a = n * k + m /\ m \in 0..(n - 1) /\ k \in Int
  BY <1>1, DivMod
<1> HIDE DEF k, m
<1>3. (k - q) * n = r - m /\ k - q \in Int /\ r - m \in Int
  BY <1>2
<1>4. r - m < n /\ -n < r - m
  BY <1>2
<1>5. k - q = 0
  BY <1>3, <1>4, Multiple
<1>6. k = q /\ m = r
  BY <1>2, <1>3, <1>5
<1> QED  BY <1>6 DEF k, m

\* Indices of a ring are added modulo its size.
LEMMA ModPlus ==
  ASSUME NEW a \in Int, NEW b \in Int, NEW n \in Nat \ {0}
  PROVE  ((a % n) + b) % n = (a + b) % n
<1> DEFINE q == a \div n
           r == a % n
           k == (r + b) \div n
           m == (r + b) % n
<1>1. a = n * q + r /\ q \in Int /\ r \in Int
  BY DivMod
<1> HIDE DEF q, r
<1>2. r + b = n * k + m /\ k \in Int /\ m \in 0..(n - 1)
  BY <1>1, DivMod
<1> HIDE DEF k, m
<1>3. a + b = ((q + k) * n) + m /\ q + k \in Int
  BY <1>1, <1>2
<1>4. (((q + k) * n) + m) % n = m
  BY <1>2, <1>3, Quotient
<1> QED  BY <1>3, <1>4 DEF m, r

\* Fewer than n numbers in a row have different remainders.
LEMMA ModApart ==
  ASSUME NEW a \in Int, NEW b \in Int, NEW n \in Nat \ {0},
         a < b, b < a + n
  PROVE  a % n # b % n
<1> SUFFICES ASSUME a % n = b % n PROVE FALSE
  OBVIOUS
<1>1. a = n * (a \div n) + (a % n) /\ a \div n \in Int /\ a % n \in Int
  BY DivMod
<1>2. b = n * (b \div n) + (b % n) /\ b \div n \in Int
  BY DivMod
<1>3. (b \div n - a \div n) * n = b - a
  BY <1>1, <1>2
<1>4. b \div n - a \div n = 0
  BY <1>1, <1>2, <1>3, Multiple
<1> QED  BY <1>3, <1>4

LEMMA DivMonotone ==
  ASSUME NEW a \in Int, NEW b \in Int, NEW n \in Nat \ {0}, a <= b
  PROVE  a \div n <= b \div n
OBVIOUS

\* The next number begins a block or is in the same.
LEMMA Successor ==
  ASSUME NEW a \in Int, NEW n \in Nat \ {0}
  PROVE  /\ a % n = n - 1 =>
              (a + 1) \div n = (a \div n) + 1 /\ (a + 1) % n = 0
         /\ a % n # n - 1 =>
              (a + 1) \div n = a \div n /\ (a + 1) % n = (a % n) + 1
<1>1. a = n * (a \div n) + (a % n) /\ a \div n \in Int /\ a % n \in 0..(n - 1)
  BY DivMod
<1>2. CASE a % n = n - 1
  <2>1. a + 1 = (((a \div n) + 1) * n) + 0
    BY <1>1, <1>2
  <2>2. 0 \in 0..(n - 1) /\ (a \div n) + 1 \in Int
    BY <1>1
  <2>3. ((((a \div n) + 1) * n) + 0) \div n = (a \div n) + 1
        /\ ((((a \div n) + 1) * n) + 0) % n = 0
    BY <2>2, Quotient
  <2> QED  BY <1>2, <2>1, <2>3
<1>3. CASE a % n # n - 1
  <2>1. a + 1 = ((a \div n) * n) + ((a % n) + 1)
    BY <1>1, <1>3
  <2>2. (a % n) + 1 \in 0..(n - 1)
    BY <1>1, <1>3
  <2>3. (((a \div n) * n) + ((a % n) + 1)) \div n = a \div n
        /\ (((a \div n) * n) + ((a % n) + 1)) % n = (a % n) + 1
    BY <1>1, <2>2, Quotient
  <2> QED  BY <1>3, <2>1, <2>3
<1> QED  BY <1>2, <1>3

-----------------------------------------------------------------------------
(***************************************************************************)
(* The ring of a sub-queue.  Blocks of elements are numbered from 0; block *)
(* j of a sub-queue is found in slot At(j).  The blocks from f to l are in *)
(* the index, at most as many as it has slots, and all but the last one,   *)
(* when the enqueue still asks for it, have an address.                    *)
(***************************************************************************)

At(j) == j % IndexSize

Ring(x, f, l, asks) ==
  /\ f \in Nat /\ l \in Int /\ f <= l + 1 /\ l - f < IndexSize
  /\ x.last = At(l)
  /\ \A j \in f..l : x.key[At(j)] = j * BlockSize
  /\ \A j \in f..l : x.value[At(j)] = NoBlock <=> (asks /\ j = l)
  /\ \A s \in Slots : x.value[s] # NoBlock => \E j \in f..l : s = At(j)

\* Slots of the blocks of a ring are different.
LEMMA AtType ==
  ASSUME NEW j \in Int
  PROVE  At(j) \in Slots /\ At(j) \in Int
BY InRing DEF At, Slots

LEMMA AtPlus ==
  ASSUME NEW j \in Int, NEW d \in Int
  PROVE  (At(j) + d) % IndexSize = At(j + d)
<1>1. IndexSize \in Nat \ {0}
  BY QueueAssumption
<1>2. ((j % IndexSize) + d) % IndexSize = (j + d) % IndexSize
  BY <1>1, ModPlus, Zenon
<1> QED  BY <1>2, Zenon DEF At

LEMMA AtAround ==
  ASSUME NEW j \in Int
  PROVE  At(j + IndexSize) = At(j)
<1>1. IndexSize \in Nat \ {0}
  BY QueueAssumption
<1> DEFINE q == j \div IndexSize
           r == j % IndexSize
<1>2. j = IndexSize * q + r /\ q \in Int /\ r \in 0..(IndexSize - 1)
  BY <1>1, DivMod
<1> HIDE DEF q, r
<1>3. j + IndexSize = ((q + 1) * IndexSize) + r /\ q + 1 \in Int
  BY <1>1, <1>2
<1>4. (((q + 1) * IndexSize) + r) % IndexSize = r
  BY <1>1, <1>2, <1>3, Quotient
<1> QED  BY <1>3, <1>4 DEF At, r

Distinct(f, l) == \A i, j \in f..l : At(i) = At(j) => i = j

LEMMA AtApart ==
  ASSUME NEW f \in Int, NEW l \in Int, l - f < IndexSize
  PROVE  Distinct(f, l)
<1>1. IndexSize \in Nat \ {0}
  BY QueueAssumption
<1>2. ASSUME NEW i \in f..l, NEW j \in f..l, i < j
      PROVE  At(i) # At(j)
  <2>1. j < i + IndexSize /\ i \in Int /\ j \in Int
    BY <1>1, <1>2
  <2>2. i % IndexSize # j % IndexSize
    BY <1>1, <1>2, <2>1, ModApart, Zenon
  <2> QED  BY <2>2 DEF At
<1>3. \A i, j \in f..l : i < j \/ j < i \/ i = j
  OBVIOUS
<1> QED  BY <1>2, <1>3 DEF Distinct

\* With room in the slot behind the last block there is room in the ring.
LEMMA RingRoom ==
  ASSUME NEW x, NEW f, NEW l, Ring(x, f, l, FALSE),
         x.value[(x.last + 1) % IndexSize] = NoBlock
  PROVE  /\ (x.last + 1) % IndexSize = At(l + 1)
         /\ (l + 1) - f < IndexSize
<1>1. /\ IndexSize \in Nat \ {0} /\ f \in Nat /\ l \in Int
      /\ x.last = At(l) /\ f <= l + 1 /\ l - f < IndexSize
  BY QueueAssumption DEF Ring
<1>2. (x.last + 1) % IndexSize = At(l + 1)
  BY <1>1, AtPlus
<1>3. ASSUME (l + 1) - f >= IndexSize
      PROVE  FALSE
  <2>1. l + 1 = f + IndexSize /\ f \in f..l
    BY <1>1, <1>3
  <2>3. At(l + 1) = At(f)
    BY <1>1, <2>1, AtAround
  <2>4. x.value[At(f)] = NoBlock
    BY <1>2, <2>3
  <2> QED  BY <2>1, <2>4 DEF Ring
<1> QED  BY <1>1, <1>2, <1>3

LEMMA RingInserts ==
  ASSUME NEW x, NEW y, NEW f, NEW l, Ring(x, f, l, FALSE),
         x.value[(x.last + 1) % IndexSize] = NoBlock,
         x.key \in [Slots -> Int],
         y.last = (x.last + 1) % IndexSize, y.value = x.value,
         y.key = [x.key EXCEPT ![(x.last + 1) % IndexSize] =
                                  (l + 1) * BlockSize]
  PROVE  Ring(y, f, l + 1, TRUE)
<1>1. /\ (x.last + 1) % IndexSize = At(l + 1)
      /\ (l + 1) - f < IndexSize
      /\ f \in Nat /\ l \in Int /\ f <= l + 1
  BY RingRoom DEF Ring
<1>2. \A j \in f..l : At(j) # At(l + 1)
  <2> SUFFICES ASSUME NEW j \in f..l, At(j) = At(l + 1) PROVE FALSE
    OBVIOUS
  <2>1. j \in f..(l + 1) /\ l + 1 \in f..(l + 1) /\ l + 1 \in Int
    BY <1>1
  <2>2. Distinct(f, l + 1)
    BY <1>1, <2>1, AtApart
  <2>3. j = l + 1
    BY <2>1, <2>2 DEF Distinct
  <2> QED  BY <1>1, <2>3
<1>3. \A j \in f..(l + 1) : (j \in f..l \/ j = l + 1) /\ At(j) \in Slots
  BY <1>1, AtType
<1>4. \A j \in f..(l + 1) : y.key[At(j)] = j * BlockSize
  BY <1>1, <1>2, <1>3 DEF Ring
<1>5. \A j \in f..(l + 1) :
        y.value[At(j)] = NoBlock <=> j = l + 1
  BY <1>1, <1>2, <1>3 DEF Ring
<1>6. \A s \in Slots : y.value[s] # NoBlock => \E j \in f..(l + 1) : s = At(j)
  <2>1. f..l \subseteq f..(l + 1)
    BY <1>1
  <2> QED  BY <2>1 DEF Ring
<1> QED  BY <1>1, <1>4, <1>5, <1>6 DEF Ring

\* y is x with the address of its block in the last entry.
Filled(x, y) ==
  /\ y.block # NoBlock /\ y.last = x.last /\ y.key = x.key
  /\ x.value \in [Slots -> Nat]
  /\ y.value = [x.value EXCEPT ![x.last] = y.block]

LEMMA RingFills ==
  ASSUME NEW x, NEW y, NEW f, NEW l, Ring(x, f, l, TRUE), f <= l,
         Filled(x, y)
  PROVE  Ring(y, f, l, FALSE) /\ y.value[At(l)] = y.block
<1>1. /\ f \in Nat /\ l \in Int /\ l - f < IndexSize /\ x.last = At(l)
      /\ l \in f..l
  BY DEF Ring
<1>2. /\ \A j \in f..l : At(j) \in Slots /\ j \in Int
      /\ \A j \in f..l : At(j) = At(l) => j = l
  <2>1. Distinct(f, l)
    BY <1>1, AtApart
  <2> QED  BY <1>1, <2>1, AtType DEF Distinct
<1>f. /\ y.block # NoBlock /\ y.last = x.last /\ y.key = x.key
      /\ x.value \in [Slots -> Nat]
      /\ y.value = [x.value EXCEPT ![x.last] = y.block]
  BY DEF Filled
<1>3. /\ \A j \in f..l : y.value[At(j)] # NoBlock
      /\ y.value[At(l)] = y.block
  BY <1>1, <1>2, <1>f DEF Ring
<1>4. \A s \in Slots : y.value[s] # NoBlock => \E j \in f..l : s = At(j)
  BY <1>1, <1>f DEF Ring
<1> QED  BY <1>1, <1>3, <1>4, <1>f DEF Ring

LEMMA RingRewinds ==
  ASSUME NEW x, NEW y, NEW f, NEW l, Ring(x, f, l, TRUE), f <= l,
         y.last = (x.last - 1) % IndexSize, y.key = x.key,
         y.value = x.value
  PROVE  Ring(y, f, l - 1, FALSE)
<1>1. /\ f \in Nat /\ l \in Int /\ l - f < IndexSize /\ x.last = At(l)
      /\ l \in f..l /\ f..(l - 1) \subseteq f..l
  BY DEF Ring
<1>2. y.last = At(l - 1)
  <2>1. (At(l) + (-1)) % IndexSize = At(l + (-1))
    BY <1>1, AtPlus
  <2>2. At(l) \in Int
    BY <1>1, AtType
  <2> QED  BY <1>1, <2>1, <2>2
<1>3. \A j \in f..(l - 1) : y.value[At(j)] # NoBlock
                            /\ y.key[At(j)] = j * BlockSize
  BY <1>1 DEF Ring
<1>4. \A s \in Slots : y.value[s] # NoBlock => \E j \in f..(l - 1) : s = At(j)
  <2> SUFFICES ASSUME NEW s \in Slots, y.value[s] # NoBlock
               PROVE  \E j \in f..(l - 1) : s = At(j)
    OBVIOUS
  <2>1. PICK j \in f..l : s = At(j)
    BY DEF Ring
  <2>2. j # l
    BY <1>1, <2>1 DEF Ring
  <2>3. j \in f..(l - 1)
    BY <1>1, <2>2
  <2> QED  BY <2>1, <2>3
<1>5. l - 1 \in Int /\ f <= (l - 1) + 1 /\ (l - 1) - f < IndexSize
  BY <1>1, QueueAssumption
<1> QED  BY <1>1, <1>2, <1>3, <1>4, <1>5 DEF Ring

LEMMA RingClears ==
  ASSUME NEW x, NEW y, NEW f, NEW l, NEW asks, Ring(x, f, l, asks), f <= l,
         asks => f # l, x.value \in [Slots -> Nat],
         y.last = x.last, y.key = x.key,
         y.value = [x.value EXCEPT ![At(f)] = NoBlock]
  PROVE  Ring(y, f + 1, l, asks)
<1>1. /\ f \in Nat /\ l \in Int /\ l - f < IndexSize
      /\ f \in f..l /\ (f + 1)..l \subseteq f..l /\ f \notin (f + 1)..l
  BY DEF Ring
<1>2. \A j \in (f + 1)..l : At(j) \in Slots /\ At(j) # At(f)
  <2>1. Distinct(f, l)
    BY <1>1, AtApart
  <2> QED  BY <1>1, <2>1, AtType DEF Distinct
<1>3. \A j \in (f + 1)..l :
        /\ y.value[At(j)] = NoBlock <=> (asks /\ j = l)
        /\ y.key[At(j)] = j * BlockSize
  BY <1>1, <1>2 DEF Ring
<1>4. \A s \in Slots :
        y.value[s] # NoBlock => \E j \in (f + 1)..l : s = At(j)
  <2> SUFFICES ASSUME NEW s \in Slots, y.value[s] # NoBlock
               PROVE  \E j \in (f + 1)..l : s = At(j)
    OBVIOUS
  <2>1. s # At(f) /\ x.value[s] # NoBlock
    OBVIOUS
  <2>2. PICK j \in f..l : s = At(j)
    BY <2>1 DEF Ring
  <2>3. j \in (f + 1)..l
    BY <1>1, <2>1, <2>2
  <2> QED  BY <2>2, <2>3
<1>5. f + 1 \in Nat /\ f + 1 <= l + 1 /\ l - (f + 1) < IndexSize
      /\ y.last = At(l)
  BY <1>1, QueueAssumption DEF Ring
<1> QED  BY <1>1, <1>3, <1>4, <1>5 DEF Ring

-----------------------------------------------------------------------------
(***************************************************************************)
(* Which blocks of a sub-queue are in its ring.  An enqueue has opened the *)
(* block of the tail before it writes there, and a dequeue has not counted *)
(* the element that it took last.                                          *)
(***************************************************************************)

Opened(p) ==
  \E t \in {"urb", "ctl"} : pc[t] \in {"block", "write"} /\ Id(t) = p
Asks(p) == \E t \in {"urb", "ctl"} : pc[t] = "block" /\ Id(t) = p
Emptying(p) == \E t \in {"proc", "ctl"} : pc[t] = "empty" /\ from = p

\* How many elements were counted by set_empty.
Kept(p) == IF Emptying(p) THEN prods[p].head - 1 ELSE prods[p].head

First(p) == Kept(p) \div BlockSize
Last(p)  == (IF Opened(p) THEN prods[p].tail ELSE prods[p].tail - 1)
            \div BlockSize

\* The block that the tail is in, when it is in one.
TailBlock(p) ==
  prods[p].tail % BlockSize # 0 \/ (Opened(p) /\ ~Asks(p)) =>
    prods[p].block = prods[p].value[At(Last(p))]

InSlot(p) == Emptying(p) => slot = At(First(p)) /\ prods[p].head > 0

Rings ==
  \A p \in DOMAIN prods :
    Ring(prods[p], First(p), Last(p), Asks(p)) /\ TailBlock(p) /\ InSlot(p)

Boundaries ==
  \A t \in {"urb", "ctl"} :
    pc[t] \in {"index", "block"} => prods[Id(t)].tail % BlockSize = 0

\* A sub-queue that a step leaves alone, and that no thread begins or ends
\* to work on.
Same(p) ==
  /\ prods'[p] = prods[p]
  /\ Opened(p)' <=> Opened(p)
  /\ Asks(p)' <=> Asks(p)
  /\ Emptying(p)' <=> Emptying(p)
  /\ Emptying(p) => slot' = slot

LEMMA SameNumbers ==
  ASSUME NEW p, Same(p)
  PROVE  Kept(p)' = Kept(p) /\ First(p)' = First(p) /\ Last(p)' = Last(p)
BY DEF Same, Kept, First, Last

LEMMA TwoIds ==
  ASSUME Typed
  PROVE  Id("urb") = urbId /\ Id("ctl") = CtlId /\ urbId # CtlId
BY QueueAssumption DEF Typed, Id

LEMMA BlockParts ==
  ASSUME NEW a \in Int
  PROVE  /\ a = ((a \div BlockSize) * BlockSize) + (a % BlockSize)
         /\ a % BlockSize \in 0..(BlockSize - 1) /\ a \div BlockSize \in Int
<1>1. BlockSize \in Nat \ {0}
  BY QueueAssumption
<1> QED  BY <1>1, DivMod

\* The start of a block.
LEMMA BlockStart ==
  ASSUME NEW a \in Int
  PROVE  /\ a % BlockSize = 0 =>
              /\ a = (a \div BlockSize) * BlockSize
              /\ (a - 1) \div BlockSize = (a \div BlockSize) - 1
         /\ a % BlockSize # 0 => (a - 1) \div BlockSize = a \div BlockSize
         /\ a \div BlockSize \in Int
<1>1. BlockSize \in Nat \ {0} /\ a - 1 \in Int /\ (a - 1) + 1 = a
  BY QueueAssumption
<1>2. /\ (a - 1) % BlockSize = BlockSize - 1 =>
           ((a - 1) + 1) \div BlockSize = ((a - 1) \div BlockSize) + 1
           /\ ((a - 1) + 1) % BlockSize = 0
      /\ (a - 1) % BlockSize # BlockSize - 1 =>
           ((a - 1) + 1) \div BlockSize = (a - 1) \div BlockSize
           /\ ((a - 1) + 1) % BlockSize = ((a - 1) % BlockSize) + 1
  BY <1>1, Successor
<1>3. /\ a = BlockSize * (a \div BlockSize) + (a % BlockSize)
      /\ a \div BlockSize \in Int
  BY <1>1, DivMod
<1>4. (a - 1) % BlockSize \in 0..(BlockSize - 1)
      /\ (a - 1) \div BlockSize \in Int
  BY <1>1, DivMod
<1>5. a % BlockSize = 0 => a = (a \div BlockSize) * BlockSize
  BY <1>1, <1>3
<1>6. a % BlockSize = 0 => (a - 1) % BlockSize = BlockSize - 1
  BY <1>1, <1>2, <1>4
<1>7. a % BlockSize # 0 => (a - 1) % BlockSize # BlockSize - 1
  BY <1>1, <1>2
<1> QED  BY <1>1, <1>2, <1>3, <1>4, <1>5, <1>6, <1>7

\* The ends of a sub-queue, and where its blocks begin and end.
LEMMA Numbers ==
  ASSUME Typed, NEW p \in DOMAIN prods, InSlot(p)
  PROVE  /\ prods[p].tail \in Nat /\ prods[p].head \in Nat
         /\ Kept(p) \in Nat /\ Kept(p) <= prods[p].head
         /\ prods[p].head <= prods[p].tail
         /\ Emptying(p) => Kept(p) = prods[p].head - 1
         /\ ~Emptying(p) => Kept(p) = prods[p].head
         /\ First(p) \in Nat /\ Last(p) \in Int
<1>1. /\ prods[p].tail \in Nat /\ prods[p].head \in Nat
      /\ prods[p].head <= prods[p].tail
      /\ BlockSize \in Nat \ {0}
  BY Fields, QueueAssumption
<1>2. /\ Kept(p) \in Nat /\ Kept(p) <= prods[p].head
      /\ Emptying(p) => Kept(p) = prods[p].head - 1
      /\ ~Emptying(p) => Kept(p) = prods[p].head
  BY <1>1 DEF InSlot, Kept
<1>3. \A a \in Nat : a \div BlockSize \in Nat
  BY <1>1
<1>4. First(p) \in Nat
  BY <1>2, <1>3 DEF First
<1>5. \A a \in Int : a \div BlockSize \in Int
  BY <1>1
<1>6. Last(p) \in Int
  BY <1>1, <1>5 DEF Last
<1> QED  BY <1>1, <1>2, <1>4, <1>6

\* What the step of an enqueuing thread does to who works where.
Marks(t, place) ==
  \A q : /\ Emptying(q)' <=> Emptying(q)
         /\ q = Id(t) => /\ Opened(q) <=> pc[t] \in {"block", "write"}
                         /\ Asks(q) <=> pc[t] = "block"
                         /\ Opened(q)' <=> place \in {"block", "write"}
                         /\ Asks(q)' <=> place = "block"
         /\ q # Id(t) => /\ Opened(q)' <=> Opened(q)
                         /\ Asks(q)' <=> Asks(q)

LEMMA EnqueueMarks ==
  ASSUME Typed, NEW t \in {"urb", "ctl"}, NEW place, Go(t, place),
         pc[t] # "empty", place # "empty", urbId' = urbId, from' = from
  PROVE  Marks(t, place)
<1>1. /\ pc'[t] = place /\ \A u \in Threads \ {t} : pc'[u] = pc[u]
      /\ Threads = {"urb", "proc", "ctl"}
  BY Goes, ThreadIds
<1>2. Id("urb") = urbId /\ Id("ctl") = CtlId /\ urbId # CtlId
  BY TwoIds
<1>3. \A u : Id(u)' = Id(u)
  BY DEF Id
<1>4. CASE t = "urb"
  BY <1>1, <1>2, <1>3, <1>4 DEF Opened, Asks, Emptying, Marks
<1>5. CASE t = "ctl"
  BY <1>1, <1>2, <1>3, <1>5 DEF Opened, Asks, Emptying, Marks
<1> QED  BY <1>4, <1>5

\* The other sub-queues.
OthersSame(p) == \A q \in DOMAIN prods \ {p} : Same(q)

\* The sub-queue is as it was, or new, and opened if it is within a block.
LEMMA FindMoves ==
  ASSUME Typed, NEW t \in {"urb", "ctl"}, NEW p, p = Id(t), FindProducer(t)
  PROVE  /\ OthersSame(p) /\ ~Opened(p) /\ ~Asks(p)'
         /\ \A q : Emptying(q)' <=> Emptying(q)
         /\ slot' = slot
         /\ Opened(p)' <=> pc'[t] = "write"
         /\ pc'[t] = "write" => prods'[p].tail % BlockSize # 0
         /\ pc'[t] = "index" => prods'[p].tail % BlockSize = 0
         /\ pc'[t] \in {"write", "index"}
<1>1. /\ pc[t] = "find" /\ slot' = slot /\ from' = from /\ urbId' = urbId
      /\ t \in Threads
  BY ThreadIds DEF FindProducer, driverVars, dequeueVars
<1>2. /\ prods'[p].tail % BlockSize = 0 => Go(t, "index")
      /\ prods'[p].tail % BlockSize # 0 => Go(t, "write")
  BY DEF FindProducer
<1>3. \A q \in DOMAIN prods : prods'[q] = prods[q]
  BY Finding
<1>4. ASSUME NEW place \in {"index", "write"}, Go(t, place)
      PROVE  /\ OthersSame(p) /\ ~Opened(p) /\ ~Asks(p)'
             /\ (\A q : Emptying(q)' <=> Emptying(q))
             /\ (Opened(p)' <=> place = "write") /\ pc'[t] = place
  <2>1. Marks(t, place)
    BY <1>1, <1>4, EnqueueMarks
  <2>2. /\ ~Opened(p) /\ ~Asks(p)' /\ (Opened(p)' <=> place = "write")
    BY <1>1, <1>4, <2>1 DEF Marks
  <2>3. \A q : /\ Emptying(q)' <=> Emptying(q)
               /\ q # p => /\ Opened(q)' <=> Opened(q)
                           /\ Asks(q)' <=> Asks(q)
    BY <2>1 DEF Marks
  <2>4. OthersSame(p)
    BY <1>1, <1>3, <2>3 DEF OthersSame, Same
  <2>5. pc'[t] = place
    BY <1>1, <1>4, Goes
  <2> QED  BY <2>2, <2>3, <2>4, <2>5
<1> QED  BY <1>1, <1>2, <1>4

\* The entry for the next block is at the end of the ring.
LEMMA InsertMoves ==
  ASSUME Typed, Claims, Boundaries, NEW t \in {"urb", "ctl"}, InsertEntry(t),
         NEW p, p = Id(t), InSlot(p)
  PROVE  /\ OthersSame(p) /\ ~Asks(p) /\ Asks(p)'
         /\ Opened(p)' /\ pc'[t] = "block"
         /\ Kept(p)' = Kept(p) /\ First(p)' = First(p)
         /\ Last(p)' = Last(p) + 1
         /\ prods[p].tail = (Last(p) + 1) * BlockSize
         /\ Emptying(p)' <=> Emptying(p)
         /\ slot' = slot
<1>1. /\ pc[t] = "index" /\ Go(t, "block") /\ slot' = slot /\ from' = from
      /\ urbId' = urbId
  BY DEF InsertEntry, driverVars, dequeueVars
<1>2. p \in DOMAIN prods /\ prods[p].tail % BlockSize = 0 /\ t \in Threads
  BY <1>1, ThreadIds DEF Claims, Boundaries
<1>3. OnlyIn(p) /\ SameEnds(p)
  BY <1>2, Inserting
<1>m. Marks(t, "block")
  BY <1>1, EnqueueMarks
<1>4. /\ Opened(p) <=> pc[t] \in {"block", "write"}
      /\ Asks(p) <=> pc[t] = "block"
      /\ Opened(p)' <=> "block" \in {"block", "write"}
      /\ Asks(p)' <=> "block" = "block"
      /\ \A q : /\ Emptying(q)' <=> Emptying(q)
                /\ q # p => /\ Opened(q)' <=> Opened(q)
                            /\ Asks(q)' <=> Asks(q)
  BY <1>m DEF Marks
<1>5. OthersSame(p)
  BY <1>1, <1>3, <1>4 DEF OnlyIn, OthersSame, Same
<1>6. prods[p].tail \in Int
  BY <1>2, Fields
<1>7. /\ prods[p].tail = (prods[p].tail \div BlockSize) * BlockSize
      /\ (prods[p].tail - 1) \div BlockSize
           = (prods[p].tail \div BlockSize) - 1
      /\ prods[p].tail \div BlockSize \in Int
  BY <1>2, <1>6, BlockStart
<1>8. /\ Last(p) = (prods[p].tail - 1) \div BlockSize
      /\ Last(p)' = prods[p].tail \div BlockSize
  BY <1>1, <1>3, <1>4 DEF Last, SameEnds
<1>9. Last(p)' = Last(p) + 1 /\ prods[p].tail = (Last(p) + 1) * BlockSize
  BY <1>7, <1>8
<1>10. Kept(p)' = Kept(p)
  BY <1>3, <1>4 DEF Kept, SameEnds
<1>11. First(p)' = First(p)
  BY <1>10 DEF First
<1>12. pc'[t] = "block"
  BY <1>1, <1>2, Goes
<1> QED  BY <1>1, <1>4, <1>5, <1>9, <1>10, <1>11, <1>12

\* A thread that asks for a block is at the start of one.
LEMMA Asking ==
  ASSUME Typed, Claims, Boundaries, NEW t \in {"urb", "ctl"}, pc[t] = "block",
         NEW p, p = Id(t), InSlot(p)
  PROVE  /\ p \in DOMAIN prods /\ Asks(p) /\ Opened(p)
         /\ prods[p].tail = Last(p) * BlockSize
         /\ (prods[p].tail - 1) \div BlockSize = Last(p) - 1
         /\ First(p) <= Last(p)
         /\ First(p) = Last(p) => Kept(p) = prods[p].tail
<1>1. p \in DOMAIN prods /\ prods[p].tail % BlockSize = 0
      /\ Opened(p) /\ Asks(p)
  BY DEF Claims, Boundaries, Opened, Asks
<1>2. /\ prods[p].tail \in Nat /\ Kept(p) \in Nat /\ First(p) \in Nat
      /\ Kept(p) <= prods[p].tail /\ Last(p) \in Int
      /\ BlockSize \in Nat \ {0}
  BY <1>1, Numbers, QueueAssumption
<1>3. /\ prods[p].tail = (prods[p].tail \div BlockSize) * BlockSize
      /\ (prods[p].tail - 1) \div BlockSize
           = (prods[p].tail \div BlockSize) - 1
  <2>1. prods[p].tail \in Int
    BY <1>2
  <2> QED  BY <1>1, <2>1, BlockStart
<1>4. Last(p) = prods[p].tail \div BlockSize
  BY <1>1 DEF Last
<1>5. First(p) <= Last(p)
  <2>1. Kept(p) \in Int /\ prods[p].tail \in Int
    BY <1>2
  <2>2. Kept(p) \div BlockSize <= prods[p].tail \div BlockSize
    BY <1>2, <2>1, DivMonotone, Zenon
  <2> QED  BY <1>4, <2>2 DEF First
<1>6. ASSUME First(p) = Last(p)
      PROVE  Kept(p) = prods[p].tail
  <2> DEFINE k == Kept(p)
             r == k % BlockSize
             l == Last(p)
  <2>1. k = ((k \div BlockSize) * BlockSize) + r /\ r \in 0..(BlockSize - 1)
        /\ k \in Nat
    <3>1. Kept(p) \in Int /\ Kept(p) \in Nat
      BY <1>2
    <3> QED  BY <3>1, BlockParts
  <2>2. k \div BlockSize = l
    BY <1>6 DEF First
  <2>3. l * BlockSize = prods[p].tail /\ k <= prods[p].tail
    BY <1>2, <1>3, <1>4
  <2>4. prods[p].tail \in Nat
    BY <1>2
  <2> HIDE DEF k, r, l
  <2>5. k = prods[p].tail
    BY <2>1, <2>2, <2>3, <2>4
  <2> QED  BY <2>5 DEF k
<1> QED  BY <1>1, <1>3, <1>4, <1>5, <1>6

\* The block comes into the last entry.
LEMMA BlockMoves ==
  ASSUME Typed, Claims, NEW t \in {"urb", "ctl"}, NEW p, p = Id(t), NextBlock(t)
  PROVE  /\ OthersSame(p) /\ ~Asks(p)' /\ Opened(p)'
         /\ Kept(p)' = Kept(p) /\ First(p)' = First(p)
         /\ Last(p)' = Last(p)
         /\ Emptying(p)' <=> Emptying(p)
         /\ slot' = slot /\ pc[t] = "block" /\ pc'[t] = "write"
<1>1. /\ pc[t] = "block" /\ Go(t, "write") /\ slot' = slot /\ from' = from
      /\ urbId' = urbId
  BY DEF NextBlock, driverVars, dequeueVars
<1>2. p \in DOMAIN prods /\ t \in Threads
  BY <1>1, ThreadIds DEF Claims
<1>3. OnlyIn(p) /\ SameEnds(p)
  BY <1>2, GettingBlock
<1>m. Marks(t, "write")
  BY <1>1, EnqueueMarks
<1>4. /\ Opened(p) <=> pc[t] \in {"block", "write"}
      /\ Opened(p)' <=> "write" \in {"block", "write"}
      /\ Asks(p)' <=> "write" = "block"
      /\ \A q : /\ Emptying(q)' <=> Emptying(q)
                /\ q # p => /\ Opened(q)' <=> Opened(q)
                            /\ Asks(q)' <=> Asks(q)
  BY <1>m DEF Marks
<1>5. OthersSame(p)
  BY <1>1, <1>3, <1>4 DEF OnlyIn, OthersSame, Same
<1>6. Last(p)' = Last(p)
  BY <1>1, <1>3, <1>4 DEF Last, SameEnds
<1>7. Kept(p)' = Kept(p)
  BY <1>3, <1>4 DEF Kept, SameEnds
<1>8. First(p)' = First(p)
  BY <1>7 DEF First
<1>9. pc'[t] = "write"
  BY <1>1, <1>2, Goes
<1> QED  BY <1>1, <1>4, <1>5, <1>6, <1>7, <1>8, <1>9

\* Without a block the entry is taken back.
LEMMA RefuseMoves ==
  ASSUME Typed, Claims, Boundaries, Refuses, NEW p, p = urbId, pc["urb"] = "block",
         InSlot(p), OnlyIn(p), SameEnds(p)
  PROVE  /\ OthersSame(p) /\ ~Asks(p)' /\ ~Opened(p)'
         /\ Kept(p)' = Kept(p) /\ First(p)' = First(p)
         /\ Last(p)' = Last(p) - 1
         /\ Emptying(p)' <=> Emptying(p)
         /\ slot' = slot
<1>1. /\ Go("urb", "idle") /\ slot' = slot /\ from' = from
      /\ urbId' = urbId /\ "urb" \in {"urb", "ctl"} /\ p = Id("urb")
  BY DEF Refuses, driverVars, dequeueVars, Id
<1>2. (prods[p].tail - 1) \div BlockSize = Last(p) - 1
  BY <1>1, Asking
<1>m. Marks("urb", "idle")
  BY <1>1, EnqueueMarks
<1>3. /\ Opened(p)' <=> "idle" \in {"block", "write"}
      /\ Asks(p)' <=> "idle" = "block"
      /\ \A q : /\ Emptying(q)' <=> Emptying(q)
                /\ q # p => /\ Opened(q)' <=> Opened(q)
                            /\ Asks(q)' <=> Asks(q)
  BY <1>1, <1>m DEF Marks
<1>4. OthersSame(p)
  BY <1>1, <1>3 DEF OnlyIn, OthersSame, Same
<1>5. Last(p)' = Last(p) - 1
  BY <1>1, <1>2, <1>3 DEF Last, SameEnds
<1>6. Kept(p)' = Kept(p)
  BY <1>1, <1>3 DEF Kept, SameEnds
<1>7. First(p)' = First(p)
  BY <1>6 DEF First
<1> QED  BY <1>1, <1>3, <1>4, <1>5, <1>6, <1>7

\* The element is written into the last block of the ring.
LEMMA WriteMoves ==
  ASSUME Typed, Claims, NEW t \in {"urb", "ctl"}, NEW p, p = Id(t), Write(t)
  PROVE  /\ OthersSame(p) /\ ~Asks(p) /\ Opened(p)
         /\ ~Asks(p)' /\ ~Opened(p)'
         /\ Kept(p)' = Kept(p) /\ First(p)' = First(p)
         /\ Last(p)' = Last(p)
         /\ Last(p) = prods[p].tail \div BlockSize
         /\ Emptying(p)' <=> Emptying(p)
         /\ slot' = slot /\ pc'[t] = "signal" /\ p \in DOMAIN prods
<1>1. /\ pc[t] = "write" /\ Go(t, "signal") /\ slot' = slot /\ from' = from
      /\ urbId' = urbId
  BY DEF Write, driverVars, dequeueVars
<1>2. p \in DOMAIN prods /\ t \in Threads
  BY <1>1, ThreadIds DEF Claims
<1>3. /\ OnlyIn(p) /\ prods'[p].tail = prods[p].tail + 1
      /\ prods'[p].head = prods[p].head /\ prods[p].tail \in Nat
  BY <1>2, Writing, Fields
<1>m. Marks(t, "signal")
  BY <1>1, EnqueueMarks
<1>4. /\ Opened(p) <=> pc[t] \in {"block", "write"}
      /\ Asks(p) <=> pc[t] = "block"
      /\ Opened(p)' <=> "signal" \in {"block", "write"}
      /\ Asks(p)' <=> "signal" = "block"
      /\ \A q : /\ Emptying(q)' <=> Emptying(q)
                /\ q # p => /\ Opened(q)' <=> Opened(q)
                            /\ Asks(q)' <=> Asks(q)
  BY <1>m DEF Marks
<1>5. OthersSame(p)
  BY <1>1, <1>3, <1>4 DEF OnlyIn, OthersSame, Same
<1>6. Last(p) = prods[p].tail \div BlockSize
  BY <1>1, <1>4 DEF Last
<1>7. Last(p)' = (prods'[p].tail - 1) \div BlockSize
  BY <1>4 DEF Last
<1>8. prods'[p].tail - 1 = prods[p].tail
  BY <1>3
<1>9. Kept(p)' = Kept(p)
  BY <1>3, <1>4 DEF Kept
<1>10. First(p)' = First(p)
  BY <1>9 DEF First
<1>11. pc'[t] = "signal"
  BY <1>1, <1>2, Goes
<1> QED
  BY <1>1, <1>2, <1>4, <1>5, <1>6, <1>7, <1>8, <1>9, <1>10, <1>11

\* What the step of a dequeuing thread does to who works where.
Dequeued(t, place) ==
  \A q : /\ Opened(q)' <=> Opened(q)
         /\ Asks(q)' <=> Asks(q)
         /\ Emptying(q) <=> pc[t] = "empty" /\ q = from
         /\ Emptying(q)' <=> place = "empty" /\ q = from'

LEMMA DequeueMarks ==
  ASSUME Typed, Phases, NEW t \in {"proc", "ctl"}, NEW place, Go(t, place),
         pc[t] \in DequeuePlaces, place \notin {"block", "write"},
         urbId' = urbId
  PROVE  Dequeued(t, place)
<1>1. /\ pc'[t] = place /\ \A u \in Threads \ {t} : pc'[u] = pc[u]
      /\ Threads = {"urb", "proc", "ctl"}
  BY Goes, ThreadIds
<1>2. /\ pc["proc"] \in DequeuePlaces => pc["ctl"] \notin DequeuePlaces
      /\ pc["ctl"] \in DequeuePlaces => pc["proc"] \notin DequeuePlaces
  BY Alone
<1>3. \A u : Id(u)' = Id(u)
  BY DEF Id
<1>4. CASE t = "proc"
  <2>1. pc["ctl"] # "empty" /\ pc'["ctl"] = pc["ctl"] /\ pc'["urb"] = pc["urb"]
        /\ pc'["proc"] = place /\ pc["proc"] \notin {"block", "write"}
    BY <1>1, <1>2, <1>4 DEF DequeuePlaces
  <2> QED
    BY <1>3, <1>4, <2>1 DEF Opened, Asks, Emptying, Dequeued
<1>5. CASE t = "ctl"
  <2>1. pc["proc"] # "empty" /\ pc'["proc"] = pc["proc"]
        /\ pc'["urb"] = pc["urb"]
        /\ pc'["ctl"] = place /\ pc["ctl"] \notin {"block", "write"}
    BY <1>1, <1>2, <1>5 DEF DequeuePlaces
  <2> QED
    BY <1>3, <1>5, <2>1 DEF Opened, Asks, Emptying, Dequeued
<1> QED  BY <1>4, <1>5

\* A sub-queue that has an element in front has its block in the ring.
LEMMA InFront ==
  ASSUME Typed, Claims, Boundaries, NEW p \in DOMAIN prods, InSlot(p),
         Kept(p) < prods[p].tail
  PROVE  /\ First(p) <= Last(p)
         /\ Asks(p) => First(p) # Last(p)
<1>1. /\ prods[p].tail \in Nat /\ Kept(p) \in Nat
      /\ First(p) \in Nat /\ Last(p) \in Int
      /\ BlockSize \in Nat \ {0}
  BY Numbers, QueueAssumption
<1>2. PICK a \in Int : Kept(p) <= a /\ Last(p) = a \div BlockSize
  <2>1. prods[p].tail \in Int /\ prods[p].tail - 1 \in Int
        /\ Kept(p) <= prods[p].tail /\ Kept(p) <= prods[p].tail - 1
    BY <1>1
  <2> QED  BY <2>1 DEF Last
<1>3. Kept(p) \in Int
  BY <1>1
<1>4. Kept(p) \div BlockSize <= a \div BlockSize
  BY <1>1, <1>2, <1>3, DivMonotone, Zenon
<1>5. First(p) <= Last(p)
  BY <1>2, <1>4 DEF First
<1>6. ASSUME Asks(p)
      PROVE  First(p) # Last(p)
  <2>1. PICK t \in {"urb", "ctl"} : pc[t] = "block" /\ p = Id(t)
    BY <1>6 DEF Asks
  <2>2. First(p) = Last(p) => Kept(p) = prods[p].tail
    BY <2>1, Asking
  <2> QED  BY <1>1, <2>2
<1> QED  BY <1>5, <1>6

\* The entry that is computed is the entry of the first block.
LEMMA SlotOfFirst ==
  ASSUME Typed, NEW p \in DOMAIN prods,
         Ring(prods[p], First(p), Last(p), Asks(p)), First(p) <= Last(p),
         Kept(p) = prods[p].head
  PROVE  SlotOf(prods[p], prods[p].head) = At(First(p))
<1> DEFINE f == First(p)
           l == Last(p)
           h == prods[p].head
<1>1. /\ prods[p].last = At(l) /\ prods[p].key[At(l)] = l * BlockSize
      /\ f \in Nat /\ l \in Int
  BY DEF Ring
<1>2. h \in Int /\ f = h \div BlockSize
  BY Fields DEF First
<1>3. h = (f * BlockSize) + (h % BlockSize) /\ h % BlockSize \in Int
  BY <1>2, BlockParts
<1> HIDE DEF f, l, h
<1>4. (h - (h % BlockSize)) - (l * BlockSize) = ((f - l) * BlockSize) + 0
      /\ f - l \in Int
  BY <1>1, <1>2, <1>3, QueueAssumption
<1>5. 0 \in 0..(BlockSize - 1) /\ BlockSize \in Nat \ {0}
  BY QueueAssumption
<1>6. (((f - l) * BlockSize) + 0) \div BlockSize = f - l
  BY <1>4, <1>5, Quotient
<1>7. (At(l) + (f - l)) % IndexSize = At(l + (f - l))
  BY <1>1, <1>4, AtPlus
<1>8. l + (f - l) = f
  BY <1>1
<1>9. (At(l) + (((h - (h % BlockSize)) - (l * BlockSize)) \div BlockSize))
        % IndexSize = At(f)
  BY <1>4, <1>6, <1>7, <1>8
<1>10. SlotOf(prods[p], h)
         = (prods[p].last + (((h - (h % BlockSize))
                               - prods[p].key[prods[p].last]) \div BlockSize))
             % IndexSize
  BY Zenon DEF SlotOf
<1>11. SlotOf(prods[p], h) = At(f)
  BY <1>1, <1>9, <1>10
<1> QED  BY <1>11 DEF f, h

LEMMA TakeMoves ==
  ASSUME Typed, Phases, Claims, Boundaries, Rings, NEW t \in {"proc", "ctl"},
         Takes(t), NEW p, p = from
  PROVE  /\ p \in DOMAIN prods /\ OthersSame(p) /\ OnlyIn(p)
         /\ Asks(p)' <=> Asks(p)
         /\ Opened(p)' <=> Opened(p)
         /\ Emptying(p)' /\ ~Emptying(p)
         /\ Kept(p) = prods[p].head /\ prods[p].head < prods[p].tail
         /\ Kept(p)' = Kept(p) /\ First(p)' = First(p)
         /\ Last(p)' = Last(p) /\ First(p) <= Last(p)
         /\ (Asks(p) => First(p) # Last(p))
         /\ slot' = At(First(p)) /\ pc'[t] = "empty"
<1>1. /\ pc[t] = "take" /\ Go(t, "empty") /\ from' = from /\ urbId' = urbId
      /\ t \in Threads
  BY ThreadIds DEF Takes, driverVars
<1>2. p \in DOMAIN prods /\ Size(from) > 0
  BY <1>1 DEF Claims
<1>3. /\ OnlyIn(p) /\ SameIndex(p) /\ prods'[p].tail = prods[p].tail
      /\ prods'[p].head = prods[p].head + 1
      /\ slot' = SlotOf(prods[p], prods[p].head)
  BY <1>2, Taking
<1>4. Dequeued(t, "empty")
  BY <1>1, DequeueMarks DEF DequeuePlaces
<1>5. /\ \A q : /\ Opened(q)' <=> Opened(q)
                /\ Asks(q)' <=> Asks(q)
                /\ ~Emptying(q)
      /\ \A q : Emptying(q)' <=> q = p
  BY <1>1, <1>4 DEF Dequeued
<1>6. OthersSame(p)
  BY <1>3, <1>5 DEF OnlyIn, OthersSame, Same
<1>7. /\ Kept(p) = prods[p].head /\ Kept(p)' = prods'[p].head - 1
  BY <1>5 DEF Kept
<1>8. /\ prods[p].head \in Nat /\ prods[p].tail \in Nat
      /\ prods[p].head < prods[p].tail
  BY <1>2, Fields DEF Size
<1>9. Kept(p)' = Kept(p)
  BY <1>3, <1>7, <1>8
<1>10. First(p)' = First(p)
  BY <1>9 DEF First
<1>11. Last(p)' = Last(p)
  BY <1>3, <1>5 DEF Last
<1>12. /\ InSlot(p) /\ Ring(prods[p], First(p), Last(p), Asks(p))
  BY <1>2 DEF Rings
<1>13. First(p) <= Last(p) /\ (Asks(p) => First(p) # Last(p))
  BY <1>2, <1>7, <1>8, <1>12, InFront
<1>14. slot' = At(First(p))
  BY <1>2, <1>3, <1>7, <1>12, <1>13, SlotOfFirst
<1>15. pc'[t] = "empty"
  BY <1>1, Goes
<1> QED
  BY <1>2, <1>3, <1>5, <1>6, <1>7, <1>8, <1>9, <1>10, <1>11, <1>13, <1>14,
     <1>15

LEMMA EmptyMoves ==
  ASSUME Typed, Phases, Claims, Boundaries, Rings, NEW t \in {"proc", "ctl"},
         Empties(t), NEW p, p = from
  PROVE  /\ p \in DOMAIN prods /\ OthersSame(p) /\ OnlyIn(p)
         /\ Asks(p)' <=> Asks(p)
         /\ Opened(p)' <=> Opened(p)
         /\ ~Emptying(p)' /\ Emptying(p)
         /\ Kept(p)' = Kept(p) + 1 /\ Kept(p)' = prods[p].head
         /\ First(p)' = (Kept(p) + 1) \div BlockSize
         /\ Last(p)' = Last(p) /\ First(p) <= Last(p)
         /\ (Asks(p) => First(p) # Last(p))
         /\ slot = At(First(p)) /\ slot \in Slots
<1>1. /\ pc[t] = "empty" /\ from' = from /\ urbId' = urbId
      /\ (Go(t, "free") \/ Go(t, Returned(t)))
      /\ t \in Threads
  BY ThreadIds DEF Empties, driverVars
<1>2. p \in DOMAIN prods /\ slot \in Slots
  BY <1>1 DEF Claims
<1>3. OnlyIn(p) /\ SameEnds(p)
  BY <1>2, EmptyingOne
<1>4. PICK place \in {"free", "idle", "drain"} : Go(t, place)
  BY <1>1 DEF Returned
<1>5. Dequeued(t, place)
  BY <1>1, <1>4, DequeueMarks DEF DequeuePlaces
<1>6. /\ \A q : /\ Opened(q)' <=> Opened(q)
                /\ Asks(q)' <=> Asks(q)
                /\ ~Emptying(q)'
      /\ \A q : Emptying(q) <=> q = p
  BY <1>1, <1>4, <1>5 DEF Dequeued
<1>7. OthersSame(p)
  BY <1>3, <1>6 DEF OnlyIn, OthersSame, Same
<1>8. InSlot(p)
  BY <1>2 DEF Rings
<1>9. /\ Kept(p) = prods[p].head - 1 /\ prods[p].head > 0
      /\ slot = At(First(p)) /\ Kept(p)' = prods[p].head
  BY <1>3, <1>6, <1>8 DEF Kept, InSlot, SameEnds
<1>10. /\ prods[p].head \in Nat /\ prods[p].tail \in Nat
       /\ prods[p].head <= prods[p].tail
  BY <1>2, Fields
<1>11. Kept(p) + 1 = prods[p].head /\ Kept(p) < prods[p].tail
  BY <1>9, <1>10
<1>12. Last(p)' = Last(p)
  BY <1>3, <1>6 DEF Last, SameEnds
<1>13. First(p)' = (Kept(p) + 1) \div BlockSize
  BY <1>9, <1>11 DEF First
<1>14. First(p) <= Last(p) /\ (Asks(p) => First(p) # Last(p))
  BY <1>2, <1>8, <1>11, InFront
<1> QED
  BY <1>2, <1>3, <1>6, <1>7, <1>9, <1>11, <1>12, <1>13, <1>14

\* The steps that leave every sub-queue as it is.
Quiet ==
  \/ \E t \in {"urb", "ctl"} : Signals(t)
  \/ \E t \in {"proc", "ctl"} : Scans(t) \/ FreesBlock(t)
  \/ Refuses /\ pc["urb"] = "index"
  \/ Waits \/ ProcessThread \/ EnqueuesFrame \/ Drains \/ Drained
  \/ StartStreaming \/ StopStreaming \/ JoinProcessThread
  \/ UNCHANGED vars

\* No thread begins or ends to open, fill or empty a block.
MarksKept ==
  /\ \A t \in {"urb", "ctl"} :
       /\ pc'[t] \in {"block", "write"} <=> pc[t] \in {"block", "write"}
       /\ pc'[t] = "block" <=> pc[t] = "block"
       /\ pc[t] \in {"block", "write"} => Id(t)' = Id(t)
  /\ \A t \in {"proc", "ctl"} :
       /\ pc'[t] = "empty" <=> pc[t] = "empty"
       /\ pc[t] = "empty" => from' = from /\ slot' = slot

LEMMA QuietMoves ==
  ASSUME Typed, Phases, Claims, Quiet
  PROVE  prods' = prods /\ \A q : Same(q)
<1>0. /\ Threads = {"urb", "proc", "ctl"}
      /\ \A t \in Threads : \A place : Go(t, place) =>
           pc'[t] = place /\ \A u \in Threads \ {t} : pc'[u] = pc[u]
  BY ThreadIds, Goes
<1>a. /\ pc["proc"] \in DequeuePlaces => pc["ctl"] \notin DequeuePlaces
      /\ pc["ctl"] \in DequeuePlaces => pc["proc"] \notin DequeuePlaces
  BY Alone
<1>b. /\ Id("urb") = urbId /\ Id("ctl") = CtlId
      /\ Id("urb")' = urbId' /\ Id("ctl")' = CtlId
  BY DEF Id
<1>1. MarksKept /\ prods' = prods
  <2>1. ASSUME NEW t \in {"urb", "ctl"}, Signals(t)
        PROVE  MarksKept /\ prods' = prods
    <3>1. /\ pc[t] \in {"signal", "post"} /\ pc'[t] \in {"post", "idle", "done"}
          /\ (\A u \in Threads \ {t} : pc'[u] = pc[u])
          /\ urbId' = urbId /\ from' = from /\ slot' = slot /\ prods' = prods
      BY <1>0, <2>1 DEF Signals, Done, driverVars, dequeueVars, memoryVars
    <3> QED  BY <1>0, <1>b, <3>1 DEF MarksKept
  <2>2. ASSUME NEW t \in {"proc", "ctl"}, Scans(t) \/ FreesBlock(t)
        PROVE  MarksKept /\ prods' = prods
    <3>1. /\ pc[t] \in {"scan", "free"} /\ pc'[t] \in {"take", "idle", "drain"}
          /\ (\A u \in Threads \ {t} : pc'[u] = pc[u])
          /\ urbId' = urbId /\ prods' = prods
      BY <1>0, <2>2 DEF Scans, FreesBlock, Returned, driverVars, memoryVars
    <3>2. \A u \in {"proc", "ctl"} : pc[u] # "empty"
      BY <1>a, <3>1 DEF DequeuePlaces
    <3> QED  BY <1>0, <1>b, <3>1, <3>2 DEF MarksKept
  <2>3. CASE Refuses /\ pc["urb"] = "index"
    <3>1. /\ pc'["urb"] = "idle" /\ pc'["proc"] = pc["proc"]
          /\ pc'["ctl"] = pc["ctl"] /\ prods' = prods
          /\ urbId' = urbId /\ from' = from /\ slot' = slot
      BY <1>0, <2>3 DEF Refuses, driverVars, dequeueVars
    <3> QED  BY <1>b, <2>3, <3>1 DEF MarksKept
  <2>4. CASE Waits \/ ProcessThread
    <3>1. /\ pc["proc"] \in {"idle", "wait"}
          /\ pc'["proc"] \in {"scan", "wait", "done"} /\ pc'["urb"] = pc["urb"]
          /\ pc'["ctl"] = pc["ctl"] /\ prods' = prods /\ from' = from
          /\ slot' = slot /\ urbId' = urbId
      BY <1>0, <2>4 DEF Waits, ProcessThread, driverVars, memoryVars,
                        dequeueVars
    <3> QED  BY <1>b, <3>1 DEF MarksKept
  <2>5. CASE EnqueuesFrame
    <3>1. /\ pc["urb"] = "idle" /\ pc'["urb"] = "find"
          /\ pc'["proc"] = pc["proc"] /\ pc'["ctl"] = pc["ctl"]
          /\ prods' = prods /\ from' = from /\ slot' = slot /\ urbId' = urbId
      BY <1>0, <2>5 DEF EnqueuesFrame, driverVars, memoryVars, dequeueVars
    <3> QED  BY <1>b, <3>1 DEF MarksKept
  <2>6. CASE Drains \/ Drained
    <3>1. /\ pc["ctl"] = "drain" /\ pc'["ctl"] \in {"scan", "off"}
          /\ pc'["proc"] = pc["proc"] /\ pc'["urb"] = pc["urb"]
          /\ prods' = prods /\ from' = from /\ slot' = slot /\ urbId' = urbId
      BY <1>0, <2>6 DEF Drains, Drained, driverVars, memoryVars, dequeueVars
    <3> QED  BY <1>b, <3>1 DEF MarksKept
  <2>7. CASE StartStreaming
    <3>1. /\ pc["urb"] = "off" /\ pc["proc"] = "off"
          /\ pc'["urb"] = "idle" /\ pc'["proc"] = "idle"
          /\ pc'["ctl"] = pc["ctl"]
          /\ prods' = prods /\ from' = from /\ slot' = slot
      BY <1>0, <2>7 DEF StartStreaming, memoryVars, dequeueVars, Typed, Phases
    <3> QED  BY <1>b, <3>1 DEF MarksKept
  <2>8. CASE StopStreaming \/ JoinProcessThread
    <3>1. /\ pc["urb"] \in {"idle", "off"} /\ pc'["urb"] = "off"
          /\ pc["ctl"] \in {"off", "done"} /\ pc'["ctl"] \in {"find", "drain"}
          /\ \/ pc'["proc"] = pc["proc"]
             \/ pc["proc"] = "done" /\ pc'["proc"] = "off"
          /\ prods' = prods /\ from' = from /\ slot' = slot /\ urbId' = urbId
      BY <1>0, <2>8 DEF StopStreaming, JoinProcessThread, driverVars,
         memoryVars, dequeueVars, Typed, Phases
    <3> QED  BY <1>b, <3>1 DEF MarksKept
  <2>9. CASE UNCHANGED vars
    BY <1>b, <2>9 DEF vars, driverVars, memoryVars, dequeueVars, MarksKept
  <2> QED
    BY <2>1, <2>2, <2>3, <2>4, <2>5, <2>6, <2>7, <2>8, <2>9 DEF Quiet
<1>2. ASSUME NEW q
      PROVE  Same(q)
  <2>1. prods'[q] = prods[q]
    BY <1>1
  <2>2. Opened(q)' <=> Opened(q)
    BY <1>1 DEF MarksKept, Opened
  <2>3. Asks(q)' <=> Asks(q)
    BY <1>1 DEF MarksKept, Asks
  <2>4. Emptying(q)' <=> Emptying(q)
    BY <1>1 DEF MarksKept, Emptying
  <2>5. Emptying(q) => slot' = slot
    BY <1>1 DEF MarksKept, Emptying
  <2> QED  BY <2>1, <2>2, <2>3, <2>4, <2>5 DEF Same
<1> QED  BY <1>1, <1>2

LEMMA StepCases ==
  ASSUME [Next]_vars
  PROVE  \/ Quiet
         \/ DeleteQueue
         \/ Refuses /\ pc["urb"] = "block"
         \/ \E t \in {"urb", "ctl"} : \/ FindProducer(t) \/ InsertEntry(t)
                                      \/ NextBlock(t) \/ Write(t)
         \/ \E t \in {"proc", "ctl"} : Takes(t) \/ Empties(t)
<1>1. Refuses => pc["urb"] \in {"index", "block"}
  BY DEF Refuses
<1> QED
  BY <1>1 DEF Next, UrbThread, ProcThread, CtlThread, Enqueue, Dequeue, Quiet

LEMMA BoundariesStep ==
  ASSUME Typed, Phases, Claims, Boundaries, [Next]_vars
  PROVE  Boundaries'
<1>0. /\ Threads = {"urb", "proc", "ctl"}
      /\ \A t \in Threads : \A place : Go(t, place) =>
           pc'[t] = place /\ \A u \in Threads \ {t} : pc'[u] = pc[u]
      /\ \A t \in {"urb", "ctl"} : t \in Threads
      /\ \A t \in {"proc", "ctl"} : t \in Threads
  BY ThreadIds, Goes
<1>a. /\ pc["urb"] \in EnqueuePlaces => pc["ctl"] = "off"
      /\ pc["ctl"] \in EnqueuePlaces => pc["urb"] = "off"
  BY <1>0, Alone DEF Phases, EnqueuePlaces, DequeuePlaces
\* One thread is at a boundary, and the tail there is the same.
<1> DEFINE Kept1(t) ==
             pc'[t] \in {"index", "block"} =>
               /\ pc[t] \in {"index", "block"} /\ Id(t)' = Id(t)
               /\ prods'[Id(t)].tail = prods[Id(t)].tail
<1>1. ASSUME \A t \in {"urb", "ctl"} : Kept1(t)
      PROVE  Boundaries'
  <2>1. ASSUME NEW t \in {"urb", "ctl"}, pc'[t] \in {"index", "block"}
        PROVE  prods'[Id(t)'].tail % BlockSize = 0
    BY <1>1, <2>1 DEF Boundaries
  <2> QED  BY <2>1 DEF Boundaries
<1>2. ASSUME NEW t \in {"urb", "ctl"}, FindProducer(t)
      PROVE  Boundaries'
  <2>1. /\ pc[t] = "find" /\ urbId' = urbId
        /\ (\A u \in Threads \ {t} : pc'[u] = pc[u])
        /\ \/ pc'[t] = "write"
           \/ pc'[t] = "index" /\ prods'[Id(t)].tail % BlockSize = 0
    BY <1>0, <1>2 DEF FindProducer, driverVars
  <2>2. \A u : Id(u)' = Id(u)
    BY <2>1 DEF Id
  <2>3. \A u \in {"urb", "ctl"} \ {t} : pc'[u] = "off"
    BY <1>0, <1>a, <2>1 DEF EnqueuePlaces
  <2> QED  BY <2>1, <2>2, <2>3 DEF Boundaries
<1>3. ASSUME NEW t \in {"urb", "ctl"},
             InsertEntry(t) \/ NextBlock(t) \/ Write(t)
      PROVE  Boundaries'
  <2>1. /\ pc[t] \in {"index", "block", "write"} /\ urbId' = urbId
        /\ (\A u \in Threads \ {t} : pc'[u] = pc[u])
        /\ pc'[t] \in {"block", "write", "signal"}
        /\ pc'[t] = "block" => InsertEntry(t) /\ pc[t] = "index"
    BY <1>0, <1>3 DEF InsertEntry, NextBlock, Write, driverVars
  <2>2. \A u : Id(u)' = Id(u)
    BY <2>1 DEF Id
  <2>3. \A u \in {"urb", "ctl"} \ {t} : pc'[u] = "off"
    BY <1>0, <1>a, <2>1 DEF EnqueuePlaces
  <2>4. Id(t) \in DOMAIN prods
    BY <2>1 DEF Claims
  <2>5. pc'[t] = "block" => prods'[Id(t)].tail = prods[Id(t)].tail
    BY <2>1, <2>4, Inserting DEF SameEnds
  <2>6. \A u \in {"urb", "ctl"} : Kept1(u)
    BY <2>1, <2>2, <2>3, <2>5
  <2> QED  BY <1>1, <2>6
<1>4. ASSUME NEW t \in {"proc", "ctl"}, Takes(t) \/ Empties(t)
      PROVE  Boundaries'
  <2>1. /\ pc[t] \in {"take", "empty"} /\ urbId' = urbId
        /\ (\A u \in Threads \ {t} : pc'[u] = pc[u])
        /\ pc'[t] \in {"empty", "free", "idle", "drain"}
        /\ (pc[t] = "empty" => Empties(t)) /\ (pc[t] = "take" => Takes(t))
    BY <1>0, <1>4 DEF Takes, Empties, Returned, driverVars
  <2>2. \A u : Id(u)' = Id(u)
    BY <2>1 DEF Id
  <2>3. from \in DOMAIN prods /\ (pc[t] = "empty" => slot \in Slots)
    BY <2>1 DEF Claims
  <2>4. OnlyIn(from) /\ prods'[from].tail = prods[from].tail
    BY <2>1, <2>3, Taking, EmptyingOne DEF SameEnds
  <2>5. \A q \in DOMAIN prods : prods'[q].tail = prods[q].tail
    BY <2>4 DEF OnlyIn
  <2>6. \A u \in {"urb", "ctl"} :
          pc'[u] \in {"index", "block"} =>
            pc[u] \in {"index", "block"} /\ Id(u) \in DOMAIN prods
    BY <1>0, <2>1 DEF Claims
  <2>7. \A u \in {"urb", "ctl"} : Kept1(u)
    BY <2>2, <2>5, <2>6
  <2> QED  BY <1>1, <2>7
<1>5. CASE Refuses /\ pc["urb"] = "block"
  <2>1. pc'["urb"] = "idle" /\ pc'["ctl"] = "off"
    BY <1>0, <1>a, <1>5 DEF Refuses, EnqueuePlaces
  <2> QED  BY <2>1 DEF Boundaries
<1>6. CASE DeleteQueue
  <2>1. \A t \in {"urb", "ctl"} : pc'[t] = "off"
    BY <1>0, <1>6 DEF DeleteQueue, Phases
  <2> QED  BY <2>1 DEF Boundaries
<1>7. CASE Quiet
  <2>1. prods' = prods
    BY <1>7, QuietMoves
  <2>2. \A t \in {"urb", "ctl"} :
          pc'[t] \in {"index", "block"} => pc[t] = pc'[t] /\ urbId' = urbId
    BY <1>0, <1>7
    DEF Quiet, Signals, Scans, FreesBlock, Refuses, Waits, ProcessThread,
        EnqueuesFrame, Drains, Drained, StartStreaming, StopStreaming,
        JoinProcessThread, vars, driverVars, Done, Returned, Typed, Phases
  <2>3. \A t \in {"urb", "ctl"} : Kept1(t)
    BY <2>1, <2>2 DEF Id
  <2> QED  BY <1>1, <2>3
<1> QED
  BY <1>2, <1>3, <1>4, <1>5, <1>6, <1>7, StepCases

-----------------------------------------------------------------------------
(***************************************************************************)
(* The rings are kept.                                                     *)
(***************************************************************************)

RingOf(p) == Ring(prods[p], First(p), Last(p), Asks(p))

LEMMA RingsAs ==
  /\ Rings <=> \A p \in DOMAIN prods : RingOf(p) /\ TailBlock(p) /\ InSlot(p)
  /\ Rings' <=>
       \A p \in DOMAIN prods' : RingOf(p)' /\ TailBlock(p)' /\ InSlot(p)'
BY DEF Rings, RingOf

LEMMA SameRing ==
  ASSUME NEW p, Same(p), RingOf(p), TailBlock(p), InSlot(p)
  PROVE  RingOf(p)' /\ TailBlock(p)' /\ InSlot(p)'
<1>1. First(p)' = First(p) /\ Last(p)' = Last(p)
  BY SameNumbers
<1>2. /\ prods'[p] = prods[p]
      /\ Opened(p)' <=> Opened(p)
      /\ Asks(p)' <=> Asks(p)
      /\ Emptying(p)' <=> Emptying(p)
      /\ Emptying(p) => slot' = slot
  BY DEF Same
<1>3. RingOf(p)'
  BY <1>1, <1>2 DEF RingOf, Ring
<1>4. TailBlock(p)'
  BY <1>1, <1>2 DEF TailBlock
<1>5. InSlot(p)'
  BY <1>1, <1>2 DEF InSlot
<1> QED  BY <1>3, <1>4, <1>5

\* When all but one are the same there is one to look at.
LEMMA OneRing ==
  ASSUME Rings, NEW p, OthersSame(p), DOMAIN prods' \subseteq DOMAIN prods \cup {p},
         RingOf(p)' /\ TailBlock(p)' /\ InSlot(p)'
  PROVE  Rings'
<1>1. ASSUME NEW q \in DOMAIN prods', q # p
      PROVE  RingOf(q)' /\ TailBlock(q)' /\ InSlot(q)'
  <2>1. Same(q) /\ RingOf(q) /\ TailBlock(q) /\ InSlot(q)
    BY <1>1, RingsAs DEF OthersSame
  <2> QED  BY <2>1, SameRing
<1> QED  BY <1>1, RingsAs

\* A new sub-queue has an empty ring.
LEMMA FindRing ==
  ASSUME Typed, Phases, Claims, Rings, NEW t \in {"urb", "ctl"}, FindProducer(t)
  PROVE  Rings'
<1> DEFINE p0 == Id(t)
<1>0. PICK p : p = p0
  OBVIOUS
<1>1. /\ OthersSame(p) /\ ~Opened(p) /\ ~Asks(p)'
      /\ (\A q : Emptying(q)' <=> Emptying(q))
      /\ slot' = slot
      /\ (Opened(p)' <=> pc'[t] = "write")
      /\ (pc'[t] = "write" => prods'[p].tail % BlockSize # 0)
  BY <1>0, FindMoves
<1>2. /\ DOMAIN prods' = DOMAIN prods \cup {p}
      /\ p \notin DOMAIN prods => prods'[p] = NewProducer
      /\ p \in DOMAIN prods => prods'[p] = prods[p]
  BY <1>0, Finding
<1>3. CASE p \in DOMAIN prods
  <2>1. RingOf(p) /\ TailBlock(p) /\ InSlot(p) /\ ~Asks(p)
    BY <1>1, <1>3, RingsAs DEF Asks, Opened
  <2>2. First(p)' = First(p)
    BY <1>1, <1>2, <1>3 DEF First, Kept
  <2>3. Last(p)' = Last(p)
    <3>1. CASE Opened(p)'
      <4>1. prods[p].tail \in Int /\ prods[p].tail % BlockSize # 0
        BY <1>1, <1>2, <1>3, <3>1, Fields
      <4>2. (prods[p].tail - 1) \div BlockSize = prods[p].tail \div BlockSize
        BY <4>1, BlockStart
      <4> QED  BY <1>1, <1>2, <1>3, <3>1, <4>2 DEF Last
    <3>2. CASE ~Opened(p)'
      BY <1>1, <1>2, <1>3, <3>2 DEF Last
    <3> QED  BY <3>1, <3>2
  <2>4. RingOf(p)'
    BY <1>1, <1>2, <1>3, <2>1, <2>2, <2>3 DEF RingOf, Ring
  <2>5. TailBlock(p)'
    BY <1>1, <1>2, <1>3, <2>1, <2>3 DEF TailBlock
  <2>6. InSlot(p)'
    BY <1>1, <1>2, <1>3, <2>1, <2>2 DEF InSlot
  <2> QED  BY <1>1, <1>2, <2>4, <2>5, <2>6, OneRing
<1>4. CASE p \notin DOMAIN prods
  <2>1. /\ prods'[p].tail = 0 /\ prods'[p].head = 0
        /\ prods'[p].last = IndexSize - 1
        /\ prods'[p].value = [s \in Slots |-> NoBlock]
    BY <1>2, <1>4 DEF NewProducer
  <2>2. 0 % BlockSize = 0 /\ 0 \div BlockSize = 0 /\ (0 - 1) \div BlockSize = 0 - 1
    <3>1. 0 \in Int /\ 0 = (0 * BlockSize) + 0 /\ 0 \in 0..(BlockSize - 1)
          /\ BlockSize \in Nat \ {0}
      BY QueueAssumption
    <3>2. ((0 * BlockSize) + 0) \div BlockSize = 0
          /\ ((0 * BlockSize) + 0) % BlockSize = 0
      BY <3>1, Quotient
    <3>3. 0 % BlockSize = 0 /\ 0 \div BlockSize = 0
      BY <3>1, <3>2
    <3>4. (0 - 1) \div BlockSize = (0 \div BlockSize) - 1
      BY <3>1, <3>3, BlockStart
    <3>5. (0 \div BlockSize) - 1 = 0 - 1
      BY <3>3
    <3> QED  BY <3>3, <3>4, <3>5
  <2>3. ~Emptying(p)
    BY <1>4 DEF Claims, Emptying
  <2>4. ~Opened(p)'
    BY <1>1, <2>1, <2>2
  <2>5. First(p)' = 0
    BY <1>1, <2>1, <2>2, <2>3 DEF First, Kept
  <2>6. Last(p)' = 0 - 1
    BY <2>1, <2>2, <2>4 DEF Last
  <2>7. At(-1) = IndexSize - 1
    <3>1. At((-1) + IndexSize) = At(-1)
      BY AtAround
    <3>2. IndexSize - 1 = (0 * IndexSize) + (IndexSize - 1)
          /\ IndexSize - 1 \in 0..(IndexSize - 1) /\ IndexSize \in Nat \ {0}
          /\ (-1) + IndexSize = IndexSize - 1
      BY QueueAssumption
    <3>3. ((0 * IndexSize) + (IndexSize - 1)) % IndexSize = IndexSize - 1
      BY <3>2, Quotient
    <3> QED  BY <3>1, <3>2, <3>3 DEF At
  <2>8. Ring(prods'[p], 0, -1, FALSE)
    BY <2>1, <2>7, QueueAssumption DEF Ring
  <2>9. RingOf(p)'
    BY <1>1, <2>5, <2>6, <2>8 DEF RingOf, Ring
  <2>10. TailBlock(p)'
    BY <2>1, <2>2, <2>4 DEF TailBlock
  <2>11. InSlot(p)'
    BY <1>1, <2>3 DEF InSlot
  <2> QED  BY <1>1, <1>2, <2>9, <2>10, <2>11, OneRing
<1> QED  BY <1>3, <1>4

LEMMA InsertRing ==
  ASSUME Typed, Phases, Claims, Boundaries, Rings, NEW t \in {"urb", "ctl"},
         InsertEntry(t)
  PROVE  Rings'
<1>0. PICK p : p = Id(t)
  OBVIOUS
<1>1. p \in DOMAIN prods /\ pc[t] = "index" /\ HasRoom(p)
  BY <1>0 DEF InsertEntry, Claims
<1>2. RingOf(p) /\ TailBlock(p) /\ InSlot(p)
  BY <1>1, RingsAs
<1>3. /\ OthersSame(p) /\ ~Asks(p) /\ Asks(p)'
      /\ First(p)' = First(p) /\ Last(p)' = Last(p) + 1
      /\ prods[p].tail = (Last(p) + 1) * BlockSize
      /\ (Emptying(p)' <=> Emptying(p)) /\ slot' = slot
  BY <1>0, <1>2, InsertMoves
<1>4. /\ OnlyIn(p) /\ SameEnds(p)
      /\ prods'[p].last = NextSlot(p) /\ prods'[p].value = prods[p].value
      /\ prods'[p].key = [prods[p].key EXCEPT ![NextSlot(p)] = prods[p].tail]
  BY <1>0, <1>1, Inserting
<1>5. NextSlot(p) = (prods[p].last + 1) % IndexSize
      /\ prods[p].value[(prods[p].last + 1) % IndexSize] = NoBlock
  BY <1>1 DEF NextSlot, HasRoom
<1>6. Ring(prods[p], First(p), Last(p), FALSE)
  BY <1>2, <1>3 DEF RingOf, Ring
<1>7. prods[p].key \in [Slots -> Int]
  BY <1>1, Fields
<1>8. /\ prods'[p].last = (prods[p].last + 1) % IndexSize
      /\ prods'[p].key = [prods[p].key EXCEPT ![(prods[p].last + 1) % IndexSize]
                                         = (Last(p) + 1) * BlockSize]
  BY <1>3, <1>4, <1>5
<1>9. Ring(prods'[p], First(p), Last(p) + 1, TRUE)
  BY <1>4, <1>5, <1>6, <1>7, <1>8, RingInserts
<1>10. RingOf(p)'
  BY <1>3, <1>9 DEF RingOf, Ring
<1>11. TailBlock(p)'
  <2>1. prods'[p].tail = prods[p].tail /\ prods[p].tail % BlockSize = 0
    BY <1>0, <1>1, <1>4 DEF SameEnds, Boundaries
  <2> QED  BY <1>3, <2>1 DEF TailBlock
<1>12. InSlot(p)'
  BY <1>2, <1>3, <1>4 DEF InSlot, SameEnds
<1>13. DOMAIN prods' \subseteq DOMAIN prods \cup {p}
  BY <1>4 DEF OnlyIn
<1> QED  BY <1>3, <1>10, <1>11, <1>12, <1>13, OneRing

LEMMA BlockRing ==
  ASSUME Typed, Phases, Claims, Boundaries, Rings, NEW t \in {"urb", "ctl"},
         NextBlock(t), NoBlock \notin FreshBlocks(t)
  PROVE  Rings'
<1>0. PICK p : p = Id(t)
  OBVIOUS
<1>1. p \in DOMAIN prods /\ pc[t] = "block"
  BY <1>0 DEF NextBlock, Claims
<1>2. RingOf(p) /\ TailBlock(p) /\ InSlot(p)
  BY <1>1, RingsAs
<1>3. /\ OthersSame(p) /\ ~Asks(p)' /\ Opened(p)'
      /\ First(p)' = First(p) /\ Last(p)' = Last(p)
      /\ (Emptying(p)' <=> Emptying(p)) /\ slot' = slot
  BY <1>0, BlockMoves
<1>4. Asks(p) /\ First(p) <= Last(p)
  BY <1>0, <1>1, <1>2, Asking
<1>5. PICK b \in FreshBlocks(t) :
        /\ OnlyIn(p) /\ SameEnds(p) /\ prods'[p].block = b
        /\ prods'[p].last = prods[p].last /\ prods'[p].key = prods[p].key
        /\ prods'[p].value = [prods[p].value EXCEPT ![prods[p].last] = b]
  BY <1>0, <1>1, GettingBlock
<1>6. Ring(prods[p], First(p), Last(p), TRUE)
  BY <1>2, <1>4 DEF RingOf, Ring
<1>7. prods[p].value \in [Slots -> Nat] /\ b # NoBlock
  BY <1>1, <1>5, Fields
<1>8. Ring(prods'[p], First(p), Last(p), FALSE)
      /\ prods'[p].value[At(Last(p))] = prods'[p].block
  <2>1. Filled(prods[p], prods'[p])
    BY <1>5, <1>7 DEF Filled
  <2>2. First(p) <= Last(p)
    BY <1>4
  <2>3. Ring(prods'[p], First(p), Last(p), FALSE)
    BY <1>6, <2>1, <2>2, RingFills, Zenon
  <2>4. prods'[p].value[At(Last(p))] = prods'[p].block
    BY <1>6, <2>1, <2>2, RingFills, Zenon
  <2> QED  BY <2>3, <2>4
<1>9. RingOf(p)'
  BY <1>3, <1>8 DEF RingOf, Ring
<1>10. TailBlock(p)'
  BY <1>3, <1>5, <1>8 DEF TailBlock
<1>11. InSlot(p)'
  BY <1>2, <1>3, <1>5 DEF InSlot, SameEnds
<1>12. DOMAIN prods' \subseteq DOMAIN prods \cup {p}
  BY <1>5 DEF OnlyIn
<1> QED  BY <1>3, <1>9, <1>10, <1>11, <1>12, OneRing

LEMMA RefuseRing ==
  ASSUME Typed, Phases, Claims, Boundaries, Rings, Refuses,
         pc["urb"] = "block"
  PROVE  Rings'
<1>0. PICK p : p = urbId /\ p = Id("urb")
  BY DEF Id
<1>1. p \in DOMAIN prods
  BY <1>0 DEF Claims
<1>2. RingOf(p) /\ TailBlock(p) /\ InSlot(p)
  BY <1>1, RingsAs
<1>3. /\ OnlyIn(p) /\ SameEnds(p) /\ SameBlock(p)
      /\ prods'[p].last = (prods[p].last - 1) % IndexSize
      /\ prods'[p].key = prods[p].key /\ prods'[p].value = prods[p].value
  BY <1>0, Refusing
<1>4. /\ OthersSame(p) /\ ~Asks(p)' /\ ~Opened(p)'
      /\ First(p)' = First(p) /\ Last(p)' = Last(p) - 1
      /\ (Emptying(p)' <=> Emptying(p)) /\ slot' = slot
  BY <1>0, <1>2, <1>3, RefuseMoves
<1>5. Asks(p) /\ First(p) <= Last(p)
  BY <1>0, <1>2, Asking
<1>6. Ring(prods[p], First(p), Last(p), TRUE)
  BY <1>2, <1>5 DEF RingOf, Ring
<1>7. Ring(prods'[p], First(p), Last(p) - 1, FALSE)
  BY <1>3, <1>5, <1>6, RingRewinds
<1>8. RingOf(p)'
  BY <1>4, <1>7 DEF RingOf, Ring
<1>9. TailBlock(p)'
  <2>1. prods'[p].tail = prods[p].tail /\ prods[p].tail % BlockSize = 0
    BY <1>0, <1>3 DEF SameEnds, Boundaries
  <2> QED  BY <1>4, <2>1 DEF TailBlock
<1>10. InSlot(p)'
  BY <1>2, <1>3, <1>4 DEF InSlot, SameEnds
<1>11. DOMAIN prods' \subseteq DOMAIN prods \cup {p}
  BY <1>3 DEF OnlyIn
<1> QED  BY <1>4, <1>8, <1>9, <1>10, <1>11, OneRing

LEMMA WriteRing ==
  ASSUME Typed, Phases, Claims, Boundaries, Rings, NEW t \in {"urb", "ctl"},
         Write(t)
  PROVE  Rings'
<1>0. PICK p : p = Id(t)
  OBVIOUS
<1>1. /\ OthersSame(p) /\ ~Asks(p) /\ Opened(p) /\ ~Asks(p)' /\ ~Opened(p)'
      /\ First(p)' = First(p) /\ Last(p)' = Last(p)
      /\ (Emptying(p)' <=> Emptying(p)) /\ slot' = slot /\ p \in DOMAIN prods
  BY <1>0, WriteMoves
<1>2. RingOf(p) /\ TailBlock(p) /\ InSlot(p)
  BY <1>1, RingsAs
<1>3. /\ OnlyIn(p) /\ SameBlock(p) /\ SameIndex(p)
      /\ prods'[p].head = prods[p].head
  BY <1>0, <1>1, Writing
<1>4. RingOf(p)'
  BY <1>1, <1>2, <1>3 DEF RingOf, Ring, SameIndex
<1>5. TailBlock(p)'
  BY <1>1, <1>2, <1>3 DEF TailBlock, SameBlock, SameIndex
<1>6. InSlot(p)'
  BY <1>1, <1>2, <1>3 DEF InSlot
<1>7. DOMAIN prods' \subseteq DOMAIN prods \cup {p}
  BY <1>3 DEF OnlyIn
<1> QED  BY <1>1, <1>4, <1>5, <1>6, <1>7, OneRing

LEMMA TakeRing ==
  ASSUME Typed, Phases, Claims, Boundaries, Rings, NEW t \in {"proc", "ctl"},
         Takes(t)
  PROVE  Rings'
<1>0. PICK p : p = from
  OBVIOUS
<1>1. /\ OthersSame(p) /\ p \in DOMAIN prods
      /\ (Asks(p)' <=> Asks(p)) /\ (Opened(p)' <=> Opened(p))
      /\ First(p)' = First(p) /\ Last(p)' = Last(p)
      /\ slot' = At(First(p))
  BY <1>0, TakeMoves
<1>2. RingOf(p) /\ TailBlock(p) /\ InSlot(p)
  BY <1>1, RingsAs
<1>3. /\ OnlyIn(p) /\ SameBlock(p) /\ SameIndex(p)
      /\ prods'[p].tail = prods[p].tail
      /\ prods'[p].head = prods[p].head + 1 /\ prods[p].head \in Nat
  BY <1>0, <1>1, Taking, Fields
<1>4. RingOf(p)'
  BY <1>1, <1>2, <1>3 DEF RingOf, Ring, SameIndex
<1>5. TailBlock(p)'
  BY <1>1, <1>2, <1>3 DEF TailBlock, SameBlock, SameIndex
<1>6. InSlot(p)'
  <2>1. prods'[p].head > 0
    BY <1>3
  <2> QED  BY <1>1, <2>1 DEF InSlot
<1>7. DOMAIN prods' \subseteq DOMAIN prods \cup {p}
  BY <1>3 DEF OnlyIn
<1> QED  BY <1>1, <1>4, <1>5, <1>6, <1>7, OneRing

\* How many elements of a block of a ring are counted as taken: those before
\* the first that is kept.
CountOf(p) ==
  \A j \in First(p)..Last(p) :
    ~(Asks(p) /\ j = Last(p)) =>
      emptied[prods[p].value[At(j)]] =
        IF j = First(p) THEN Kept(p) % BlockSize ELSE 0

Counts ==
  /\ emptied \in [Blocks -> 0..BlockSize]
  /\ \A p \in DOMAIN prods : CountOf(p)

\* A block is empty when the element that is counted is its last.
LEMMA LastOne ==
  ASSUME Typed, Phases, Claims, Boundaries, Rings, Counts,
         NEW t \in {"proc", "ctl"}, Empties(t), NEW p, p = from
  PROVE  /\ emptied[prods[p].value[slot]] = Kept(p) % BlockSize
         /\ OneLeft(prods[p].value[slot]) =>
              /\ First(p)' = First(p) + 1
              /\ (Kept(p) + 1) % BlockSize = 0
         /\ ~OneLeft(prods[p].value[slot]) =>
              /\ First(p)' = First(p)
              /\ (Kept(p) + 1) % BlockSize = (Kept(p) % BlockSize) + 1
         /\ Kept(p) % BlockSize \in 0..(BlockSize - 1)
<1>1. /\ p \in DOMAIN prods /\ First(p) <= Last(p)
      /\ (Asks(p) => First(p) # Last(p)) /\ slot = At(First(p))
      /\ First(p)' = (Kept(p) + 1) \div BlockSize
  BY EmptyMoves
<1>2. InSlot(p) /\ CountOf(p)
  BY <1>1 DEF Rings, Counts
<1>3. Kept(p) \in Nat /\ First(p) \in Nat /\ Last(p) \in Int
  BY <1>1, <1>2, Numbers
<1>4. First(p) \in First(p)..Last(p)
  BY <1>1, <1>3
<1>5. emptied[prods[p].value[slot]] = Kept(p) % BlockSize
  BY <1>1, <1>2, <1>4 DEF CountOf
<1>6. Kept(p) \in Int /\ BlockSize \in Nat \ {0}
  BY <1>3, QueueAssumption
<1>7. /\ Kept(p) % BlockSize = BlockSize - 1 =>
           /\ (Kept(p) + 1) \div BlockSize = (Kept(p) \div BlockSize) + 1
           /\ (Kept(p) + 1) % BlockSize = 0
      /\ Kept(p) % BlockSize # BlockSize - 1 =>
           /\ (Kept(p) + 1) \div BlockSize = Kept(p) \div BlockSize
           /\ (Kept(p) + 1) % BlockSize = (Kept(p) % BlockSize) + 1
  BY <1>6, Successor
<1>8. Kept(p) % BlockSize \in 0..(BlockSize - 1)
  BY <1>6, BlockParts
<1> QED  BY <1>1, <1>5, <1>7, <1>8 DEF OneLeft, First

LEMMA EmptyRing ==
  ASSUME Typed, Phases, Claims, Boundaries, Rings, Counts,
         NEW t \in {"proc", "ctl"}, Empties(t)
  PROVE  Rings'
<1>0. PICK p : p = from
  OBVIOUS
<1> DEFINE one == OneLeft(prods[p].value[slot])
<1>1. /\ OthersSame(p) /\ p \in DOMAIN prods
      /\ (Asks(p)' <=> Asks(p)) /\ (Opened(p)' <=> Opened(p))
      /\ ~Emptying(p)' /\ Last(p)' = Last(p)
      /\ First(p) <= Last(p) /\ (Asks(p) => First(p) # Last(p))
      /\ slot = At(First(p)) /\ slot \in Slots
      /\ Kept(p)' = Kept(p) + 1 /\ Kept(p)' = prods[p].head
  BY <1>0, EmptyMoves
<1>2. RingOf(p) /\ TailBlock(p) /\ InSlot(p)
  BY <1>1, RingsAs
<1>3. /\ OnlyIn(p) /\ SameEnds(p) /\ SameBlock(p)
      /\ prods'[p].last = prods[p].last /\ prods'[p].key = prods[p].key
      /\ prods'[p].value = IF one THEN [prods[p].value EXCEPT ![slot] = NoBlock]
                           ELSE prods[p].value
  BY <1>0, <1>1, EmptyingOne
<1>4. /\ one => First(p)' = First(p) + 1
      /\ ~one => First(p)' = First(p)
  BY <1>0, LastOne
<1>5. InSlot(p)'
  BY <1>1 DEF InSlot
<1>6. DOMAIN prods' \subseteq DOMAIN prods \cup {p}
  BY <1>3 DEF OnlyIn
<1> HIDE DEF one
<1>7. CASE one
  <2>1. prods[p].value \in [Slots -> Nat]
    BY <1>1, Fields
  <2>2. prods'[p].value = [prods[p].value EXCEPT ![At(First(p))] = NoBlock]
    BY <1>1, <1>3, <1>7
  <2>3. Ring(prods'[p], First(p) + 1, Last(p), Asks(p))
    BY <1>1, <1>2, <1>3, <2>1, <2>2, RingClears DEF RingOf
  <2>4. RingOf(p)'
    BY <1>1, <1>4, <1>7, <2>3 DEF RingOf, Ring
  <2>5. TailBlock(p)'
    <3> SUFFICES ASSUME prods[p].tail % BlockSize # 0 \/ (Opened(p) /\ ~Asks(p))
                 PROVE  At(Last(p)) # At(First(p))
      BY <1>1, <1>2, <1>3, <2>1, <2>2, AtType DEF TailBlock, SameEnds, SameBlock
    <3>1. /\ prods[p].tail \in Int /\ prods[p].head <= prods[p].tail
          /\ prods[p].head \in Int /\ BlockSize \in Nat \ {0}
          /\ First(p) \in Nat /\ Last(p) \in Int
      BY <1>1, <1>2, Numbers, QueueAssumption
    <3>2. Last(p) = prods[p].tail \div BlockSize
      BY <3>1, BlockStart DEF Last
    <3>3. prods[p].head \div BlockSize <= prods[p].tail \div BlockSize
      BY <3>1, DivMonotone, Zenon
    <3>4. First(p)' = prods[p].head \div BlockSize
      BY <1>1 DEF First
    <3>5. First(p) < Last(p)
      BY <1>4, <1>7, <3>1, <3>2, <3>3, <3>4
    <3>6. Last(p) - First(p) < IndexSize
      BY <1>2 DEF RingOf, Ring
    <3>7. Distinct(First(p), Last(p))
      BY <3>1, <3>6, AtApart
    <3>8. First(p) \in First(p)..Last(p) /\ Last(p) \in First(p)..Last(p)
          /\ First(p) # Last(p)
      BY <3>1, <3>5
    <3> QED  BY <3>7, <3>8 DEF Distinct
  <2> QED  BY <1>1, <1>5, <1>6, <2>4, <2>5, OneRing
<1>8. CASE ~one
  <2>1. RingOf(p)'
    BY <1>1, <1>2, <1>3, <1>4, <1>8 DEF RingOf, Ring
  <2>2. TailBlock(p)'
    BY <1>1, <1>2, <1>3, <1>8 DEF TailBlock, SameEnds, SameBlock
  <2> QED  BY <1>1, <1>5, <1>6, <2>1, <2>2, OneRing
<1> QED  BY <1>7, <1>8

-----------------------------------------------------------------------------
(***************************************************************************)
(* Who has a block: one entry of one index, the free list, or the thread   *)
(* that took its last element.                                             *)
(***************************************************************************)

\* No index has the block: it is in the free list, or with the thread that
\* is about to put it there.
Loose(b) ==
  \/ b \in freeList
  \/ \E t \in {"proc", "ctl"} : pc[t] = "free" /\ slot = b

Owned ==
  /\ issued <= MaxBlocks
  /\ \A p \in DOMAIN prods : prods[p].block \in 0..issued
  /\ \A b \in freeList : b \in 1..issued
  /\ \A t \in {"proc", "ctl"} :
       pc[t] = "free" => slot \in 1..issued /\ slot \notin freeList
  /\ \A p \in DOMAIN prods, s \in Slots :
       prods[p].value[s] # NoBlock =>
         prods[p].value[s] \in 1..issued /\ ~Loose(prods[p].value[s])
  /\ \A p, q \in DOMAIN prods, s, x \in Slots :
       prods[p].value[s] # NoBlock /\ prods[p].value[s] = prods[q].value[x] =>
         p = q /\ s = x
  /\ \A b \in 1..issued :
       Loose(b) \/ \E p \in DOMAIN prods, s \in Slots : prods[p].value[s] = b

\* A block that requisition_block finds has not been handed out, or is free.
LEMMA FreshOnes ==
  ASSUME Typed, Owned, NEW t \in {"urb", "ctl"}, NEW b \in FreshBlocks(t)
  PROVE  /\ b \in 1..MaxBlocks /\ b # NoBlock
         /\ \/ b \in freeList /\ b \in 1..issued
            \/ b = issued + 1 /\ b \notin freeList
<1>1. issued \in Nat /\ issued <= MaxBlocks /\ MaxBlocks \in Nat
      /\ InitialBlocks \in Nat /\ InitialBlocks <= MaxBlocks
      /\ (\A c \in freeList : c \in 1..issued)
  BY QueueAssumption DEF Typed, Owned
<1>2. CASE b \in freeList
  BY <1>1, <1>2 DEF NoBlock
<1>3. CASE b \notin freeList
  BY <1>1, <1>3 DEF FreshBlocks, InitialPool, NoBlock
<1> QED  BY <1>2, <1>3

LEMMA FreshUnused ==
  ASSUME Typed, Owned, NEW t \in {"urb", "ctl"}, NEW b \in FreshBlocks(t)
  PROVE  \A p \in DOMAIN prods, s \in Slots : prods[p].value[s] # b
<1>1. /\ b # NoBlock
      /\ \/ b \in freeList /\ b \in 1..issued
         \/ b = issued + 1 /\ b \notin freeList
      /\ issued \in Nat
  BY FreshOnes DEF Typed
<1> SUFFICES ASSUME NEW p \in DOMAIN prods, NEW s \in Slots,
                    prods[p].value[s] = b
             PROVE  FALSE
  OBVIOUS
<1>2. b \in 1..issued /\ ~Loose(b)
  BY <1>1 DEF Owned
<1> QED  BY <1>1, <1>2 DEF Loose

LEMMA RingsStep ==
  ASSUME Typed, Phases, Claims, Boundaries, Rings, Counts, Owned, [Next]_vars
  PROVE  Rings'
<1>1. CASE Quiet
  <2>1. prods' = prods /\ \A q : Same(q)
    BY <1>1, QuietMoves
  <2>2. ASSUME NEW q \in DOMAIN prods'
        PROVE  RingOf(q)' /\ TailBlock(q)' /\ InSlot(q)'
    <3>1. Same(q) /\ RingOf(q) /\ TailBlock(q) /\ InSlot(q)
      BY <2>1, RingsAs
    <3> QED  BY <3>1, SameRing
  <2> QED  BY <2>2, RingsAs
<1>2. CASE DeleteQueue
  <2>1. DOMAIN prods' = {}
    BY <1>2 DEF DeleteQueue
  <2> QED  BY <2>1, RingsAs
<1>3. ASSUME NEW t \in {"urb", "ctl"}, NextBlock(t)
      PROVE  Rings'
  <2>1. NoBlock \notin FreshBlocks(t)
    BY FreshOnes
  <2> QED  BY <1>3, <2>1, BlockRing
<1> QED
  BY <1>1, <1>2, <1>3, FindRing, InsertRing, RefuseRing, WriteRing, TakeRing,
     EmptyRing, StepCases

\* A step after which every block is where it was.
Undisturbed ==
  /\ issued' = issued /\ freeList' = freeList
  /\ \A t \in {"proc", "ctl"} :
       /\ pc'[t] = "free" <=> pc[t] = "free"
       /\ pc[t] = "free" => slot' = slot
  /\ DOMAIN prods \subseteq DOMAIN prods'
  /\ \A p \in DOMAIN prods :
       prods'[p].value = prods[p].value /\ prods'[p].block = prods[p].block
  /\ \A p \in DOMAIN prods' :
       p \notin DOMAIN prods =>
         prods'[p].block = NoBlock /\ \A s \in Slots : prods'[p].value[s] = NoBlock

LEMMA OwnedKept ==
  ASSUME Typed, Owned, Undisturbed
  PROVE  Owned'
<1>1. /\ issued' = issued /\ freeList' = freeList /\ issued \in Nat
      /\ \A t \in {"proc", "ctl"} :
           /\ pc'[t] = "free" <=> pc[t] = "free"
           /\ pc[t] = "free" => slot' = slot
  BY DEF Undisturbed, Typed
<1>2. \A b : Loose(b)' <=> Loose(b)
  BY <1>1 DEF Loose
<1>3. /\ \A p \in DOMAIN prods : p \in DOMAIN prods'
      /\ \A p \in DOMAIN prods, s \in Slots :
           prods'[p].value[s] = prods[p].value[s]
      /\ \A p \in DOMAIN prods', s \in Slots :
           prods'[p].value[s] # NoBlock => p \in DOMAIN prods
  BY DEF Undisturbed
<1>4. \A p \in DOMAIN prods' : prods'[p].block \in 0..issued
  <2>1. \A p \in DOMAIN prods' :
          \/ p \in DOMAIN prods /\ prods'[p].block = prods[p].block
          \/ prods'[p].block = 0
    BY DEF Undisturbed, NoBlock
  <2> QED  BY <1>1, <2>1 DEF Owned
<1>5. \A p \in DOMAIN prods', s \in Slots :
        prods'[p].value[s] # NoBlock =>
          prods'[p].value[s] \in 1..issued /\ ~Loose(prods'[p].value[s])
  BY <1>3 DEF Owned
<1>6. \A p, q \in DOMAIN prods', s, x \in Slots :
        prods'[p].value[s] # NoBlock
        /\ prods'[p].value[s] = prods'[q].value[x] => p = q /\ s = x
  BY <1>3 DEF Owned
<1>7. \A b \in 1..issued :
        Loose(b) \/ \E p \in DOMAIN prods', s \in Slots : prods'[p].value[s] = b
  BY <1>3 DEF Owned
<1> QED  BY <1>1, <1>2, <1>4, <1>5, <1>6, <1>7 DEF Owned

\* A block is got and put into an entry that had none.
LEMMA OwnedGot ==
  ASSUME Typed, Phases, Claims, Boundaries, Rings, Owned,
         NEW t \in {"urb", "ctl"}, NextBlock(t)
  PROVE  Owned'
<1>0. PICK p : p = Id(t)
  OBVIOUS
<1>1. p \in DOMAIN prods /\ pc[t] = "block" /\ slot' = slot /\ t \in Threads
      /\ Go(t, "write")
  BY <1>0, ThreadIds DEF NextBlock, Claims, dequeueVars
<1>2. PICK b \in FreshBlocks(t) :
        /\ OnlyIn(p) /\ prods'[p].block = b
        /\ prods'[p].value = [prods[p].value EXCEPT ![prods[p].last] = b]
        /\ issued' = (IF b > issued THEN b ELSE issued)
        /\ freeList' = freeList \ {b}
  BY <1>0, <1>1, GettingBlock
<1>3. /\ b \in 1..MaxBlocks /\ b # NoBlock
      /\ \/ b \in freeList /\ b \in 1..issued
         \/ b = issued + 1 /\ b \notin freeList
      /\ issued \in Nat /\ MaxBlocks \in Nat /\ issued <= MaxBlocks
  BY FreshOnes, QueueAssumption DEF Owned, Typed
<1>4. /\ issued' \in Nat /\ issued <= issued' /\ issued' <= MaxBlocks
      /\ b \in 1..issued' /\ (\A c \in 1..issued' : c = b \/ c \in 1..issued)
  BY <1>2, <1>3
<1>5. \A u \in {"proc", "ctl"} : pc'[u] = "free" <=> pc[u] = "free"
  BY <1>1, Goes, ThreadIds
<1>6. \A c : Loose(c)' <=> (Loose(c) /\ c # b)
  <2>1. ASSUME NEW u \in {"proc", "ctl"}, pc[u] = "free"
        PROVE  slot # b
    BY <1>3, <2>1 DEF Owned
  <2> QED  BY <1>1, <1>2, <1>5, <2>1 DEF Loose
<1>7. \A q \in DOMAIN prods, s \in Slots : prods[q].value[s] # b
  BY FreshUnused
\* The entry has no block.
<1>8. prods[p].value[prods[p].last] = NoBlock /\ prods[p].last \in Slots
      /\ prods[p].value \in [Slots -> Nat]
  <2>1. RingOf(p) /\ TailBlock(p) /\ InSlot(p)
    BY <1>1, RingsAs
  <2>2. Asks(p) /\ First(p) <= Last(p)
    BY <1>0, <1>1, <2>1, Asking
  <2>3. prods[p].last = At(Last(p)) /\ First(p) \in Nat /\ Last(p) \in Int
    BY <2>1 DEF RingOf, Ring
  <2>4. Last(p) \in First(p)..Last(p)
    BY <2>2, <2>3
  <2>5. prods[p].value[At(Last(p))] = NoBlock
    BY <2>1, <2>2, <2>4 DEF RingOf, Ring
  <2> QED  BY <1>1, <2>3, <2>5, Fields
<1>9. /\ DOMAIN prods' = DOMAIN prods
      /\ \A q \in DOMAIN prods, s \in Slots :
           IF q = p /\ s = prods[p].last THEN prods'[q].value[s] = b
           ELSE prods'[q].value[s] = prods[q].value[s]
  BY <1>1, <1>2, <1>8 DEF OnlyIn
<1>10. \A q \in DOMAIN prods' : prods'[q].block \in 0..issued'
  <2>1. \A q \in DOMAIN prods : prods[q].block \in 0..issued
    BY DEF Owned
  <2>2. \A q \in DOMAIN prods : q = p \/ prods'[q] = prods[q]
    BY <1>2 DEF OnlyIn
  <2>3. \A c \in 0..issued : c \in 0..issued'
    BY <1>3, <1>4
  <2>4. b \in 0..issued'
    BY <1>4
  <2> QED  BY <1>2, <1>9, <2>1, <2>2, <2>3, <2>4
<1>11. /\ \A c \in freeList' : c \in 1..issued'
       /\ \A u \in {"proc", "ctl"} :
            pc'[u] = "free" => slot' \in 1..issued' /\ slot' \notin freeList'
  <2>1. \A c \in 1..issued : c \in 1..issued'
    BY <1>3, <1>4
  <2> QED  BY <1>1, <1>2, <1>5, <2>1 DEF Owned
<1>12. \A q \in DOMAIN prods', s \in Slots, c \in Nat :
         c = prods'[q].value[s] /\ c # NoBlock =>
           c \in 1..issued' /\ ~(Loose(c)')
  <2>1. \A c \in 1..issued : c \in 1..issued'
    BY <1>3, <1>4
  <2> SUFFICES ASSUME NEW q \in DOMAIN prods, NEW s \in Slots, NEW c \in Nat,
                      c = prods'[q].value[s], c # NoBlock
               PROVE  c \in 1..issued' /\ ~(Loose(c)')
    BY <1>9
  <2>2. CASE q = p /\ s = prods[p].last
    BY <1>4, <1>6, <1>9, <2>2
  <2>3. CASE ~(q = p /\ s = prods[p].last)
    <3>1. c = prods[q].value[s]
      BY <1>9, <2>3
    <3>2. c \in 1..issued /\ ~Loose(c)
      BY <3>1 DEF Owned
    <3> QED  BY <1>6, <2>1, <3>2
  <2> QED  BY <2>2, <2>3
<1>13. \A q, r \in DOMAIN prods', s, x \in Slots :
         prods'[q].value[s] # NoBlock
         /\ prods'[q].value[s] = prods'[r].value[x] => q = r /\ s = x
  BY <1>7, <1>9 DEF Owned
<1>14. \A c \in 1..issued' :
         Loose(c)' \/ \E q \in DOMAIN prods', s \in Slots : prods'[q].value[s] = c
  <2> SUFFICES ASSUME NEW c \in 1..issued', ~(Loose(c)')
               PROVE  \E q \in DOMAIN prods', s \in Slots : prods'[q].value[s] = c
    OBVIOUS
  <2>1. CASE c = b
    BY <1>1, <1>8, <1>9, <2>1
  <2>2. CASE c # b
    <3>1. c \in 1..issued /\ ~Loose(c)
      BY <1>4, <1>6, <2>2
    <3>2. PICK q \in DOMAIN prods, s \in Slots : prods[q].value[s] = c
      BY <3>1 DEF Owned
    <3>3. c # NoBlock
      BY <3>1 DEF NoBlock
    <3> QED  BY <1>8, <1>9, <3>2, <3>3
  <2> QED  BY <2>1, <2>2
<1>15. \A q \in DOMAIN prods', s \in Slots : prods'[q].value[s] \in Nat
  BY <1>2 DEF OnlyIn, Producer
<1> QED
  BY <1>4, <1>10, <1>11, <1>12, <1>13, <1>14, <1>15 DEF Owned, Loose

\* The block that a dequeue counts for is one of those in use.
LEMMA Counted ==
  ASSUME Typed, Phases, Claims, Boundaries, Rings, Owned,
         NEW t \in {"proc", "ctl"}, Empties(t), NEW p, p = from
  PROVE  /\ prods[p].value[slot] # NoBlock
         /\ prods[p].value[slot] \in 1..issued
         /\ prods[p].value[slot] \in Blocks
         /\ ~Loose(prods[p].value[slot])
         /\ p \in DOMAIN prods /\ slot \in Slots /\ slot = At(First(p))
<1>1. /\ p \in DOMAIN prods /\ First(p) <= Last(p)
      /\ (Asks(p) => First(p) # Last(p)) /\ slot = At(First(p))
      /\ slot \in Slots
  BY EmptyMoves
<1>2. Ring(prods[p], First(p), Last(p), Asks(p)) /\ InSlot(p)
  BY <1>1 DEF Rings
<1>3. First(p) \in Nat /\ Last(p) \in Int
  BY <1>1, <1>2, Numbers
<1>4. First(p) \in First(p)..Last(p)
  BY <1>1, <1>3
<1>5. prods[p].value[slot] # NoBlock
  BY <1>1, <1>2, <1>4 DEF Ring
<1>6. prods[p].value[slot] \in 1..issued /\ ~Loose(prods[p].value[slot])
  BY <1>1, <1>5 DEF Owned
<1>7. issued \in Nat /\ issued <= MaxBlocks /\ MaxBlocks \in Nat
  BY QueueAssumption DEF Owned, Typed
<1>8. \A c \in 1..issued : c \in Blocks
  BY <1>7 DEF Blocks
<1> QED  BY <1>1, <1>5, <1>6, <1>8

LEMMA OwnedEmptied ==
  ASSUME Typed, Phases, Claims, Boundaries, Rings, Owned,
         NEW t \in {"proc", "ctl"}, Empties(t)
  PROVE  Owned'
<1>0. PICK p : p = from
  OBVIOUS
<1>1. PICK b : b = prods[p].value[slot]
  OBVIOUS
<1>2. /\ b # NoBlock /\ b \in 1..issued /\ ~Loose(b)
      /\ p \in DOMAIN prods /\ slot \in Slots
  BY <1>0, <1>1, Counted
<1>3. /\ pc[t] = "empty" /\ issued' = issued /\ freeList' = freeList
      /\ t \in Threads /\ issued \in Nat
      /\ (OneLeft(b) => slot' = b /\ Go(t, "free"))
      /\ (~OneLeft(b) => slot' = slot /\ Go(t, Returned(t)))
  BY <1>0, <1>1, ThreadIds DEF Empties, Typed
<1>4. /\ OnlyIn(p) /\ SameBlock(p) /\ prods[p].value \in [Slots -> Nat]
      /\ prods'[p].value = IF OneLeft(b)
                           THEN [prods[p].value EXCEPT ![slot] = NoBlock]
                           ELSE prods[p].value
  BY <1>0, <1>1, <1>2, EmptyingOne, Fields
\* The other thread that dequeues is elsewhere.
<1>5. \A u \in {"proc", "ctl"} : u # t => pc[u] # "free" /\ pc'[u] # "free"
  <2>1. /\ pc["proc"] \in DequeuePlaces => pc["ctl"] \notin DequeuePlaces
        /\ pc["ctl"] \in DequeuePlaces => pc["proc"] \notin DequeuePlaces
    BY Alone
  <2>2. \A u \in Threads \ {t} : pc'[u] = pc[u]
    BY <1>3, Goes
  <2> QED  BY <1>3, <2>1, <2>2, ThreadIds DEF DequeuePlaces
<1>6. CASE ~OneLeft(b)
  <2>1. pc'[t] # "free" /\ slot' = slot
    BY <1>3, <1>6, Goes DEF Returned
  <2>2. \A q \in DOMAIN prods :
          prods'[q].value = prods[q].value /\ prods'[q].block = prods[q].block
    BY <1>4, <1>6 DEF OnlyIn, SameBlock
  <2>3. Undisturbed
    BY <1>3, <1>4, <1>5, <2>1, <2>2 DEF Undisturbed, OnlyIn
  <2> QED  BY <2>3, OwnedKept
<1>7. CASE OneLeft(b)
  <2>1. pc'[t] = "free" /\ slot' = b /\ pc[t] # "free"
    BY <1>3, <1>7, Goes
  <2>2. \A c : Loose(c)' <=> (Loose(c) \/ c = b)
    BY <1>3, <1>5, <2>1 DEF Loose
  <2>3. /\ DOMAIN prods' = DOMAIN prods
        /\ \A q \in DOMAIN prods, s \in Slots :
             IF q = p /\ s = slot THEN prods'[q].value[s] = NoBlock
             ELSE prods'[q].value[s] = prods[q].value[s]
    BY <1>4, <1>7 DEF OnlyIn
  <2>4. \A q \in DOMAIN prods' : prods'[q].block \in 0..issued
    BY <1>4 DEF OnlyIn, SameBlock, Owned
  <2>5. /\ \A c \in freeList' : c \in 1..issued'
        /\ \A u \in {"proc", "ctl"} :
             pc'[u] = "free" => slot' \in 1..issued' /\ slot' \notin freeList'
    BY <1>2, <1>3, <1>5, <2>1 DEF Owned, Loose
  <2>6. \A q \in DOMAIN prods', s \in Slots, c \in Nat :
          c = prods'[q].value[s] /\ c # NoBlock =>
            c \in 1..issued' /\ ~(Loose(c)')
    <3> SUFFICES ASSUME NEW q \in DOMAIN prods, NEW s \in Slots, NEW c \in Nat,
                        c = prods'[q].value[s], c # NoBlock
                 PROVE  c \in 1..issued /\ ~Loose(c) /\ c # b
      BY <1>3, <2>2, <2>3
    <3>1. c = prods[q].value[s] /\ ~(q = p /\ s = slot)
      BY <2>3
    <3>2. c \in 1..issued /\ ~Loose(c)
      BY <3>1 DEF Owned
    <3>3. c # b
      BY <1>1, <1>2, <3>1 DEF Owned
    <3> QED  BY <3>2, <3>3
  <2>7. \A q, r \in DOMAIN prods', s, x \in Slots :
          prods'[q].value[s] # NoBlock
          /\ prods'[q].value[s] = prods'[r].value[x] => q = r /\ s = x
    BY <2>3 DEF Owned
  <2>8. \A c \in 1..issued' :
          Loose(c)' \/ \E q \in DOMAIN prods', s \in Slots :
                         prods'[q].value[s] = c
    <3> SUFFICES ASSUME NEW c \in 1..issued, ~Loose(c), c # b
                 PROVE  \E q \in DOMAIN prods, s \in Slots :
                          prods'[q].value[s] = c
      BY <1>3, <2>2, <2>3
    <3>1. PICK q \in DOMAIN prods, s \in Slots : prods[q].value[s] = c
      BY DEF Owned
    <3>2. prods'[q].value[s] = c
      BY <1>1, <2>3, <3>1
    <3> QED  BY <3>2
  <2>9. \A q \in DOMAIN prods', s \in Slots : prods'[q].value[s] \in Nat
    BY <1>4 DEF OnlyIn, Producer
  <2>10. issued' <= MaxBlocks
    BY <1>3 DEF Owned
  <2> QED
    BY <1>3, <2>4, <2>5, <2>6, <2>7, <2>8, <2>9, <2>10 DEF Owned, Loose
<1> QED  BY <1>6, <1>7

LEMMA OwnedFreed ==
  ASSUME Typed, Phases, Owned, NEW t \in {"proc", "ctl"}, FreesBlock(t)
  PROVE  Owned'
<1>1. /\ pc[t] = "free" /\ freeList' = freeList \cup {slot}
      /\ issued' = issued /\ prods' = prods /\ Go(t, Returned(t))
      /\ t \in Threads
  BY ThreadIds DEF FreesBlock
<1>2. \A u \in {"proc", "ctl"} : pc'[u] # "free" /\ (u # t => pc[u] # "free")
  <2>1. /\ pc["proc"] \in DequeuePlaces => pc["ctl"] \notin DequeuePlaces
        /\ pc["ctl"] \in DequeuePlaces => pc["proc"] \notin DequeuePlaces
    BY Alone
  <2>2. pc'[t] = Returned(t) /\ \A u \in Threads \ {t} : pc'[u] = pc[u]
    BY <1>1, Goes
  <2> QED  BY <1>1, <2>1, <2>2, ThreadIds DEF DequeuePlaces, Returned
<1>3. \A b : Loose(b)' <=> Loose(b)
  BY <1>1, <1>2 DEF Loose
<1>4. slot \in 1..issued
  BY <1>1 DEF Owned
<1>5. /\ \A b \in freeList' : b \in 1..issued
      /\ \A u \in {"proc", "ctl"} :
           pc'[u] = "free" => slot' \in 1..issued /\ slot' \notin freeList'
  BY <1>1, <1>2, <1>4 DEF Owned
<1>6. /\ issued <= MaxBlocks
      /\ \A p \in DOMAIN prods : prods[p].block \in 0..issued
      /\ \A p \in DOMAIN prods, s \in Slots :
           prods[p].value[s] # NoBlock =>
             prods[p].value[s] \in 1..issued /\ ~Loose(prods[p].value[s])
      /\ \A p, q \in DOMAIN prods, s, x \in Slots :
           prods[p].value[s] # NoBlock /\ prods[p].value[s] = prods[q].value[x] =>
             p = q /\ s = x
      /\ \A b \in 1..issued :
           Loose(b) \/ \E p \in DOMAIN prods, s \in Slots : prods[p].value[s] = b
  BY DEF Owned
<1> QED  BY <1>1, <1>3, <1>5, <1>6 DEF Owned

\* A block that is begun and not full is in the index.
LEMMA TailInUse ==
  ASSUME Typed, Claims, Boundaries, Rings, NEW p \in DOMAIN prods,
         prods[p].tail % BlockSize # 0
  PROVE  /\ At(Last(p)) \in Slots
         /\ prods[p].value[At(Last(p))] = prods[p].block
         /\ prods[p].block # NoBlock
<1>1. RingOf(p) /\ TailBlock(p) /\ InSlot(p)
  BY RingsAs
<1>2. ~Asks(p)
  BY DEF Asks, Boundaries
<1>3. /\ prods[p].tail \in Int /\ Kept(p) \in Int /\ Kept(p) <= prods[p].tail
      /\ First(p) \in Nat /\ Last(p) \in Int /\ BlockSize \in Nat \ {0}
  BY <1>1, Numbers, QueueAssumption
<1>4. Last(p) = prods[p].tail \div BlockSize
  BY <1>3, BlockStart DEF Last
<1>5. Kept(p) \div BlockSize <= prods[p].tail \div BlockSize
  BY <1>3, DivMonotone, Zenon
<1>6. Last(p) \in First(p)..Last(p)
  BY <1>3, <1>4, <1>5 DEF First
<1>7. prods[p].value[At(Last(p))] # NoBlock
  BY <1>1, <1>2, <1>6 DEF RingOf, Ring
<1>8. prods[p].value[At(Last(p))] = prods[p].block
  BY <1>1 DEF TailBlock
<1> QED  BY <1>3, <1>7, <1>8, AtType

\* Between two sessions nothing is in a sub-queue, and no thread is at work.
LEMMA AtRest ==
  ASSUME Typed, Phases, DrainedAtEnd, ctl = "off"
  PROVE  \A p \in DOMAIN prods :
           /\ prods[p].head = prods[p].tail
           /\ ~Opened(p) /\ ~Asks(p) /\ ~Emptying(p)
<1>1. \A t \in Threads : pc[t] = "off"
  BY DEF Phases
<1>2. \A p : ~Opened(p) /\ ~Asks(p) /\ ~Emptying(p)
  BY <1>1, ThreadIds DEF Opened, Asks, Emptying
<1>3. ASSUME NEW p \in DOMAIN prods
      PROVE  prods[p].head = prods[p].tail
  <2>1. prods[p].head..(prods[p].tail - 1) = {}
    BY InElements DEF DrainedAtEnd
  <2>2. /\ prods[p].head \in Nat /\ prods[p].tail \in Nat
        /\ prods[p].head <= prods[p].tail
    BY Fields
  <2> QED  BY <2>1, <2>2
<1> QED  BY <1>2, <1>3

\* The blocks in use are then those that are begun and not full.
LEMMA TailsInUse ==
  ASSUME Typed, Phases, DrainedAtEnd, Rings, ctl = "off",
         NEW p \in DOMAIN prods, NEW s \in Slots, prods[p].value[s] # NoBlock
  PROVE  prods[p].tail % BlockSize # 0 /\ prods[p].value[s] = prods[p].block
<1>1. /\ prods[p].head = prods[p].tail
      /\ ~Opened(p) /\ ~Asks(p) /\ ~Emptying(p)
  BY AtRest
<1>2. RingOf(p) /\ TailBlock(p) /\ InSlot(p)
  BY RingsAs
<1>3. /\ First(p) = prods[p].tail \div BlockSize
      /\ Last(p) = (prods[p].tail - 1) \div BlockSize
  BY <1>1 DEF First, Last, Kept
<1>4. PICK j \in First(p)..Last(p) : s = At(j)
  BY <1>2 DEF RingOf, Ring
<1>5. /\ prods[p].tail \in Int /\ First(p) \in Nat /\ Last(p) \in Int
  BY <1>2, Numbers
<1>6. /\ prods[p].tail % BlockSize = 0 => Last(p) = First(p) - 1
      /\ prods[p].tail % BlockSize # 0 => Last(p) = First(p)
  BY <1>3, <1>5, BlockStart
<1>7. prods[p].tail % BlockSize # 0 /\ j = Last(p)
  BY <1>4, <1>5, <1>6
<1> QED  BY <1>2, <1>4, <1>7 DEF TailBlock

LEMMA OwnedDeleted ==
  ASSUME Typed, Phases, Claims, Boundaries, DrainedAtEnd, Rings, Owned,
         DeleteQueue
  PROVE  Owned' /\ freeList' = 1..issued' /\ DOMAIN prods' = {}
<1>1. /\ ctl = "off" /\ freeList' = freeList \cup TailBlocks
      /\ DOMAIN prods' = {} /\ issued' = issued /\ pc' = pc
      /\ slot' = slot
  BY DEF DeleteQueue, dequeueVars
<1>2. \A t \in {"proc", "ctl"} : pc[t] # "free"
  BY <1>1, ThreadIds DEF Phases
<1>3. \A b \in TailBlocks : b \in 1..issued
  <2> SUFFICES ASSUME NEW p \in DOMAIN prods, prods[p].tail % BlockSize # 0
               PROVE  prods[p].block \in 1..issued
    BY DEF TailBlocks
  <2> QED  BY TailInUse DEF Owned
<1>4. \A b \in 1..issued : b \in freeList'
  <2> SUFFICES ASSUME NEW b \in 1..issued, b \notin freeList
               PROVE  b \in TailBlocks
    BY <1>1
  <2>1. ~Loose(b)
    BY <1>2 DEF Loose
  <2>2. PICK p \in DOMAIN prods, s \in Slots : prods[p].value[s] = b
    BY <2>1 DEF Owned
  <2>3. prods[p].value[s] # NoBlock
    BY <2>2 DEF NoBlock
  <2>4. prods[p].tail % BlockSize # 0 /\ b = prods[p].block
    BY <1>1, <2>2, <2>3, TailsInUse
  <2> QED  BY <2>4 DEF TailBlocks
<1>5. \A b \in freeList' : b \in 1..issued
  BY <1>1, <1>3 DEF Owned
<1>6. Owned'
  BY <1>1, <1>2, <1>4, <1>5 DEF Owned, Loose
<1> QED  BY <1>1, <1>4, <1>5, <1>6

\* The threads that hold a block they emptied are the same, and so are the
\* free list and the count of what was handed out.
PoolKept ==
  /\ issued' = issued /\ freeList' = freeList
  /\ \A t \in {"proc", "ctl"} :
       /\ pc'[t] = "free" <=> pc[t] = "free"
       /\ pc[t] = "free" => slot' = slot

LEMMA QuietPool ==
  ASSUME Typed, Phases, Quiet,
         \A t \in {"proc", "ctl"} : ~FreesBlock(t)
  PROVE  PoolKept
<1>0. /\ Threads = {"urb", "proc", "ctl"}
      /\ \A t \in Threads : \A place : Go(t, place) =>
           pc'[t] = place /\ \A u \in Threads \ {t} : pc'[u] = pc[u]
  BY ThreadIds, Goes
<1>1. ASSUME NEW t \in {"urb", "ctl"}, Signals(t)
      PROVE  PoolKept
  <2>1. /\ pc[t] \in {"signal", "post"} /\ pc'[t] \in {"post", "idle", "done"}
        /\ (\A u \in Threads \ {t} : pc'[u] = pc[u])
        /\ slot' = slot /\ issued' = issued /\ freeList' = freeList
    BY <1>0, <1>1 DEF Signals, Done, dequeueVars, memoryVars
  <2> QED  BY <1>0, <2>1 DEF PoolKept
<1>2. ASSUME NEW t \in {"proc", "ctl"}, Scans(t)
      PROVE  PoolKept
  <2>1. /\ pc[t] = "scan" /\ pc'[t] = "take"
        /\ (\A u \in Threads \ {t} : pc'[u] = pc[u])
        /\ slot' = slot /\ issued' = issued /\ freeList' = freeList
    BY <1>0, <1>2 DEF Scans, memoryVars
  <2> QED  BY <1>0, <2>1 DEF PoolKept
<1>3. CASE Refuses \/ EnqueuesFrame
  <2>1. /\ pc'["proc"] = pc["proc"] /\ pc'["ctl"] = pc["ctl"]
        /\ slot' = slot /\ issued' = issued /\ freeList' = freeList
    BY <1>0, <1>3 DEF Refuses, EnqueuesFrame, dequeueVars, memoryVars
  <2> QED  BY <2>1 DEF PoolKept
<1>4. CASE Waits \/ ProcessThread
  <2>1. /\ pc["proc"] \in {"idle", "wait"}
        /\ pc'["proc"] \in {"scan", "wait", "done"}
        /\ pc'["ctl"] = pc["ctl"]
        /\ slot' = slot /\ issued' = issued /\ freeList' = freeList
    BY <1>0, <1>4 DEF Waits, ProcessThread, memoryVars, dequeueVars
  <2> QED  BY <2>1 DEF PoolKept
<1>5. CASE Drains \/ Drained
  <2>1. /\ pc["ctl"] = "drain" /\ pc'["ctl"] \in {"scan", "off"}
        /\ pc'["proc"] = pc["proc"]
        /\ slot' = slot /\ issued' = issued /\ freeList' = freeList
    BY <1>0, <1>5 DEF Drains, Drained, memoryVars, dequeueVars
  <2> QED  BY <2>1 DEF PoolKept
<1>6. CASE StartStreaming
  <2>1. /\ pc["proc"] = "off" /\ pc'["proc"] = "idle" /\ pc'["ctl"] = pc["ctl"]
        /\ slot' = slot /\ issued' = issued /\ freeList' = freeList
    BY <1>0, <1>6 DEF StartStreaming, memoryVars, dequeueVars, Typed, Phases
  <2> QED  BY <2>1 DEF PoolKept
<1>7. CASE StopStreaming \/ JoinProcessThread
  <2>1. /\ pc["ctl"] \in {"off", "done"} /\ pc'["ctl"] \in {"find", "drain"}
        /\ \/ pc'["proc"] = pc["proc"]
           \/ pc["proc"] = "done" /\ pc'["proc"] = "off"
        /\ slot' = slot /\ issued' = issued /\ freeList' = freeList
    BY <1>0, <1>7 DEF StopStreaming, JoinProcessThread, memoryVars,
                      dequeueVars, Typed, Phases
  <2> QED  BY <2>1 DEF PoolKept
<1>8. CASE UNCHANGED vars
  BY <1>8 DEF vars, memoryVars, dequeueVars, PoolKept
<1> QED
  BY <1>1, <1>2, <1>3, <1>4, <1>5, <1>6, <1>7, <1>8 DEF Quiet

LEMMA OwnedStep ==
  ASSUME Typed, Phases, Claims, Boundaries, DrainedAtEnd, Rings, Owned,
         [Next]_vars
  PROVE  Owned'
<1>0. /\ Threads = {"urb", "proc", "ctl"}
      /\ \A t \in Threads : \A place : Go(t, place) =>
           pc'[t] = place /\ \A u \in Threads \ {t} : pc'[u] = pc[u]
  BY ThreadIds, Goes
<1>1. CASE Quiet
  <2>1. ASSUME \A t \in {"proc", "ctl"} : ~FreesBlock(t)
        PROVE  Owned'
    <3>1. PoolKept /\ prods' = prods
      BY <1>1, <2>1, QuietPool, QuietMoves
    <3>2. Undisturbed
      BY <3>1 DEF Undisturbed, PoolKept
    <3> QED  BY <3>2, OwnedKept
  <2> QED  BY <2>1, OwnedFreed
<1>2. CASE Refuses /\ pc["urb"] = "block"
  <2>1. PoolKept
    BY <1>0, <1>2 DEF Refuses, dequeueVars, PoolKept
  <2>2. /\ DOMAIN prods' = DOMAIN prods
        /\ \A q \in DOMAIN prods :
             prods'[q].value = prods[q].value /\ prods'[q].block = prods[q].block
    BY <1>2, Refusing DEF OnlyIn, SameBlock
  <2>3. Undisturbed
    BY <2>1, <2>2 DEF Undisturbed, PoolKept
  <2> QED  BY <2>3, OwnedKept
<1>3. ASSUME NEW t \in {"urb", "ctl"}, FindProducer(t)
      PROVE  Owned'
  <2>1. /\ pc[t] = "find" /\ pc'[t] \in {"index", "write"}
        /\ (\A u \in Threads \ {t} : pc'[u] = pc[u])
        /\ slot' = slot /\ issued' = issued /\ freeList' = freeList
    BY <1>0, <1>3 DEF FindProducer, dequeueVars
  <2>2. PoolKept
    BY <1>0, <2>1 DEF PoolKept
  <2>3. /\ DOMAIN prods \subseteq DOMAIN prods'
        /\ \A q \in DOMAIN prods : prods'[q] = prods[q]
        /\ \A q \in DOMAIN prods' : q \notin DOMAIN prods =>
             prods'[q] = NewProducer
    BY <1>3, Finding
  <2>4. NewProducer.block = NoBlock
        /\ \A s \in Slots : NewProducer.value[s] = NoBlock
    BY DEF NewProducer
  <2>5. Undisturbed
    BY <2>2, <2>3, <2>4 DEF Undisturbed, PoolKept
  <2> QED  BY <2>5, OwnedKept
<1>4. ASSUME NEW t \in {"urb", "ctl"}, InsertEntry(t) \/ Write(t)
      PROVE  Owned'
  <2>1. /\ pc[t] \in {"index", "write"} /\ pc'[t] \in {"block", "signal"}
        /\ (\A u \in Threads \ {t} : pc'[u] = pc[u])
        /\ slot' = slot /\ issued' = issued /\ freeList' = freeList
    BY <1>0, <1>4 DEF InsertEntry, Write, dequeueVars
  <2>2. PoolKept
    BY <1>0, <2>1 DEF PoolKept
  <2>3. Id(t) \in DOMAIN prods
    BY <2>1 DEF Claims
  <2>4. /\ DOMAIN prods' = DOMAIN prods
        /\ \A q \in DOMAIN prods :
             prods'[q].value = prods[q].value /\ prods'[q].block = prods[q].block
    BY <1>4, <2>3, Inserting, Writing DEF OnlyIn, SameBlock, SameIndex
  <2>5. Undisturbed
    BY <2>2, <2>4 DEF Undisturbed, PoolKept
  <2> QED  BY <2>5, OwnedKept
<1>5. ASSUME NEW t \in {"proc", "ctl"}, Takes(t)
      PROVE  Owned'
  <2>1. /\ pc[t] = "take" /\ pc'[t] = "empty"
        /\ (\A u \in Threads \ {t} : pc'[u] = pc[u])
        /\ issued' = issued /\ freeList' = freeList
    BY <1>0, <1>5 DEF Takes
  <2>2. \A u \in {"proc", "ctl"} : pc[u] # "free" /\ pc'[u] # "free"
    <3>1. /\ pc["proc"] \in DequeuePlaces => pc["ctl"] \notin DequeuePlaces
          /\ pc["ctl"] \in DequeuePlaces => pc["proc"] \notin DequeuePlaces
      BY Alone
    <3> QED  BY <1>0, <2>1, <3>1 DEF DequeuePlaces
  <2>3. from \in DOMAIN prods
    BY <2>1 DEF Claims
  <2>4. /\ DOMAIN prods' = DOMAIN prods
        /\ \A q \in DOMAIN prods :
             prods'[q].value = prods[q].value /\ prods'[q].block = prods[q].block
    BY <1>5, <2>3, Taking DEF OnlyIn, SameBlock, SameIndex
  <2>5. Undisturbed
    BY <2>1, <2>2, <2>4 DEF Undisturbed
  <2> QED  BY <2>5, OwnedKept
<1> QED
  BY <1>1, <1>2, <1>3, <1>4, <1>5, OwnedGot, OwnedEmptied, OwnedDeleted,
     StepCases

-----------------------------------------------------------------------------
(***************************************************************************)
(* What is counted for each block.                                         *)
(***************************************************************************)

\* The blocks of a ring that are there.
LEMMA InUse ==
  ASSUME Typed, Rings, Owned, NEW p \in DOMAIN prods,
         NEW j \in First(p)..Last(p), ~(Asks(p) /\ j = Last(p))
  PROVE  /\ At(j) \in Slots /\ j \in Int
         /\ prods[p].value[At(j)] # NoBlock
         /\ prods[p].value[At(j)] \in 1..issued
         /\ prods[p].value[At(j)] \in Blocks
<1>1. RingOf(p)
  BY RingsAs
<1>2. First(p) \in Nat /\ Last(p) \in Int
  BY <1>1 DEF RingOf, Ring
<1>3. j \in Int
  BY <1>2
<1>4. At(j) \in Slots
  BY <1>3, AtType
<1>5. prods[p].value[At(j)] # NoBlock
  BY <1>1 DEF RingOf, Ring
<1>6. prods[p].value[At(j)] \in 1..issued
  BY <1>4, <1>5 DEF Owned
<1>7. issued \in Nat /\ issued <= MaxBlocks /\ MaxBlocks \in Nat
  BY QueueAssumption DEF Owned, Typed
<1>8. \A c \in 1..issued : c \in Blocks
  BY <1>7 DEF Blocks
<1> QED  BY <1>3, <1>4, <1>5, <1>6, <1>8

\* Only the count of b may change.
CountsOnly(b) == \A c \in Blocks : c # b => emptied'[c] = emptied[c]

\* A ring in which b is not, or not any more, that begins and ends where it
\* did: its counts are as they were.
SameCounts(p, b) ==
  /\ First(p)' = First(p) /\ Kept(p)' = Kept(p)
  /\ Last(p)' = Last(p) /\ (Asks(p)' <=> Asks(p))
  /\ prods'[p].value = prods[p].value
  /\ \A s \in Slots : prods[p].value[s] # NoBlock => prods[p].value[s] # b

LEMMA CountsSame ==
  ASSUME Typed, Rings, Owned, NEW p \in DOMAIN prods, CountOf(p), NEW b,
         CountsOnly(b), SameCounts(p, b)
  PROVE  CountOf(p)'
<1>1. /\ First(p)' = First(p) /\ Kept(p)' = Kept(p)
      /\ Last(p)' = Last(p) /\ (Asks(p)' <=> Asks(p))
      /\ prods'[p].value = prods[p].value
  BY DEF SameCounts
<1>2. ASSUME NEW j \in First(p)..Last(p), ~(Asks(p) /\ j = Last(p))
      PROVE  emptied'[prods[p].value[At(j)]] =
               IF j = First(p) THEN Kept(p) % BlockSize ELSE 0
  <2>1. At(j) \in Slots /\ prods[p].value[At(j)] # NoBlock
        /\ prods[p].value[At(j)] \in Blocks
    BY <1>2, InUse
  <2>2. emptied'[prods[p].value[At(j)]] = emptied[prods[p].value[At(j)]]
    BY <2>1 DEF CountsOnly, SameCounts
  <2> QED  BY <1>2, <2>2 DEF CountOf
<1> QED  BY <1>1, <1>2 DEF CountOf

LEMMA OtherCounts ==
  ASSUME Typed, Rings, Owned, Counts, NEW p, NEW b, OthersSame(p),
         CountsOnly(b),
         \A q \in DOMAIN prods \ {p}, s \in Slots :
           prods[q].value[s] # NoBlock => prods[q].value[s] # b
  PROVE  \A q \in DOMAIN prods \ {p} : CountOf(q)'
<1> SUFFICES ASSUME NEW q \in DOMAIN prods \ {p}
             PROVE  CountOf(q)'
  OBVIOUS
<1>1. Same(q) /\ CountOf(q)
  BY DEF OthersSame, Counts
<1>2. SameCounts(q, b)
  BY <1>1, SameNumbers DEF Same, SameCounts
<1> QED  BY <1>1, <1>2, CountsSame

\* With the counts as they are, when the blocks of a ring are as they are.
LEMMA CountsLeft ==
  ASSUME Typed, Rings, Owned, Counts, NEW p \in DOMAIN prods, OthersSame(p),
         emptied' = emptied, DOMAIN prods' = DOMAIN prods,
         First(p)' = First(p), Kept(p)' = Kept(p), Last(p)' = Last(p),
         Asks(p)' <=> Asks(p), prods'[p].value = prods[p].value
  PROVE  Counts'
<1>1. CountsOnly(NoBlock)
  BY DEF CountsOnly
<1>2. SameCounts(p, NoBlock) /\ CountOf(p)
  BY DEF SameCounts, Counts
<1>3. CountOf(p)'
  BY <1>1, <1>2, CountsSame
<1>4. \A q \in DOMAIN prods \ {p} : CountOf(q)'
  BY <1>1, OtherCounts
<1> QED  BY <1>3, <1>4 DEF Counts

\* The last entry comes or goes without a block: the other counts are left.
LEMMA CountsAtEnd ==
  ASSUME Typed, Rings, Owned, Counts, NEW p \in DOMAIN prods, OthersSame(p),
         emptied' = emptied, DOMAIN prods' = DOMAIN prods,
         First(p)' = First(p), Kept(p)' = Kept(p),
         prods'[p].value = prods[p].value, Last(p)' \in Int,
         \/ ~Asks(p) /\ Asks(p)' /\ Last(p)' = Last(p) + 1
         \/ Asks(p) /\ ~Asks(p)' /\ Last(p)' = Last(p) - 1
  PROVE  Counts'
<1>1. CountsOnly(NoBlock)
  BY DEF CountsOnly
<1>2. \A q \in DOMAIN prods \ {p} : CountOf(q)'
  BY <1>1, OtherCounts
<1>3. First(p) \in Nat /\ Last(p) \in Int
  BY RingsAs DEF RingOf, Ring
<1>4. ASSUME NEW j \in First(p)..Last(p)', ~(Asks(p)' /\ j = Last(p)')
      PROVE  emptied'[prods'[p].value[At(j)]] =
               IF j = First(p) THEN Kept(p) % BlockSize ELSE 0
  <2>1. j \in First(p)..Last(p) /\ ~(Asks(p) /\ j = Last(p))
    BY <1>3, <1>4
  <2> QED  BY <2>1 DEF Counts, CountOf
<1>5. CountOf(p)'
  BY <1>4 DEF CountOf
<1> QED  BY <1>2, <1>5 DEF Counts

LEMMA FindCounts ==
  ASSUME Typed, Phases, Claims, Rings, Owned, Counts, NEW t \in {"urb", "ctl"},
         FindProducer(t)
  PROVE  Counts'
<1>0. PICK p : p = Id(t)
  OBVIOUS
<1>1. /\ OthersSame(p) /\ ~Opened(p) /\ ~Asks(p)'
      /\ (\A q : Emptying(q)' <=> Emptying(q))
      /\ (Opened(p)' <=> pc'[t] = "write")
      /\ (pc'[t] = "write" => prods'[p].tail % BlockSize # 0)
      /\ emptied' = emptied
  BY <1>0, FindMoves DEF FindProducer
<1>2. /\ DOMAIN prods' = DOMAIN prods \cup {p}
      /\ p \notin DOMAIN prods => prods'[p] = NewProducer
      /\ p \in DOMAIN prods => prods'[p] = prods[p]
  BY <1>0, Finding
<1>3. CASE p \in DOMAIN prods
  <2>1. ~Asks(p)
    BY <1>1 DEF Asks, Opened
  <2>2. Kept(p)' = Kept(p)
    BY <1>1, <1>2, <1>3 DEF Kept
  <2>3. First(p)' = First(p)
    BY <2>2 DEF First
  <2>4. Last(p)' = Last(p)
    <3>1. CASE Opened(p)'
      <4>1. prods[p].tail \in Int /\ prods[p].tail % BlockSize # 0
        BY <1>1, <1>2, <1>3, <3>1, Fields
      <4>2. (prods[p].tail - 1) \div BlockSize = prods[p].tail \div BlockSize
        BY <4>1, BlockStart
      <4> QED  BY <1>1, <1>2, <1>3, <3>1, <4>2 DEF Last
    <3>2. CASE ~Opened(p)'
      BY <1>1, <1>2, <1>3, <3>2 DEF Last
    <3> QED  BY <3>1, <3>2
  <2>5. DOMAIN prods' = DOMAIN prods /\ prods'[p].value = prods[p].value
    BY <1>2, <1>3
  <2> QED  BY <1>1, <1>3, <2>1, <2>2, <2>3, <2>4, <2>5, CountsLeft
<1>4. CASE p \notin DOMAIN prods
  <2>1. RingOf(p)' /\ p \in DOMAIN prods'
    BY <1>2, FindRing, RingsAs
  <2>2. ASSUME NEW j \in First(p)'..Last(p)'
        PROVE  FALSE
    <3>1. /\ \A i \in First(p)'..Last(p)' :
               prods'[p].value[At(i)] = NoBlock <=> (Asks(p)' /\ i = Last(p)')
          /\ First(p)' \in Nat /\ Last(p)' \in Int
      BY <2>1 DEF RingOf, Ring
    <3>2. prods'[p].value[At(j)] # NoBlock
      BY <1>1, <2>2, <3>1
    <3>3. At(j) \in Slots
      BY <2>2, <3>1, AtType
    <3> QED  BY <1>2, <1>4, <3>2, <3>3 DEF NewProducer
  <2>3. CountOf(p)'
    BY <2>2 DEF CountOf
  <2>4. CountsOnly(NoBlock)
    BY <1>1 DEF CountsOnly
  <2>5. \A q \in DOMAIN prods \ {p} : CountOf(q)'
    BY <1>1, <2>4, OtherCounts
  <2> QED  BY <1>1, <1>2, <2>3, <2>5 DEF Counts
<1> QED  BY <1>3, <1>4

LEMMA InsertCounts ==
  ASSUME Typed, Phases, Claims, Boundaries, Rings, Owned, Counts,
         NEW t \in {"urb", "ctl"}, InsertEntry(t)
  PROVE  Counts'
<1>0. PICK p : p = Id(t)
  OBVIOUS
<1>1. p \in DOMAIN prods /\ emptied' = emptied
  BY <1>0 DEF InsertEntry, Claims
<1>2. RingOf(p) /\ TailBlock(p) /\ InSlot(p)
  BY <1>1, RingsAs
<1>3. /\ OthersSame(p) /\ ~Asks(p) /\ Asks(p)'
      /\ Kept(p)' = Kept(p) /\ First(p)' = First(p)
      /\ Last(p)' = Last(p) + 1
  BY <1>0, <1>2, InsertMoves
<1>4. DOMAIN prods' = DOMAIN prods /\ prods'[p].value = prods[p].value
  BY <1>0, <1>1, Inserting DEF OnlyIn
<1>5. Last(p)' \in Int
  BY <1>2, <1>3 DEF RingOf, Ring
<1> QED  BY <1>1, <1>3, <1>4, <1>5, CountsAtEnd

LEMMA RefuseCounts ==
  ASSUME Typed, Phases, Claims, Boundaries, Rings, Owned, Counts, Refuses,
         pc["urb"] = "block"
  PROVE  Counts'
<1>0. PICK p : p = urbId /\ p = Id("urb")
  BY DEF Id
<1>1. p \in DOMAIN prods /\ emptied' = emptied
  BY <1>0 DEF Claims, Refuses
<1>2. RingOf(p) /\ TailBlock(p) /\ InSlot(p)
  BY <1>1, RingsAs
<1>3. /\ OnlyIn(p) /\ SameEnds(p)
      /\ DOMAIN prods' = DOMAIN prods /\ prods'[p].value = prods[p].value
  BY <1>0, Refusing DEF OnlyIn
<1>4. /\ OthersSame(p) /\ ~Asks(p)'
      /\ Kept(p)' = Kept(p) /\ First(p)' = First(p)
      /\ Last(p)' = Last(p) - 1
  BY <1>0, <1>2, <1>3, RefuseMoves
<1>5. Asks(p)
  BY <1>0, <1>2, Asking
<1>6. Last(p)' \in Int
  BY <1>2, <1>4 DEF RingOf, Ring
<1> QED  BY <1>1, <1>3, <1>4, <1>5, <1>6, CountsAtEnd

LEMMA WriteCounts ==
  ASSUME Typed, Phases, Claims, Rings, Owned, Counts, NEW t \in {"urb", "ctl"},
         Write(t)
  PROVE  Counts'
<1>0. PICK p : p = Id(t)
  OBVIOUS
<1>1. /\ OthersSame(p) /\ ~Asks(p) /\ ~Asks(p)'
      /\ Kept(p)' = Kept(p) /\ First(p)' = First(p)
      /\ Last(p)' = Last(p) /\ p \in DOMAIN prods
      /\ emptied' = emptied
  BY <1>0, WriteMoves DEF Write
<1>2. DOMAIN prods' = DOMAIN prods /\ prods'[p].value = prods[p].value
  BY <1>0, <1>1, Writing DEF OnlyIn, SameIndex
<1> QED  BY <1>1, <1>2, CountsLeft

LEMMA TakeCounts ==
  ASSUME Typed, Phases, Claims, Boundaries, Rings, Owned, Counts,
         NEW t \in {"proc", "ctl"}, Takes(t)
  PROVE  Counts'
<1>0. PICK p : p = from
  OBVIOUS
<1>1. /\ OthersSame(p) /\ p \in DOMAIN prods
      /\ (Asks(p)' <=> Asks(p))
      /\ Kept(p)' = Kept(p) /\ First(p)' = First(p) /\ Last(p)' = Last(p)
      /\ emptied' = emptied
  BY <1>0, TakeMoves DEF Takes
<1>2. DOMAIN prods' = DOMAIN prods /\ prods'[p].value = prods[p].value
  BY <1>0, <1>1, Taking DEF OnlyIn, SameIndex
<1> QED  BY <1>1, <1>2, CountsLeft

LEMMA BlockCounts ==
  ASSUME Typed, Phases, Claims, Boundaries, Rings, Owned, Counts,
         NEW t \in {"urb", "ctl"}, NextBlock(t)
  PROVE  Counts'
<1>0. PICK p : p = Id(t)
  OBVIOUS
<1>1. p \in DOMAIN prods /\ pc[t] = "block"
  BY <1>0 DEF NextBlock, Claims
<1>2. RingOf(p) /\ TailBlock(p) /\ InSlot(p)
  BY <1>1, RingsAs
<1>3. /\ OthersSame(p) /\ ~(Asks(p)')
      /\ Kept(p)' = Kept(p) /\ First(p)' = First(p) /\ Last(p)' = Last(p)
  BY <1>0, BlockMoves
<1>4. /\ Asks(p) /\ First(p) <= Last(p)
      /\ prods[p].tail % BlockSize = 0
      /\ (First(p) = Last(p) => Kept(p) = prods[p].tail)
  BY <1>0, <1>1, <1>2, Asking DEF Boundaries
<1>5. PICK b \in FreshBlocks(t) :
        /\ DOMAIN prods' = DOMAIN prods
        /\ prods'[p].value = [prods[p].value EXCEPT ![prods[p].last] = b]
        /\ emptied' = [emptied EXCEPT ![b] = 0]
  BY <1>0, <1>1, GettingBlock DEF OnlyIn
<1>6. b \in Blocks /\ BlockSize \in Nat
      /\ (\A q \in DOMAIN prods, s \in Slots : prods[q].value[s] # b)
  BY FreshOnes, FreshUnused, QueueAssumption DEF Blocks
<1>7. emptied \in [Blocks -> 0..BlockSize]
  BY DEF Counts
<1>8. /\ emptied' \in [Blocks -> 0..BlockSize]
      /\ CountsOnly(b) /\ emptied'[b] = 0
  BY <1>5, <1>6, <1>7 DEF CountsOnly
<1>9. \A q \in DOMAIN prods \ {p} : CountOf(q)'
  BY <1>3, <1>6, <1>8, OtherCounts
<1>10. /\ prods[p].last = At(Last(p)) /\ First(p) \in Nat /\ Last(p) \in Int
       /\ Last(p) - First(p) < IndexSize
       /\ prods[p].value \in [Slots -> Nat]
  BY <1>1, <1>2, Fields DEF RingOf, Ring
<1>11. Distinct(First(p), Last(p))
  BY <1>10, AtApart
<1>12. ASSUME NEW j \in First(p)..Last(p)
       PROVE  emptied'[prods'[p].value[At(j)]] =
                IF j = First(p) THEN Kept(p) % BlockSize ELSE 0
  <2>1. At(j) \in Slots /\ Last(p) \in First(p)..Last(p)
    BY <1>4, <1>10, AtType
  <2>2. CASE j = Last(p)
    <3>1. prods'[p].value[At(j)] = b
      BY <1>5, <1>10, <2>1, <2>2
    <3>2. j = First(p) => Kept(p) % BlockSize = 0
      BY <1>4, <2>2
    <3> QED  BY <1>8, <3>1, <3>2
  <2>3. CASE j # Last(p)
    <3>1. At(j) # At(Last(p))
      BY <1>11, <2>1, <2>3 DEF Distinct
    <3>2. prods'[p].value[At(j)] = prods[p].value[At(j)]
      BY <1>5, <1>10, <2>1, <3>1
    <3>3. prods[p].value[At(j)] \in Blocks /\ prods[p].value[At(j)] # b
      BY <1>1, <1>6, <2>1, <2>3, InUse
    <3>4. emptied'[prods[p].value[At(j)]] = emptied[prods[p].value[At(j)]]
      BY <1>8, <3>3 DEF CountsOnly
    <3>5. emptied[prods[p].value[At(j)]] =
            IF j = First(p) THEN Kept(p) % BlockSize ELSE 0
      BY <1>1, <2>3 DEF Counts, CountOf
    <3> QED  BY <3>2, <3>4, <3>5
  <2> QED  BY <2>2, <2>3
<1>13. CountOf(p)'
  BY <1>3, <1>12 DEF CountOf
<1> QED  BY <1>5, <1>8, <1>9, <1>13 DEF Counts

LEMMA EmptyCounts ==
  ASSUME Typed, Phases, Claims, Boundaries, Rings, Owned, Counts,
         NEW t \in {"proc", "ctl"}, Empties(t)
  PROVE  Counts'
<1>0. PICK p : p = from
  OBVIOUS
<1>1. PICK b : b = prods[p].value[slot]
  OBVIOUS
<1>2. /\ b # NoBlock /\ b \in Blocks /\ p \in DOMAIN prods /\ slot \in Slots
      /\ slot = At(First(p))
  BY <1>0, <1>1, Counted
<1>3. /\ OthersSame(p) /\ (Asks(p)' <=> Asks(p))
      /\ Kept(p)' = Kept(p) + 1
      /\ Last(p)' = Last(p) /\ First(p) <= Last(p)
      /\ (Asks(p) => First(p) # Last(p))
  BY <1>0, EmptyMoves
<1>4. /\ emptied[b] = Kept(p) % BlockSize
      /\ (OneLeft(b) => /\ First(p)' = First(p) + 1
                        /\ (Kept(p) + 1) % BlockSize = 0)
      /\ (~OneLeft(b) => /\ First(p)' = First(p)
                         /\ (Kept(p) + 1) % BlockSize
                              = (Kept(p) % BlockSize) + 1)
      /\ Kept(p) % BlockSize \in 0..(BlockSize - 1)
  BY <1>0, <1>1, LastOne
<1>5. /\ DOMAIN prods' = DOMAIN prods
      /\ prods'[p].value = IF OneLeft(b)
                           THEN [prods[p].value EXCEPT ![slot] = NoBlock]
                           ELSE prods[p].value
      /\ emptied' = [emptied EXCEPT ![b] = emptied[b] + 1]
      /\ prods[p].value \in [Slots -> Nat]
  BY <1>0, <1>1, <1>2, EmptyingOne, Fields DEF OnlyIn, Empties
<1>6. /\ emptied \in [Blocks -> 0..BlockSize]
      /\ BlockSize \in Nat
  BY QueueAssumption DEF Counts
<1>7. emptied[b] + 1 \in 0..BlockSize
  BY <1>4, <1>6
<1>8. /\ emptied' \in [Blocks -> 0..BlockSize]
      /\ CountsOnly(b) /\ emptied'[b] = (Kept(p) % BlockSize) + 1
  BY <1>2, <1>4, <1>5, <1>6, <1>7 DEF CountsOnly
<1>9. \A q \in DOMAIN prods, s \in Slots :
        prods[q].value[s] = b => q = p /\ s = slot
  BY <1>1, <1>2 DEF Owned
<1>10. \A q \in DOMAIN prods \ {p} : CountOf(q)'
  <2>1. \A q \in DOMAIN prods \ {p}, s \in Slots :
          prods[q].value[s] # NoBlock => prods[q].value[s] # b
    BY <1>9
  <2> QED  BY <1>3, <1>8, <2>1, OtherCounts
<1>11. /\ First(p) \in Nat /\ Last(p) \in Int
       /\ Last(p) - First(p) < IndexSize
  BY <1>2, RingsAs DEF RingOf, Ring
<1>12. Distinct(First(p), Last(p))
  BY <1>11, AtApart
\* The blocks behind the first are left alone.
<1>13. ASSUME NEW j \in First(p)..Last(p), ~(Asks(p) /\ j = Last(p)),
              j # First(p)
       PROVE  emptied'[prods'[p].value[At(j)]] = 0
  <2>1. /\ At(j) \in Slots /\ prods[p].value[At(j)] \in Blocks
        /\ First(p) \in First(p)..Last(p)
    BY <1>2, <1>3, <1>11, <1>13, InUse
  <2>2. At(j) # slot
    BY <1>2, <1>12, <1>13, <2>1 DEF Distinct
  <2>3. prods'[p].value[At(j)] = prods[p].value[At(j)]
    BY <1>5, <2>1, <2>2
  <2>4. prods[p].value[At(j)] # b
    BY <1>2, <1>9, <2>1, <2>2
  <2>5. emptied'[prods[p].value[At(j)]] = emptied[prods[p].value[At(j)]]
    BY <1>8, <2>1, <2>4 DEF CountsOnly
  <2>6. emptied[prods[p].value[At(j)]] = 0
    BY <1>2, <1>13 DEF Counts, CountOf
  <2> QED  BY <2>3, <2>5, <2>6
<1>14. ASSUME NEW j \in First(p)'..Last(p), ~(Asks(p) /\ j = Last(p))
       PROVE  emptied'[prods'[p].value[At(j)]] =
                IF j = First(p)' THEN (Kept(p) + 1) % BlockSize ELSE 0
  <2>1. CASE OneLeft(b)
    <3>1. j \in First(p)..Last(p) /\ j # First(p)
      BY <1>4, <1>11, <1>14, <2>1
    <3> QED  BY <1>4, <1>13, <1>14, <2>1, <3>1
  <2>2. CASE ~OneLeft(b)
    <3>1. j \in First(p)..Last(p)
      BY <1>4, <1>14, <2>2
    <3>2. CASE j = First(p)
      <4>1. prods'[p].value[At(j)] = b
        BY <1>1, <1>2, <1>5, <2>2, <3>2
      <4> QED  BY <1>4, <1>8, <2>2, <3>2, <4>1
    <3>3. CASE j # First(p)
      BY <1>4, <1>13, <1>14, <2>2, <3>1, <3>3
    <3> QED  BY <3>2, <3>3
  <2> QED  BY <2>1, <2>2
<1>15. CountOf(p)'
  BY <1>3, <1>14 DEF CountOf
<1> QED  BY <1>5, <1>8, <1>10, <1>15 DEF Counts

LEMMA CountsStep ==
  ASSUME Typed, Phases, Claims, Boundaries, Rings, Owned, Counts, [Next]_vars
  PROVE  Counts'
<1>1. CASE Quiet
  <2>1. prods' = prods /\ \A q : Same(q)
    BY <1>1, QuietMoves
  <2>2. emptied' = emptied
    BY <1>1 DEF Quiet, Signals, Scans, FreesBlock, Refuses, Waits,
       ProcessThread, EnqueuesFrame, Drains, Drained, StartStreaming,
       StopStreaming, JoinProcessThread, vars, memoryVars
  <2>3. CountsOnly(NoBlock)
    BY <2>2 DEF CountsOnly
  <2>4. ASSUME NEW q \in DOMAIN prods
        PROVE  CountOf(q)'
    <3>1. Same(q) /\ CountOf(q)
      BY <2>1 DEF Counts
    <3>2. SameCounts(q, NoBlock)
      BY <3>1, SameNumbers DEF Same, SameCounts
    <3> QED  BY <2>3, <3>1, <3>2, CountsSame
  <2> QED  BY <2>1, <2>2, <2>4 DEF Counts
<1>2. CASE DeleteQueue
  BY <1>2 DEF DeleteQueue, Counts
<1> QED
  BY <1>1, <1>2, FindCounts, InsertCounts, BlockCounts, RefuseCounts,
     WriteCounts, TakeCounts, EmptyCounts, StepCases

-----------------------------------------------------------------------------
(***************************************************************************)
(* What is in the cells of the elements that are in the queue.             *)
(***************************************************************************)

Live(p) == prods[p].head .. (prods[p].tail - 1)

Cell(p, i) == cell[prods[p].value[At(i \div BlockSize)]][i % BlockSize]

CellTyped == cell \in [Blocks -> [0..(BlockSize - 1) -> Nat]]

\* The frames of the URB thread are in its sub-queue in the order of their
\* numbers up to the last; what the control thread enqueued is null.
Expected(p, i) == IF p = urbId THEN sent - prods[p].tail + 1 + i ELSE Null

Contents ==
  \A p \in DOMAIN prods :
    \A i \in Live(p) :
      p \in {urbId, CtlId} /\ Cell(p, i) = Expected(p, i)

Waiting == IF urbId \in DOMAIN prods THEN Size(urbId) ELSE 0

\* What is enqueued and not in the queue was taken, the last one last.
Totals ==
  /\ taken \in Nat /\ sent \in Nat
  /\ recv = taken /\ taken + Waiting = sent

\* The block of an element.
LEMMA LiveBlock ==
  ASSUME Typed, Claims, Boundaries, Rings, NEW p \in DOMAIN prods,
         NEW i \in Live(p), NEW j, j = i \div BlockSize
  PROVE  /\ j \in First(p)..Last(p) /\ ~(Asks(p) /\ j = Last(p))
         /\ i \in Nat /\ i % BlockSize \in 0..(BlockSize - 1)
         /\ i = (j * BlockSize) + (i % BlockSize)
         /\ j \in Int /\ At(j) \in Slots
         /\ First(p) \in Int /\ Last(p) \in Int
         /\ Distinct(First(p), Last(p))
<1>1. RingOf(p) /\ TailBlock(p) /\ InSlot(p)
  BY RingsAs
<1>2. /\ prods[p].tail \in Nat /\ prods[p].head \in Nat
      /\ Kept(p) \in Nat /\ Kept(p) <= prods[p].head
      /\ First(p) \in Nat /\ Last(p) \in Int
      /\ BlockSize \in Nat \ {0}
  BY <1>1, Numbers, QueueAssumption
<1>3. i \in Nat /\ i \in Int /\ Kept(p) <= i /\ i <= prods[p].tail - 1
      /\ i <= prods[p].tail
  BY <1>2 DEF Live
<1>4. /\ i = (j * BlockSize) + (i % BlockSize) /\ j \in Int
      /\ i % BlockSize \in 0..(BlockSize - 1)
  BY <1>3, BlockParts
<1>5. First(p) <= j
  <2>1. Kept(p) \in Int
    BY <1>2
  <2>2. Kept(p) \div BlockSize <= i \div BlockSize
    BY <1>2, <1>3, <2>1, DivMonotone, Zenon
  <2> QED  BY <2>2 DEF First
<1>6. j <= (prods[p].tail - 1) \div BlockSize
      /\ j <= prods[p].tail \div BlockSize
  <2>1. prods[p].tail - 1 \in Int /\ prods[p].tail \in Int
    BY <1>2
  <2>2. i \div BlockSize <= (prods[p].tail - 1) \div BlockSize
    BY <1>2, <1>3, <2>1, DivMonotone, Zenon
  <2>3. i \div BlockSize <= prods[p].tail \div BlockSize
    BY <1>2, <1>3, <2>1, DivMonotone, Zenon
  <2> QED  BY <2>2, <2>3
<1>7. j <= Last(p)
  BY <1>6 DEF Last
<1>8. ASSUME Asks(p)
      PROVE  j # Last(p)
  <2>1. PICK t \in {"urb", "ctl"} : pc[t] = "block" /\ p = Id(t)
    BY <1>8 DEF Asks
  <2>2. (prods[p].tail - 1) \div BlockSize = Last(p) - 1
    BY <1>1, <2>1, Asking
  <2> QED  BY <1>2, <1>4, <1>6, <2>2
<1>9. Last(p) - First(p) < IndexSize
  BY <1>1 DEF RingOf, Ring
<1>10. First(p) \in Int
  BY <1>2
<1>11. Distinct(First(p), Last(p))
  BY <1>2, <1>9, <1>10, AtApart
<1> QED  BY <1>2, <1>3, <1>4, <1>5, <1>7, <1>8, <1>10, <1>11, AtType

\* Every element that is in the queue after the step was in it before, and
\* its cell is as it was.
Stays ==
  \A p \in DOMAIN prods' :
    \A i \in prods'[p].head .. (prods'[p].tail - 1) :
      /\ p \in DOMAIN prods /\ i \in Live(p)
      /\ prods'[p].tail = prods[p].tail
      /\ cell'[prods'[p].value[At(i \div BlockSize)]] =
           cell[prods[p].value[At(i \div BlockSize)]]

LEMMA ContentsStay ==
  ASSUME Contents, Stays, urbId' = urbId, sent' = sent
  PROVE  Contents'
BY DEF Contents, Stays, Live, Cell, Expected

\* None is in an entry that is changed.
EntriesStay(p) ==
  \A i \in prods'[p].head .. (prods[p].tail - 1) :
    prods'[p].value[At(i \div BlockSize)] = prods[p].value[At(i \div BlockSize)]

LEMMA StaysIn ==
  ASSUME Typed, NEW p, OnlyIn(p), cell' = cell,
         prods'[p].tail = prods[p].tail, prods'[p].head \in Nat,
         prods[p].head <= prods'[p].head,
         EntriesStay(p)
  PROVE  Stays
<1>1. ASSUME NEW i \in prods'[p].head .. (prods'[p].tail - 1)
      PROVE  i \in Live(p)
  <2>1. p \in DOMAIN prods
    BY DEF OnlyIn
  <2>2. prods[p].head \in Nat /\ prods[p].tail \in Nat
    BY <2>1, Fields
  <2> QED  BY <2>2 DEF Live
<1>2. /\ p \in DOMAIN prods /\ DOMAIN prods' = DOMAIN prods
      /\ \A q \in DOMAIN prods \ {p} : prods'[q] = prods[q]
  BY DEF OnlyIn
<1> QED  BY <1>1, <1>2 DEF Stays, Live, EntriesStay

LEMMA FindStays ==
  ASSUME Typed, NEW t \in {"urb", "ctl"}, FindProducer(t)
  PROVE  Stays
<1>1. /\ DOMAIN prods' = DOMAIN prods \cup {Id(t)}
      /\ \A q \in DOMAIN prods : prods'[q] = prods[q]
      /\ Id(t) \notin DOMAIN prods => prods'[Id(t)] = NewProducer
      /\ cell' = cell
  BY Finding DEF FindProducer
<1>2. NewProducer.head = 0 /\ NewProducer.tail = 0
  BY DEF NewProducer
<1> SUFFICES ASSUME NEW p \in DOMAIN prods',
                    NEW i \in prods'[p].head .. (prods'[p].tail - 1)
             PROVE  /\ p \in DOMAIN prods /\ i \in Live(p)
                    /\ prods'[p] = prods[p] /\ cell' = cell
  BY DEF Stays
<1>3. CASE p \in DOMAIN prods
  BY <1>1, <1>3 DEF Live
<1>4. CASE p \notin DOMAIN prods
  <2>1. prods'[p].head = 0 /\ prods'[p].tail = 0
    BY <1>1, <1>2, <1>4
  <2> QED  BY <2>1
<1> QED  BY <1>3, <1>4

LEMMA EnqueueStays ==
  ASSUME Typed, Phases, Claims, Boundaries, Rings, Owned,
         NEW t \in {"urb", "ctl"}, InsertEntry(t) \/ NextBlock(t)
  PROVE  Stays
<1>0. PICK p : p = Id(t)
  OBVIOUS
<1>1. p \in DOMAIN prods /\ cell' = cell
  BY <1>0 DEF InsertEntry, NextBlock, Claims
<1>2. prods[p].head \in Nat
  BY <1>1, Fields
<1>3. CASE InsertEntry(t)
  BY <1>0, <1>1, <1>2, <1>3, Inserting, StaysIn DEF SameEnds, EntriesStay
<1>4. CASE NextBlock(t)
  <2>1. RingOf(p) /\ TailBlock(p) /\ InSlot(p)
    BY <1>1, RingsAs
  <2>2. Asks(p) /\ prods[p].last = At(Last(p)) /\ First(p) <= Last(p)
        /\ First(p) \in Int /\ Last(p) \in Int
    BY <1>0, <1>4, <2>1, Asking DEF NextBlock, RingOf, Ring
  <2>3. PICK b \in FreshBlocks(t) :
          /\ OnlyIn(p) /\ SameEnds(p)
          /\ prods'[p].value = [prods[p].value EXCEPT ![prods[p].last] = b]
    BY <1>0, <1>1, <1>4, GettingBlock
  <2>4. prods[p].value \in [Slots -> Nat]
    BY <1>1, Fields
  <2>5. ASSUME NEW i \in prods'[p].head .. (prods[p].tail - 1),
               NEW j, j = i \div BlockSize
        PROVE  prods'[p].value[At(j)] = prods[p].value[At(j)]
    <3>1. i \in Live(p)
      BY <2>3 DEF Live, SameEnds
    <3>2. /\ j \in First(p)..Last(p) /\ j # Last(p) /\ At(j) \in Slots
          /\ Distinct(First(p), Last(p))
      BY <1>1, <2>2, <2>5, <3>1, LiveBlock
    <3>3. Last(p) \in First(p)..Last(p)
      BY <2>2
    <3>4. At(j) # At(Last(p))
      BY <3>2, <3>3 DEF Distinct
    <3> QED  BY <2>2, <2>3, <2>4, <3>2, <3>4
  <2>6. EntriesStay(p)
    BY <2>5 DEF EntriesStay
  <2> QED  BY <1>1, <1>2, <2>3, <2>6, StaysIn DEF SameEnds
<1> QED  BY <1>3, <1>4

LEMMA RefuseStays ==
  ASSUME Typed, Claims, Refuses
  PROVE  Stays
<1>1. cell' = cell
  BY DEF Refuses
<1>2. CASE prods' = prods
  BY <1>1, <1>2 DEF Stays, Live
<1>3. CASE /\ OnlyIn(urbId) /\ SameEnds(urbId)
           /\ prods'[urbId].value = prods[urbId].value
  <2>1. prods[urbId].head \in Nat
    BY <1>3, Fields DEF OnlyIn
  <2> QED  BY <1>1, <1>3, <2>1, StaysIn DEF SameEnds, EntriesStay
<1> QED  BY <1>2, <1>3, Refusing

LEMMA TakeStays ==
  ASSUME Typed, Claims, NEW t \in {"proc", "ctl"}, Takes(t)
  PROVE  Stays
<1>0. PICK p : p = from
  OBVIOUS
<1>1. p \in DOMAIN prods /\ cell' = cell
  BY <1>0 DEF Takes, Claims
<1>2. prods[p].head \in Nat
  BY <1>1, Fields
<1>3. /\ OnlyIn(p) /\ prods'[p].value = prods[p].value
      /\ prods'[p].tail = prods[p].tail /\ prods'[p].head = prods[p].head + 1
  BY <1>0, <1>1, Taking DEF SameIndex
<1>4. prods'[p].head \in Nat /\ prods[p].head <= prods'[p].head
  BY <1>2, <1>3
<1> QED  BY <1>1, <1>3, <1>4, StaysIn DEF EntriesStay

LEMMA EmptyStays ==
  ASSUME Typed, Phases, Claims, Boundaries, Rings, Owned, Counts,
         NEW t \in {"proc", "ctl"}, Empties(t)
  PROVE  Stays
<1>0. PICK p : p = from
  OBVIOUS
<1> DEFINE one == OneLeft(prods[p].value[slot])
<1>1. /\ p \in DOMAIN prods /\ slot = At(First(p)) /\ slot \in Slots
      /\ Kept(p)' = prods[p].head /\ First(p) <= Last(p)
  BY <1>0, EmptyMoves
<1>2. /\ OnlyIn(p) /\ SameEnds(p)
      /\ prods'[p].value = IF one THEN [prods[p].value EXCEPT ![slot] = NoBlock]
                           ELSE prods[p].value
      /\ cell' = cell
  BY <1>0, <1>1, EmptyingOne DEF Empties
<1>3. one => First(p)' = First(p) + 1
  BY <1>0, LastOne
<1>4. First(p)' = prods[p].head \div BlockSize
  BY <1>1 DEF First
<1>5. prods[p].head \in Nat /\ prods[p].value \in [Slots -> Nat]
      /\ BlockSize \in Nat \ {0} /\ prods[p].head \in Int
  BY <1>1, Fields, QueueAssumption
<1> HIDE DEF one
<1>6. ASSUME NEW i \in prods'[p].head .. (prods[p].tail - 1),
             NEW j, j = i \div BlockSize
      PROVE  prods'[p].value[At(j)] = prods[p].value[At(j)]
  <2>1. i \in Live(p)
    BY <1>2, <1>6 DEF Live, SameEnds
  <2>2. /\ j \in First(p)..Last(p) /\ At(j) \in Slots
        /\ Distinct(First(p), Last(p)) /\ i \in Nat
        /\ First(p) \in Int /\ Last(p) \in Int
    BY <1>1, <1>6, <2>1, LiveBlock
  <2>3. CASE one
    <3>1. i \in Int /\ prods[p].head <= i
      BY <1>5, <2>1, <2>2 DEF Live
    <3>2. prods[p].head \div BlockSize <= i \div BlockSize
      BY <1>5, <3>1, DivMonotone, Zenon
    <3>3. First(p) + 1 <= j
      BY <1>3, <1>4, <1>6, <2>3, <3>2
    <3>4. First(p) \in First(p)..Last(p) /\ j # First(p)
      BY <1>1, <2>2, <3>3
    <3>5. At(j) # slot
      BY <1>1, <2>2, <3>4 DEF Distinct
    <3> QED  BY <1>2, <1>5, <2>2, <2>3, <3>5
  <2>4. CASE ~one
    BY <1>2, <2>4
  <2> QED  BY <2>3, <2>4
<1>7. EntriesStay(p)
  BY <1>6 DEF EntriesStay
<1> QED  BY <1>2, <1>5, <1>7, StaysIn DEF SameEnds

\* An element is written where none is that is in the queue.
LEMMA WriteCell ==
  ASSUME Typed, Phases, Claims, Boundaries, Rings, Owned, CellTyped, Totals,
         NEW t \in {"urb", "ctl"}, Write(t), NEW p, p = Id(t),
         NEW last, last = prods[p].tail
  PROVE  /\ CellTyped'
         /\ Cell(p, last)' = Item(t)
         /\ \A q \in DOMAIN prods : \A i \in Live(q) : Cell(q, i)' = Cell(q, i)
<1>1. /\ p \in DOMAIN prods /\ Opened(p) /\ ~Asks(p)
      /\ Last(p) = prods[p].tail \div BlockSize
  BY WriteMoves
<1>2. RingOf(p) /\ TailBlock(p) /\ InSlot(p)
  BY <1>1, RingsAs
<1>3. PICK b : b = prods[p].block
  OBVIOUS
<1>4. PICK o : o = prods[p].tail % BlockSize
  OBVIOUS
<1>5. /\ prods[p].tail \in Nat /\ prods[p].tail \in Int /\ Kept(p) \in Int
      /\ Kept(p) <= prods[p].tail /\ First(p) \in Nat /\ Last(p) \in Int
      /\ BlockSize \in Nat \ {0}
  BY <1>1, <1>2, Numbers, QueueAssumption
<1>6. o \in 0..(BlockSize - 1) /\ prods[p].tail = (Last(p) * BlockSize) + o
  BY <1>1, <1>4, <1>5, BlockParts
<1>7. Last(p) \in First(p)..Last(p)
  <2>1. Kept(p) \div BlockSize <= prods[p].tail \div BlockSize
    BY <1>5, DivMonotone, Zenon
  <2> QED  BY <1>1, <1>5, <2>1 DEF First
<1>8. /\ b = prods[p].value[At(Last(p))] /\ At(Last(p)) \in Slots
      /\ b \in Blocks /\ b # NoBlock
  BY <1>1, <1>2, <1>3, <1>7, InUse DEF TailBlock
<1>9. cell' = [cell EXCEPT ![b][o] = Item(t)]
  BY <1>3, <1>4 DEF Write
<1>10. Item(t) \in Nat
  BY DEF Item, Null, Totals
<1>11. /\ CellTyped' /\ cell'[b][o] = Item(t)
       /\ \A c \in Blocks, k \in 0..(BlockSize - 1) :
            c # b \/ k # o => cell'[c][k] = cell[c][k]
  <2>1. cell \in [Blocks -> [0..(BlockSize - 1) -> Nat]]
    BY DEF CellTyped
  <2>2. /\ DOMAIN cell' = Blocks
        /\ cell'[b] = [cell[b] EXCEPT ![o] = Item(t)]
        /\ \A c \in Blocks \ {b} : cell'[c] = cell[c]
    BY <1>8, <1>9, <2>1
  <2>3. cell[b] \in [0..(BlockSize - 1) -> Nat]
    BY <1>8, <2>1
  <2>4. /\ cell'[b] \in [0..(BlockSize - 1) -> Nat]
        /\ cell'[b][o] = Item(t)
        /\ \A k \in 0..(BlockSize - 1) : k # o => cell'[b][k] = cell[b][k]
    BY <1>6, <1>10, <2>2, <2>3
  <2>5. cell' \in [Blocks -> [0..(BlockSize - 1) -> Nat]]
    BY <1>9, <2>1, <2>2, <2>4
  <2> QED  BY <2>2, <2>4, <2>5 DEF CellTyped
<1>12. /\ DOMAIN prods' = DOMAIN prods
       /\ \A q \in DOMAIN prods : prods'[q].value = prods[q].value
  BY <1>1, Writing DEF OnlyIn, SameIndex
<1>13. Cell(p, last)' = Item(t)
  <2>1. prods'[p].value[At(last \div BlockSize)] = b /\ last % BlockSize = o
    BY <1>1, <1>4, <1>8, <1>12
  <2> QED  BY <1>11, <2>1 DEF Cell
<1>14. ASSUME NEW q \in DOMAIN prods, NEW i \in Live(q)
       PROVE  Cell(q, i)' = Cell(q, i)
  <2>1. PICK j : j = i \div BlockSize
    OBVIOUS
  <2>2. /\ j \in First(q)..Last(q) /\ ~(Asks(q) /\ j = Last(q))
        /\ i \in Nat /\ i % BlockSize \in 0..(BlockSize - 1)
        /\ i = (j * BlockSize) + (i % BlockSize)
        /\ At(j) \in Slots /\ Distinct(First(q), Last(q))
    BY <2>1, LiveBlock
  <2>3. prods[q].value[At(j)] \in Blocks
    BY <2>2, InUse
  <2>4. prods[q].value[At(j)] # b \/ i % BlockSize # o
    <3> SUFFICES ASSUME prods[q].value[At(j)] = b, i % BlockSize = o
                 PROVE  FALSE
      OBVIOUS
    <3>1. q = p /\ At(j) = At(Last(p))
      BY <1>1, <1>8, <2>2 DEF Owned
    <3>2. j = Last(p)
      BY <1>7, <2>2, <3>1 DEF Distinct
    <3>3. i = prods[p].tail
      BY <1>6, <2>2, <3>2
    <3> QED  BY <1>5, <3>1, <3>3 DEF Live
  <2>5. cell'[prods[q].value[At(j)]][i % BlockSize]
          = cell[prods[q].value[At(j)]][i % BlockSize]
    BY <1>11, <2>2, <2>3, <2>4
  <2> QED  BY <1>12, <2>1, <2>5 DEF Cell
<1> QED  BY <1>11, <1>13, <1>14

LEMMA WriteContents ==
  ASSUME Typed, Phases, Claims, Boundaries, Rings, Owned, CellTyped, Totals,
         Contents, NEW t \in {"urb", "ctl"}, Write(t)
  PROVE  Contents'
<1>0. PICK p : p = Id(t)
  OBVIOUS
<1>1. p \in DOMAIN prods /\ urbId' = urbId
  BY <1>0 DEF Write, Claims, driverVars
<1>2. /\ DOMAIN prods' = DOMAIN prods
      /\ \A q \in DOMAIN prods \ {p} : prods'[q] = prods[q]
      /\ prods'[p].tail = prods[p].tail + 1
      /\ prods'[p].head = prods[p].head
      /\ prods[p].head \in Nat /\ prods[p].tail \in Nat
  BY <1>0, <1>1, Writing, Fields DEF OnlyIn
<1>3. sent \in Nat /\ sent' = IF t = "urb" THEN sent + 1 ELSE sent
  BY DEF Write, Totals
<1>4. /\ p = urbId <=> t = "urb"
      /\ p \in {urbId, CtlId}
      /\ Item(t) = IF t = "urb" THEN sent + 1 ELSE Null
  BY <1>0, TwoIds DEF Item
<1>5. ASSUME NEW q \in DOMAIN prods, NEW i \in Live(q)
      PROVE  q \in {urbId, CtlId} /\ Cell(q, i)' = Expected(q, i)
  BY <1>0, <1>5, WriteCell DEF Contents
<1>6. ASSUME NEW q \in DOMAIN prods, q # p, NEW i \in Live(q)
      PROVE  Expected(q, i)' = Expected(q, i)
  BY <1>1, <1>2, <1>3, <1>4, <1>6 DEF Expected
<1>7. ASSUME NEW i \in Live(p)
      PROVE  Expected(p, i)' = Expected(p, i)
  <2>1. i \in Int
    BY <1>2 DEF Live
  <2>2. CASE t = "urb"
    <3>1. (sent + 1) - (prods[p].tail + 1) + 1 + i
            = sent - prods[p].tail + 1 + i
      BY <1>2, <1>3, <2>1
    <3> QED  BY <1>1, <1>2, <1>3, <1>4, <2>2, <3>1 DEF Expected
  <2>3. CASE t # "urb"
    BY <1>1, <1>2, <1>3, <1>4, <2>3 DEF Expected
  <2> QED  BY <2>2, <2>3
<1>8. ASSUME NEW i, i = prods[p].tail
      PROVE  Cell(p, i)' = Expected(p, i)'
  <2>1. Cell(p, i)' = Item(t)
    BY <1>0, <1>8, WriteCell
  <2>2. CASE t = "urb"
    <3>1. (sent + 1) - (prods[p].tail + 1) + 1 + i = sent + 1
      BY <1>2, <1>3, <1>8
    <3>2. Expected(p, i)' = (sent + 1) - (prods[p].tail + 1) + 1 + i
      BY <1>1, <1>2, <1>3, <1>4, <2>2 DEF Expected
    <3> QED  BY <1>4, <2>1, <2>2, <3>1, <3>2
  <2>3. CASE t # "urb"
    BY <1>1, <1>4, <2>1, <2>3 DEF Expected
  <2> QED  BY <2>2, <2>3
<1>9. ASSUME NEW q \in DOMAIN prods', NEW i \in Live(q)'
      PROVE  q \in {urbId, CtlId} /\ Cell(q, i)' = Expected(q, i)'
  <2>1. CASE q # p
    <3>1. q \in DOMAIN prods /\ i \in Live(q)
      BY <1>2, <1>9, <2>1 DEF Live
    <3> QED  BY <1>5, <1>6, <2>1, <3>1
  <2>2. CASE q = p
    <3>1. i \in Live(p) \/ i = prods[p].tail
      BY <1>2, <1>9, <2>2 DEF Live
    <3> QED  BY <1>1, <1>4, <1>5, <1>7, <1>8, <2>2, <3>1
  <2> QED  BY <2>1, <2>2
<1> QED  BY <1>1, <1>9 DEF Contents

LEMMA CellTypedStep ==
  ASSUME Typed, Phases, Claims, Boundaries, Rings, Owned, CellTyped, Totals,
         [Next]_vars
  PROVE  CellTyped'
<1>1. ASSUME NEW t \in {"urb", "ctl"}, Write(t)
      PROVE  CellTyped'
  BY <1>1, WriteCell
<1>2. CASE cell' = cell
  BY <1>2 DEF CellTyped
<1>3. ASSUME \A t \in {"urb", "ctl"} : ~Write(t)
      PROVE  cell' = cell
  BY <1>3 DEF Next, UrbThread, ProcThread, CtlThread, Enqueue, Dequeue,
     FindProducer, InsertEntry, NextBlock, Signals, Refuses, Waits, Scans,
     Takes, Empties, FreesBlock, StartStreaming, EnqueuesFrame, ProcessThread,
     StopStreaming, JoinProcessThread, Drains, Drained, DeleteQueue, vars,
     memoryVars
<1> QED  BY <1>1, <1>2, <1>3

\* What a step that does not enqueue an element leaves alone.
LEMMA QuietContents ==
  ASSUME Typed, Phases, Claims, Quiet, ~StartStreaming
  PROVE  /\ prods' = prods /\ cell' = cell /\ urbId' = urbId
         /\ sent' = sent /\ recv' = recv /\ taken' = taken
<1>1. prods' = prods
  BY QuietMoves
<1>2. /\ cell' = cell /\ urbId' = urbId
      /\ sent' = sent /\ recv' = recv /\ taken' = taken
  BY DEF Quiet, Signals, Scans, FreesBlock, Refuses, Waits, ProcessThread,
     EnqueuesFrame, Drains, Drained, StopStreaming, JoinProcessThread, vars,
     memoryVars, driverVars, historyVars
<1> QED  BY <1>1, <1>2

LEMMA ContentsStep ==
  ASSUME Typed, Phases, Claims, Boundaries, DrainedAtEnd, Rings, Owned, Counts,
         CellTyped, Totals, Contents, [Next]_vars
  PROVE  Contents'
<1>1. CASE Quiet /\ ~StartStreaming
  BY <1>1, QuietContents DEF Contents, Live, Cell, Expected
<1>2. CASE StartStreaming
  <2>1. prods' = prods /\ ctl = "off"
    BY <1>2 DEF StartStreaming, memoryVars
  <2>2. ASSUME NEW p \in DOMAIN prods, NEW i \in Live(p)
        PROVE  FALSE
    <3>1. prods[p].head = prods[p].tail /\ prods[p].tail \in Nat
      BY <2>1, AtRest, Fields
    <3> QED  BY <2>2, <3>1 DEF Live
  <2> QED  BY <2>1, <2>2 DEF Contents, Live
<1>3. CASE DeleteQueue
  <2>1. DOMAIN prods' = {}
    BY <1>3 DEF DeleteQueue
  <2> QED  BY <2>1 DEF Contents
<1>4. ASSUME NEW t \in {"urb", "ctl"},
             FindProducer(t) \/ InsertEntry(t) \/ NextBlock(t)
      PROVE  Contents'
  <2>1. Stays
    BY <1>4, FindStays, EnqueueStays
  <2>2. urbId' = urbId /\ sent' = sent
    BY <1>4 DEF FindProducer, InsertEntry, NextBlock, driverVars, historyVars
  <2> QED  BY <2>1, <2>2, ContentsStay
<1>5. CASE Refuses
  <2>1. urbId' = urbId /\ sent' = sent
    BY <1>5 DEF Refuses, driverVars
  <2> QED  BY <1>5, <2>1, RefuseStays, ContentsStay
<1>6. ASSUME NEW t \in {"proc", "ctl"}, Takes(t) \/ Empties(t)
      PROVE  Contents'
  <2>1. Stays
    BY <1>6, TakeStays, EmptyStays
  <2>2. urbId' = urbId /\ sent' = sent
    BY <1>6 DEF Takes, Empties, driverVars, historyVars
  <2> QED  BY <2>1, <2>2, ContentsStay
<1> QED
  BY <1>1, <1>2, <1>3, <1>4, <1>5, <1>6, WriteContents, StepCases

LEMMA WaitingKept ==
  ASSUME Typed, Totals, NEW p, OnlyIn(p), SameEnds(p), urbId' = urbId,
         sent' = sent, recv' = recv, taken' = taken
  PROVE  Totals'
<1>1. DOMAIN prods' = DOMAIN prods
      /\ \A q \in DOMAIN prods : /\ prods'[q].head = prods[q].head
                                 /\ prods'[q].tail = prods[q].tail
  BY DEF OnlyIn, SameEnds
<1>2. Waiting' = Waiting
  BY <1>1 DEF Waiting, Size
<1> QED  BY <1>2 DEF Totals

\* The element that is taken is the next frame, or null.
LEMMA TakeTotals ==
  ASSUME Typed, Phases, Claims, Boundaries, Rings, Owned, Totals, Contents,
         NEW t \in {"proc", "ctl"}, Takes(t)
  PROVE  Totals'
<1>0. PICK p : p = from
  OBVIOUS
<1>1. /\ p \in DOMAIN prods /\ Kept(p) = prods[p].head
      /\ prods[p].head < prods[p].tail /\ slot' = At(First(p))
  BY <1>0, TakeMoves
<1>2. /\ OnlyIn(p) /\ prods'[p].tail = prods[p].tail
      /\ prods'[p].head = prods[p].head + 1
      /\ prods[p].head \in Nat /\ prods[p].tail \in Nat
      /\ slot' = SlotOf(prods[p], prods[p].head)
  BY <1>0, <1>1, Taking, Fields
<1>3. PICK item : item = cell[prods[p].value[slot']][prods[p].head % BlockSize]
  OBVIOUS
<1>4. /\ recv' = (IF item = Null THEN recv ELSE item)
      /\ taken' = (IF item = Null THEN taken ELSE taken + 1)
      /\ sent' = sent /\ urbId' = urbId
  BY <1>0, <1>2, <1>3 DEF Takes, driverVars
<1>5. /\ p \in {urbId, CtlId} /\ item = Expected(p, prods[p].head)
  <2>1. prods[p].head \in Live(p)
    BY <1>1, <1>2 DEF Live
  <2>2. item = Cell(p, prods[p].head)
    BY <1>1, <1>3 DEF Cell, First
  <2> QED  BY <1>1, <2>1, <2>2 DEF Contents
<1>6. /\ DOMAIN prods' = DOMAIN prods
      /\ \A q \in DOMAIN prods \ {p} : prods'[q] = prods[q]
  BY <1>2 DEF OnlyIn
<1>7. taken \in Nat /\ sent \in Nat /\ recv = taken /\ taken + Waiting = sent
  BY DEF Totals
<1>8. CASE p = urbId
  <2>1. /\ Waiting = prods[p].tail - prods[p].head
        /\ Waiting' = prods[p].tail - (prods[p].head + 1)
    BY <1>1, <1>2, <1>4, <1>6, <1>8 DEF Waiting, Size
  <2>2. item = sent - prods[p].tail + 1 + prods[p].head
    BY <1>5, <1>8 DEF Expected
  <2>3. item = taken + 1
    BY <1>2, <1>7, <2>1, <2>2
  <2>4. recv' = taken + 1 /\ taken' = taken + 1
    BY <1>4, <1>7, <2>3 DEF Null
  <2>5. (taken + 1) + Waiting' = sent /\ taken + 1 \in Nat
    BY <1>2, <1>7, <2>1
  <2>6. taken' \in Nat /\ recv' = taken' /\ taken' + Waiting' = sent
        /\ sent' \in Nat
    BY <1>4, <1>7, <2>4, <2>5
  <2> QED  BY <1>4, <2>6 DEF Totals
<1>9. CASE p # urbId
  <2>1. item = Null
    BY <1>5, <1>9 DEF Expected
  <2>2. Waiting' = Waiting
    BY <1>4, <1>6, <1>9 DEF Waiting, Size
  <2> QED  BY <1>4, <1>7, <2>1, <2>2 DEF Totals
<1> QED  BY <1>8, <1>9

LEMMA WriteTotals ==
  ASSUME Typed, Claims, Totals, NEW t \in {"urb", "ctl"}, Write(t)
  PROVE  Totals'
<1>0. PICK p : p = Id(t)
  OBVIOUS
<1>1. p \in DOMAIN prods /\ urbId' = urbId /\ recv' = recv /\ taken' = taken
      /\ sent' = IF t = "urb" THEN sent + 1 ELSE sent
  BY <1>0 DEF Write, Claims, driverVars
<1>2. /\ DOMAIN prods' = DOMAIN prods
      /\ \A q \in DOMAIN prods \ {p} : prods'[q] = prods[q]
      /\ prods'[p].tail = prods[p].tail + 1
      /\ prods'[p].head = prods[p].head
      /\ prods[p].head \in Nat /\ prods[p].tail \in Nat
  BY <1>0, <1>1, Writing, Fields DEF OnlyIn
<1>3. p = urbId <=> t = "urb"
  BY <1>0, TwoIds
<1>4. taken \in Nat /\ sent \in Nat /\ recv = taken /\ taken + Waiting = sent
  BY DEF Totals
<1>5. CASE t = "urb"
  <2>1. /\ Waiting = prods[p].tail - prods[p].head
        /\ Waiting' = (prods[p].tail + 1) - prods[p].head
    BY <1>1, <1>2, <1>3, <1>5 DEF Waiting, Size
  <2>2. taken + Waiting' = sent + 1
    BY <1>2, <1>4, <2>1
  <2> QED  BY <1>1, <1>4, <1>5, <2>2 DEF Totals
<1>6. CASE t # "urb"
  <2>1. Waiting' = Waiting
    BY <1>1, <1>2, <1>3, <1>6 DEF Waiting, Size
  <2> QED  BY <1>1, <1>4, <1>6, <2>1 DEF Totals
<1> QED  BY <1>5, <1>6

LEMMA TotalsStep ==
  ASSUME Typed, Phases, Claims, Boundaries, DrainedAtEnd, Rings, Owned,
         Totals, Contents, [Next]_vars
  PROVE  Totals'
<1>1. CASE Quiet /\ ~StartStreaming
  BY <1>1, QuietContents DEF Totals, Waiting, Size
\* Between two sessions nothing waits, whatever the ids are.
<1>2. CASE StartStreaming \/ DeleteQueue
  <2>1. /\ ctl = "off" /\ (prods' = prods \/ DOMAIN prods' = {})
        /\ sent' = sent /\ recv' = recv /\ taken' = taken
    BY <1>2 DEF StartStreaming, DeleteQueue, memoryVars, historyVars
  <2>2. \A p \in DOMAIN prods : prods[p].tail - prods[p].head = 0
    <3>1. \A p \in DOMAIN prods : prods[p].head = prods[p].tail
                                  /\ prods[p].tail \in Nat
      BY <2>1, AtRest, Fields
    <3> QED  BY <3>1
  <2>3. Waiting = 0 /\ Waiting' = 0
    BY <2>1, <2>2 DEF Waiting, Size
  <2> QED  BY <2>1, <2>3 DEF Totals
<1>3. ASSUME NEW t \in {"urb", "ctl"}, FindProducer(t)
      PROVE  Totals'
  <2>1. /\ urbId' = urbId /\ sent' = sent /\ recv' = recv /\ taken' = taken
    BY <1>3 DEF FindProducer, driverVars, historyVars
  <2>2. /\ DOMAIN prods' = DOMAIN prods \cup {Id(t)}
        /\ \A q \in DOMAIN prods : prods'[q] = prods[q]
        /\ \A q \in DOMAIN prods' : q \notin DOMAIN prods =>
             prods'[q].tail = 0 /\ prods'[q].head = 0
    BY <1>3, Finding DEF NewProducer
  <2>3. Waiting' = Waiting
    BY <2>1, <2>2 DEF Waiting, Size
  <2> QED  BY <2>1, <2>3 DEF Totals
<1>4. ASSUME NEW t \in {"urb", "ctl"}, InsertEntry(t) \/ NextBlock(t)
      PROVE  Totals'
  <2>1. Id(t) \in DOMAIN prods
    BY <1>4 DEF InsertEntry, NextBlock, Claims
  <2>2. PICK p : p = Id(t)
    OBVIOUS
  <2>3. OnlyIn(p) /\ SameEnds(p)
    BY <1>4, <2>1, <2>2, Inserting, GettingBlock
  <2>4. /\ urbId' = urbId /\ sent' = sent /\ recv' = recv /\ taken' = taken
    BY <1>4 DEF InsertEntry, NextBlock, driverVars, historyVars
  <2> QED  BY <2>3, <2>4, WaitingKept
<1>5. CASE Refuses /\ pc["urb"] = "block"
  <2>1. PICK p : p = urbId
    OBVIOUS
  <2>2. OnlyIn(p) /\ SameEnds(p)
    BY <1>5, <2>1, Refusing
  <2>3. /\ urbId' = urbId /\ sent' = sent /\ recv' = recv /\ taken' = taken
    BY <1>5 DEF Refuses, driverVars
  <2> QED  BY <2>2, <2>3, WaitingKept
<1>6. ASSUME NEW t \in {"proc", "ctl"}, Empties(t)
      PROVE  Totals'
  <2>1. PICK p : p = from
    OBVIOUS
  <2>2. from \in DOMAIN prods /\ slot \in Slots
    BY <1>6 DEF Empties, Claims
  <2>3. OnlyIn(p) /\ SameEnds(p)
    BY <1>6, <2>1, <2>2, EmptyingOne
  <2>4. /\ urbId' = urbId /\ sent' = sent /\ recv' = recv /\ taken' = taken
    BY <1>6 DEF Empties, driverVars, historyVars
  <2> QED  BY <2>3, <2>4, WaitingKept
<1> QED
  BY <1>1, <1>2, <1>3, <1>4, <1>5, <1>6, TakeTotals, WriteTotals, StepCases

-----------------------------------------------------------------------------
(***************************************************************************)
(* The inductive invariant of the queue, and what follows from it.         *)
(***************************************************************************)

\* What is left of the types, with the bounds of the model.
Bounds ==
  /\ session \in 0..MaxSessions /\ running \in BOOLEAN /\ starved \in BOOLEAN
  /\ slot \in Slots \cup Blocks
  /\ sent <= MaxFrames
  /\ pc["urb"] \in {"find", "index", "block", "write"} => sent < MaxFrames

Deleted == ctl = "deleted" => freeList = 1..issued /\ DOMAIN prods = {}

QueueInv ==
  /\ PermitsInv /\ Boundaries /\ Rings /\ Owned /\ Counts
  /\ CellTyped /\ Contents /\ Totals /\ Bounds /\ Deleted

LEMMA QueueInvInit ==
  ASSUME Init
  PROVE  QueueInv
<1>1. /\ DOMAIN prods = {} /\ issued = 0 /\ freeList = {} /\ slot = 0
      /\ Threads = {"urb", "proc", "ctl"}
      /\ \A t \in {"urb", "proc", "ctl"} : pc[t] = "off"
      /\ emptied = [b \in Blocks |-> 0]
      /\ cell = [b \in Blocks |-> [i \in 0..(BlockSize - 1) |-> Null]]
      /\ sent = 0 /\ recv = 0 /\ taken = 0 /\ ctl = "off" /\ session = 0
      /\ running = FALSE /\ starved = FALSE
  BY ThreadIds DEF Init
<1>2. PermitsInv
  BY PermitsInvInit
<1>3. Boundaries /\ Rings /\ Contents
  BY <1>1 DEF Boundaries, Rings, Contents
<1>4. Owned
  BY <1>1, QueueAssumption DEF Owned
<1>5. Counts /\ CellTyped
  BY <1>1, QueueAssumption DEF Counts, CellTyped, Null
<1>6. Totals
  BY <1>1 DEF Totals, Waiting
<1>7. Bounds /\ Deleted
  <2>1. 0 \in Slots
    BY QueueAssumption DEF Slots
  <2>2. Deleted
    BY <1>1 DEF Deleted
  <2>3. session \in 0..MaxSessions /\ slot \in Slots \cup Blocks
        /\ sent <= MaxFrames
    BY <1>1, <2>1, QueueAssumption
  <2>4. pc["urb"] \notin {"find", "index", "block", "write"}
    BY <1>1
  <2>5. running \in BOOLEAN /\ starved \in BOOLEAN
    BY <1>1
  <2> QED  BY <2>2, <2>3, <2>4, <2>5, Zenon DEF Bounds
<1> QED  BY <1>2, <1>3, <1>4, <1>5, <1>6, <1>7 DEF QueueInv

LEMMA BoundsStep ==
  ASSUME Typed, Phases, Claims, Boundaries, Rings, Owned, Totals, Bounds,
         [Next]_vars
  PROVE  Bounds'
<1>0. /\ Threads = {"urb", "proc", "ctl"}
      /\ \A t \in Threads : \A place : Go(t, place) =>
           pc'[t] = place /\ \A u \in Threads \ {t} : pc'[u] = pc[u]
  BY ThreadIds, Goes
<1>1. session' \in 0..MaxSessions /\ running' \in BOOLEAN
  <2>1. CASE session' = session /\ running' = running
    BY <2>1 DEF Bounds
  <2>2. CASE StartStreaming
    BY <2>2, QueueAssumption DEF StartStreaming, Bounds
  <2>3. CASE session' = session /\ running' = FALSE
    BY <2>3 DEF Bounds
  <2>4. StartStreaming \/ session' = session
    BY DEF Next, UrbThread, ProcThread, CtlThread, Enqueue, Dequeue,
     FindProducer, InsertEntry, NextBlock, Write, Signals, Refuses, Waits,
     Scans, Takes, Empties, FreesBlock, EnqueuesFrame, ProcessThread,
     StopStreaming, JoinProcessThread, Drains, Drained, DeleteQueue, vars,
     driverVars
  <2>5. StartStreaming \/ running' = running \/ running' = FALSE
    BY DEF Next, UrbThread, ProcThread, CtlThread, Enqueue, Dequeue,
     FindProducer, InsertEntry, NextBlock, Write, Signals, Refuses, Waits,
     Scans, Takes, Empties, FreesBlock, EnqueuesFrame, ProcessThread,
     StopStreaming, JoinProcessThread, Drains, Drained, DeleteQueue, vars,
     driverVars
  <2> QED  BY <2>1, <2>2, <2>3, <2>4, <2>5
<1>2. starved' \in BOOLEAN
  <2>1. \/ starved' = starved
        \/ starved' = (starved \/ (Elements = {}
                                   /\ pc["proc"] \notin {"empty", "free"}))
    BY DEF Next, UrbThread, ProcThread, CtlThread, Enqueue, Dequeue,
     FindProducer, InsertEntry, NextBlock, Write, Signals, Refuses, Waits,
     Scans, Takes, Empties, FreesBlock, EnqueuesFrame, ProcessThread,
     StartStreaming, StopStreaming, JoinProcessThread, Drains, Drained,
     DeleteQueue, vars, historyVars
  <2> QED  BY <2>1 DEF Bounds
<1>3. slot' \in Slots \cup Blocks
  <2>1. CASE slot' = slot
    BY <2>1 DEF Bounds
  <2>2. ASSUME NEW t \in {"proc", "ctl"}, Takes(t)
        PROVE  slot' \in Slots
    BY <2>2, Taking DEF Takes, Claims
  <2>3. ASSUME NEW t \in {"proc", "ctl"}, Empties(t)
        PROVE  slot' = slot \/ slot' \in Blocks
    BY <2>3, Counted DEF Empties
  <2>4. ASSUME NEW t \in {"proc", "ctl"}, FreesBlock(t)
        PROVE  slot' \in Slots
    BY <2>4, QueueAssumption DEF FreesBlock, Slots
  <2>5. ASSUME \A t \in {"proc", "ctl"} :
                 ~Takes(t) /\ ~Empties(t) /\ ~FreesBlock(t)
        PROVE  slot' = slot
    BY <2>5 DEF Next, UrbThread, ProcThread, CtlThread, Enqueue, Dequeue,
     FindProducer, InsertEntry, NextBlock, Write, Signals, Refuses, Waits,
     Scans, EnqueuesFrame, ProcessThread,
     StartStreaming, StopStreaming, JoinProcessThread, Drains, Drained,
     DeleteQueue, vars, dequeueVars
  <2> QED  BY <2>1, <2>2, <2>3, <2>4, <2>5
<1>4. /\ sent' <= MaxFrames
      /\ pc'["urb"] \in {"find", "index", "block", "write"} => sent' < MaxFrames
  <2> DEFINE early == {"find", "index", "block", "write"}
  <2>0. sent \in Nat /\ MaxFrames \in Nat
    BY QueueAssumption DEF Totals
  <2>1. ASSUME sent' = sent, pc'["urb"] \in early => pc["urb"] \in early
        PROVE  /\ sent' <= MaxFrames
               /\ pc'["urb"] \in early => sent' < MaxFrames
    BY <2>1 DEF Bounds
  <2>2. CASE EnqueuesFrame
    BY <2>2 DEF EnqueuesFrame, historyVars, Bounds
  <2>3. CASE Write("urb")
    <3>1. /\ pc["urb"] = "write" /\ pc'["urb"] = "signal" /\ sent' = sent + 1
      BY <1>0, <2>3 DEF Write
    <3> QED  BY <2>0, <3>1 DEF Bounds
  <2>4. CASE \/ FindProducer("urb") \/ InsertEntry("urb") \/ NextBlock("urb")
             \/ Signals("urb") \/ Refuses
    <3>1. /\ sent' = sent
          /\ pc["urb"] \in early \/ pc'["urb"] \notin early
      BY <1>0, <2>4 DEF FindProducer, InsertEntry, NextBlock, Signals, Refuses,
         historyVars, Done
    <3> QED  BY <2>1, <3>1
  <2>5. CASE \/ ProcThread \/ CtlThread \/ DeleteQueue \/ UNCHANGED vars
    <3>1. sent' = sent /\ pc'["urb"] = pc["urb"]
      <4>1. CASE ProcThread
        BY <1>0, <4>1 DEF ProcThread, ProcessThread, Waits, Dequeue, Scans,
           Takes, Empties, FreesBlock, historyVars
      <4>2. CASE CtlThread
        BY <1>0, <4>2 DEF CtlThread, Enqueue, FindProducer, InsertEntry,
           NextBlock, Write, Signals, JoinProcessThread, Drains, Drained,
           Dequeue, Scans, Takes, Empties, FreesBlock, historyVars, Typed
      <4>3. CASE DeleteQueue \/ UNCHANGED vars
        BY <4>3 DEF DeleteQueue, vars, historyVars
      <4> QED  BY <2>5, <4>1, <4>2, <4>3
    <3> QED  BY <2>1, <3>1
  <2>6. CASE StartStreaming \/ StopStreaming
    <3>1. sent' = sent /\ pc'["urb"] \in {"idle", "off"}
      BY <1>0, <2>6 DEF StartStreaming, StopStreaming, historyVars, Typed
    <3> QED  BY <2>1, <3>1
  <2> QED
    BY <2>2, <2>3, <2>4, <2>5, <2>6 DEF Next, UrbThread, Enqueue
<1> QED  BY <1>1, <1>2, <1>3, <1>4 DEF Bounds

\* A deleted queue is not used.
LEMMA DeletedStep ==
  ASSUME Typed, Phases, Claims, Boundaries, DrainedAtEnd, Rings, Owned,
         Deleted, [Next]_vars
  PROVE  Deleted'
<1>1. CASE DeleteQueue
  BY <1>1, OwnedDeleted DEF Deleted
<1>2. CASE UNCHANGED vars
  BY <1>2 DEF vars, driverVars, memoryVars, Deleted
<1>3. ASSUME ~DeleteQueue, ~(UNCHANGED vars), ctl' = "deleted"
      PROVE  FALSE
  <2>1. ctl' # ctl => FALSE
    BY <1>3 DEF Next, UrbThread, ProcThread, CtlThread, Enqueue, Dequeue,
     FindProducer, InsertEntry, NextBlock, Write, Signals, Refuses, Waits,
     Scans, Takes, Empties, FreesBlock, EnqueuesFrame, ProcessThread,
     StartStreaming, StopStreaming, JoinProcessThread, Drains, Drained,
     driverVars
  <2>2. \A t \in {"urb", "proc", "ctl"} : pc[t] = "off"
    BY <1>3, <2>1, ThreadIds DEF Phases
  <2> QED
    BY <1>3, <2>1, <2>2 DEF Next, UrbThread, ProcThread, CtlThread, Enqueue,
     Dequeue, FindProducer, InsertEntry, NextBlock, Write, Signals, Refuses,
     Waits, Scans, Takes, Empties, FreesBlock, EnqueuesFrame, ProcessThread,
     StartStreaming, StopStreaming, JoinProcessThread, Drains, Drained
<1> QED  BY <1>1, <1>2, <1>3 DEF Deleted

LEMMA QueueInvStep ==
  ASSUME QueueInv, [Next]_vars
  PROVE  QueueInv'
<1>1. /\ Typed /\ Phases /\ Claims /\ DrainedAtEnd /\ Boundaries /\ Rings
      /\ Owned /\ Counts /\ CellTyped /\ Contents /\ Totals /\ Bounds
      /\ Deleted /\ PermitsInv
  BY DEF QueueInv, PermitsInv
<1>2. PermitsInv' /\ Boundaries'
  BY <1>1, PermitsInvStep, BoundariesStep
<1>3. Rings' /\ Owned' /\ Counts'
  BY <1>1, RingsStep, OwnedStep, CountsStep
<1>4. CellTyped' /\ Contents' /\ Totals'
  BY <1>1, CellTypedStep, ContentsStep, TotalsStep
<1>5. Bounds' /\ Deleted'
  BY <1>1, BoundsStep, DeletedStep
<1> QED  BY <1>2, <1>3, <1>4, <1>5 DEF QueueInv

LEMMA QueueInvHolds == Spec => []QueueInv
BY QueueInvInit, QueueInvStep, PTL DEF Spec

-----------------------------------------------------------------------------
(***************************************************************************)
(* What the queue promises.                                                *)
(***************************************************************************)

\* For any blocks, index, capacity, thread ids and number of sessions,
\* wait_dequeue gives the process thread the frames that try_enqueue took, each
\* once and in their order, and so does the try_dequeue of a stop.
THEOREM FramesInOrder == Spec => []TakesInOrder
<1>1. QueueInv => TakesInOrder
  BY DEF QueueInv, Totals, TakesInOrder
<1> QED  BY <1>1, QueueInvHolds, PTL

\* The entries that have a block are one when an entry has it and no other.
LEMMA OneEntry ==
  ASSUME Typed, Owned, NEW p \in DOMAIN prods, NEW s \in Slots,
         prods[p].value[s] # NoBlock
  PROVE  Entries(prods[p].value[s]) = 1
<1> DEFINE E == {e \in (DOMAIN prods) \X Slots :
                   prods[e[1]].value[e[2]] = prods[p].value[s]}
<1>1. ASSUME NEW e \in E
      PROVE  e = <<p, s>>
  <2>1. /\ e[1] \in DOMAIN prods /\ e[2] \in Slots /\ e = <<e[1], e[2]>>
        /\ prods[e[1]].value[e[2]] = prods[p].value[s]
    OBVIOUS
  <2>2. p = e[1] /\ s = e[2]
    BY <2>1 DEF Owned
  <2> QED  BY <2>1, <2>2
<1>2. <<p, s>> \in E
  OBVIOUS
<1>3. E = {<<p, s>>}
  BY <1>1, <1>2
<1>4. Cardinality(E) = 1
  BY <1>3, FS_Singleton
<1> QED  BY <1>4 DEF Entries

LEMMA NoEntry ==
  ASSUME NEW b, \A p \in DOMAIN prods, s \in Slots : prods[p].value[s] # b
  PROVE  Entries(b) = 0
<1>1. {e \in (DOMAIN prods) \X Slots : prods[e[1]].value[e[2]] = b} = {}
  OBVIOUS
<1> QED  BY <1>1, FS_EmptySet DEF Entries

\* At most one thread frees, and it is not the URB thread.
LEMMA OneFrees ==
  ASSUME Typed, Phases
  PROVE  /\ pc["urb"] # "free"
         /\ ~(pc["proc"] = "free" /\ pc["ctl"] = "free")
BY ThreadIds DEF Phases, EnqueuePlaces, DequeuePlaces

\* A block that was handed out is in one place.
LEMMA OnePlace ==
  ASSUME Typed, Phases, Owned, NEW b \in 1..issued
  PROVE  Entries(b) + Cardinality({b} \cap freeList)
         + Cardinality({t \in Threads : pc[t] = "free" /\ slot = b}) = 1
<1> DEFINE Freeing == {t \in Threads : pc[t] = "free" /\ slot = b}
<1>1. /\ Threads = {"urb", "proc", "ctl"}
      /\ pc["urb"] # "free" /\ ~(pc["proc"] = "free" /\ pc["ctl"] = "free")
  BY OneFrees, ThreadIds
<1>2. b # NoBlock
  BY DEF NoBlock
<1>3. Cardinality({}) = 0 /\ \A x : Cardinality({x}) = 1
  BY FS_EmptySet, FS_Singleton
<1>4. Loose(b) => Entries(b) = 0
  <2> SUFFICES ASSUME Loose(b)
               PROVE  \A p \in DOMAIN prods, s \in Slots : prods[p].value[s] # b
    BY NoEntry
  <2> QED  BY <1>2 DEF Owned
<1>5. ASSUME b \in freeList
      PROVE  Entries(b) + Cardinality({b} \cap freeList) + Cardinality(Freeing) = 1
  <2>1. Entries(b) = 0
    BY <1>4, <1>5 DEF Loose
  <2>2. Freeing = {}
    BY <1>1, <1>5 DEF Owned
  <2>3. {b} \cap freeList = {b}
    BY <1>5
  <2>4. Cardinality(Freeing) = 0 /\ Cardinality({b} \cap freeList) = 1
    BY <1>3, <2>2, <2>3, Zenon
  <2> HIDE DEF Freeing
  <2> QED  BY <2>1, <2>4
<1>6. ASSUME b \notin freeList,
             \E t \in {"proc", "ctl"} : pc[t] = "free" /\ slot = b
      PROVE  Entries(b) + Cardinality({b} \cap freeList) + Cardinality(Freeing) = 1
  <2>1. Entries(b) = 0
    BY <1>4, <1>6 DEF Loose
  <2>2. \E t : Freeing = {t}
    BY <1>1, <1>6
  <2>3. {b} \cap freeList = {}
    BY <1>6
  <2>4. Cardinality(Freeing) = 1 /\ Cardinality({b} \cap freeList) = 0
    BY <1>3, <2>2, <2>3, Zenon
  <2> HIDE DEF Freeing
  <2> QED  BY <2>1, <2>4
<1>7. ASSUME ~Loose(b)
      PROVE  Entries(b) + Cardinality({b} \cap freeList) + Cardinality(Freeing) = 1
  <2>1. PICK p \in DOMAIN prods, s \in Slots : prods[p].value[s] = b
    BY <1>7 DEF Owned
  <2>2. Entries(b) = 1
    BY <1>2, <2>1, OneEntry
  <2>3. Freeing = {} /\ {b} \cap freeList = {}
    BY <1>1, <1>7 DEF Loose
  <2> QED  BY <1>3, <2>2, <2>3
<1>8. b \in freeList \/ (b \notin freeList /\ ~Loose(b))
      \/ (b \notin freeList /\ \E t \in {"proc", "ctl"} : pc[t] = "free" /\ slot = b)
  BY DEF Loose
<1>9. Entries(b) + Cardinality({b} \cap freeList) + Cardinality(Freeing) = 1
  BY <1>5, <1>6, <1>7, <1>8, Zenon
<1> QED  BY <1>9

\* For any of the constants no block is lost and none has two owners, over
\* enqueues that are refused, sub-queues whose thread ended and the blocks that
\* a sub-queue gives back when the queue is deleted.
THEOREM NoBlockLost == Spec => []BlocksAccounted
<1>1. ASSUME QueueInv
      PROVE  BlocksAccounted
  <2>1. /\ Typed /\ Phases /\ Claims /\ Boundaries /\ Rings /\ Owned /\ Deleted
    BY <1>1 DEF QueueInv, PermitsInv
  <2>2. \A b \in 1..issued :
          Entries(b) + Cardinality({b} \cap freeList)
          + Cardinality({t \in Threads : pc[t] = "free" /\ slot = b}) = 1
    BY <2>1, OnePlace
  <2>3. ASSUME NEW p \in DOMAIN prods, prods[p].tail % BlockSize # 0
        PROVE  Entries(prods[p].block) = 1
    <3>1. PICK s \in Slots : /\ prods[p].value[s] = prods[p].block
                             /\ prods[p].block # NoBlock
      BY <2>1, <2>3, TailInUse
    <3>2. Entries(prods[p].value[s]) = 1
      BY <2>1, <3>1, OneEntry
    <3> QED  BY <3>1, <3>2
  <2>4. \A b \in TailBlocks : Entries(b) = 1
    BY <2>3 DEF TailBlocks
  <2>5. ctl = "deleted" => freeList = 1..issued
    BY <2>1 DEF Deleted
  <2> QED  BY <2>2, <2>4, <2>5 DEF BlocksAccounted
<1> QED  BY <1>1, QueueInvHolds, PTL

\* The elements of a sub-queue have their places in the ring of its index.
LEMMA WithinIndex ==
  ASSUME Typed, Rings, NEW p \in DOMAIN prods
  PROVE  prods[p].tail - prods[p].head <= BlockSize * IndexSize
<1>1. RingOf(p) /\ InSlot(p)
  BY RingsAs
<1> DEFINE a == prods[p].tail
           h == prods[p].head
           k == Kept(p)
           f == First(p)
           m == (a - 1) \div BlockSize
<1>2. /\ a \in Nat /\ h \in Nat /\ k \in Nat /\ k <= h /\ f \in Nat
      /\ Last(p) \in Int
      /\ BlockSize \in Nat \ {0} /\ IndexSize \in Nat \ {0}
  BY <1>1, Numbers, QueueAssumption
<1>3. Last(p) - f < IndexSize
  BY <1>1 DEF RingOf, Ring
<1>4. /\ a - 1 = (m * BlockSize) + ((a - 1) % BlockSize)
      /\ (a - 1) % BlockSize \in 0..(BlockSize - 1) /\ m \in Int
  <2>1. a - 1 \in Int
    BY <1>2
  <2> QED  BY <2>1, BlockParts
<1>5. k = (f * BlockSize) + (k % BlockSize) /\ k % BlockSize \in 0..(BlockSize - 1)
  <2>1. Kept(p) \in Int
    BY <1>2
  <2> QED  BY <2>1, BlockParts, Zenon DEF First
<1>6. m <= Last(p)
  <2>1. a - 1 \in Int /\ a \in Int /\ a - 1 <= a
    BY <1>2
  <2>2. m <= a \div BlockSize
    BY <1>2, <2>1, DivMonotone
  <2>3. m \in Int
    BY <1>4
  <2> QED  BY <2>2, <2>3 DEF Last
<1> HIDE DEF a, h, k, f, m
<1>7. m - f <= IndexSize - 1
  BY <1>2, <1>3, <1>4, <1>6
<1>8. (m - f) * BlockSize <= (IndexSize - 1) * BlockSize
  BY <1>2, <1>4, <1>7
<1>9. (m - f) * BlockSize = (m * BlockSize) - (f * BlockSize)
      /\ (IndexSize - 1) * BlockSize = (BlockSize * IndexSize) - BlockSize
  BY <1>2, <1>4
<1>10. a - h <= BlockSize * IndexSize
  <2> DEFINE x == m * BlockSize
             y == f * BlockSize
             z == BlockSize * IndexSize
             r == (a - 1) % BlockSize
             w == k % BlockSize
  <2>1. x \in Int /\ y \in Int /\ z \in Int
    BY <1>2, <1>4
  <2>2. /\ a - 1 = x + r /\ r <= BlockSize - 1 /\ r \in Int
        /\ k = y + w /\ w >= 0 /\ w \in Int /\ x - y <= z - BlockSize
    BY <1>2, <1>4, <1>5, <1>8, <1>9
  <2> HIDE DEF x, y, z, r, w
  <2>3. a - h <= z
    BY <1>2, <2>1, <2>2
  <2> QED  BY <2>3 DEF z
<1> QED  BY <1>10 DEF a, h

\* For any of the constants the head of a sub-queue never passes its tail and
\* is never further back than its block index reaches, no block counts more
\* elements taken than it has, and every variable has its type.
THEOREM QueueTypeOK == Spec => []TypeOK
<1>1. ASSUME QueueInv
      PROVE  TypeOK
  <2>1. /\ Typed /\ Phases /\ Rings /\ Owned /\ Counts /\ Totals /\ Bounds
    BY <1>1 DEF QueueInv, PermitsInv
  <2>2. /\ SemaTypeOK /\ pc \in [Threads -> Places]
        /\ ctl \in {"off", "streaming", "stopping", "draining", "deleted"}
        /\ urbId \in UrbIds /\ DOMAIN prods \subseteq Ids /\ from \in Ids
    BY <2>1 DEF Typed, Phases
  <2>3. /\ session \in 0..MaxSessions /\ running \in BOOLEAN
        /\ slot \in Slots \cup Blocks /\ starved \in BOOLEAN
    BY <2>1 DEF Bounds
  <2>4. issued \in 0..MaxBlocks /\ \A b \in 1..issued : b \in Blocks
    BY <2>1, QueueAssumption DEF Typed, Owned, Blocks
  <2>5. freeList \subseteq Blocks /\ emptied \in [Blocks -> 0..BlockSize]
    BY <2>1, <2>4 DEF Owned, Counts
  <2>6. ASSUME NEW p \in DOMAIN prods
        PROVE  /\ prods[p].head <= prods[p].tail
               /\ prods[p].tail - prods[p].head <= BlockSize * IndexSize
               /\ prods[p].block \in Blocks \cup {NoBlock}
               /\ prods[p].last \in Slots
    <3>1. prods[p].head <= prods[p].tail /\ prods[p].last \in Slots
      BY <2>1, Fields
    <3>2. prods[p].block \in Blocks \cup {NoBlock}
      BY <2>1, <2>4 DEF Owned, NoBlock
    <3> QED  BY <2>1, <3>1, <3>2, WithinIndex
  <2>7. sent \in 0..MaxFrames /\ recv \in 0..sent
    <3>1. Waiting \in Nat
      BY <2>1, Fields DEF Waiting
    <3> QED  BY <2>1, <3>1, QueueAssumption DEF Totals, Bounds
  <2> QED  BY <2>2, <2>3, <2>4, <2>5, <2>6, <2>7 DEF TypeOK
<1> QED  BY <1>1, QueueInvHolds, PTL
=============================================================================
