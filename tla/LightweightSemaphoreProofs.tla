--------------------- MODULE LightweightSemaphoreProofs ---------------------
(***************************************************************************)
(* Proofs about the semaphore of the process queue, for any set of         *)
(* threads that wait and signal: no wakeup is lost or given twice, and the *)
(* count and the semaphore of the OS together implement one semaphore.     *)
(*                                                                         *)
(* WakeupsBalance is inductive with the types: every step moves a thread   *)
(* into or out of one of the two sets Blocked and Posting, and the lemma   *)
(* Moves says what that does to their cardinalities.                       *)
(***************************************************************************)
EXTENDS LightweightSemaphore, FiniteSetTheorems, TLAPS

\* The threads that are at a place of the semaphore are finitely many.
LEMMA FiniteAt ==
  ASSUME SemaTypeOK
  PROVE  /\ IsFiniteSet(Blocked) /\ Cardinality(Blocked) \in Nat
         /\ IsFiniteSet(Posting) /\ Cardinality(Posting) \in Nat
<1>1. Blocked \subseteq Threads /\ Posting \subseteq Threads
  BY DEF Blocked, Posting
<1> QED
  BY <1>1, SemaAssumption, FS_Subset, FS_CardinalityType

\* What the step of a thread to a place does to the two sets.
Moved(t, place) ==
  /\ Cardinality(Blocked') =
       Cardinality(Blocked)
       - (IF sema[t] = "blocked" THEN 1 ELSE 0)
       + (IF place = "blocked" THEN 1 ELSE 0)
  /\ Cardinality(Posting') =
       Cardinality(Posting)
       - (IF sema[t] = "post" THEN 1 ELSE 0)
       + (IF place = "post" THEN 1 ELSE 0)

\* A thread that goes from one place to another changes the two sets by
\* itself, and nobody else.
LEMMA Moves ==
  ASSUME SemaTypeOK, NEW t \in Threads, NEW place \in SemaStates,
         sema' = [sema EXCEPT ![t] = place]
  PROVE  Moved(t, place)
<1>1. \A u \in Threads : sema'[u] = IF u = t THEN place ELSE sema[u]
  BY DEF SemaTypeOK
<1>2. /\ IsFiniteSet(Blocked) /\ Cardinality(Blocked) \in Nat
      /\ IsFiniteSet(Posting) /\ Cardinality(Posting) \in Nat
  BY FiniteAt
<1>3. Cardinality(Blocked') =
        Cardinality(Blocked) - (IF sema[t] = "blocked" THEN 1 ELSE 0)
        + (IF place = "blocked" THEN 1 ELSE 0)
  <2>1. CASE (sema[t] = "blocked") = (place = "blocked")
    <3>1. Blocked' = Blocked
      BY <1>1, <2>1 DEF Blocked
    <3> QED  BY <1>2, <2>1, <3>1
  <2>2. CASE sema[t] = "blocked" /\ place # "blocked"
    <3>1. Blocked' = Blocked \ {t} /\ t \in Blocked
      BY <1>1, <2>2 DEF Blocked
    <3>2. Cardinality(Blocked') = Cardinality(Blocked) - 1
      BY <1>2, <3>1, FS_RemoveElement
    <3> QED  BY <1>2, <2>2, <3>2
  <2>3. CASE sema[t] # "blocked" /\ place = "blocked"
    <3>1. Blocked' = Blocked \cup {t} /\ t \notin Blocked
      BY <1>1, <2>3 DEF Blocked
    <3>2. Cardinality(Blocked') = Cardinality(Blocked) + 1
      BY <1>2, <3>1, FS_AddElement
    <3> QED  BY <1>2, <2>3, <3>2
  <2> QED  BY <2>1, <2>2, <2>3
<1>4. Cardinality(Posting') =
        Cardinality(Posting) - (IF sema[t] = "post" THEN 1 ELSE 0)
        + (IF place = "post" THEN 1 ELSE 0)
  <2>1. CASE (sema[t] = "post") = (place = "post")
    <3>1. Posting' = Posting
      BY <1>1, <2>1 DEF Posting
    <3> QED  BY <1>2, <2>1, <3>1
  <2>2. CASE sema[t] = "post" /\ place # "post"
    <3>1. Posting' = Posting \ {t} /\ t \in Posting
      BY <1>1, <2>2 DEF Posting
    <3>2. Cardinality(Posting') = Cardinality(Posting) - 1
      BY <1>2, <3>1, FS_RemoveElement
    <3> QED  BY <1>2, <2>2, <3>2
  <2>3. CASE sema[t] # "post" /\ place = "post"
    <3>1. Posting' = Posting \cup {t} /\ t \notin Posting
      BY <1>1, <2>3 DEF Posting
    <3>2. Cardinality(Posting') = Cardinality(Posting) + 1
      BY <1>2, <3>1, FS_AddElement
    <3> QED  BY <1>2, <2>3, <3>2
  <2> QED  BY <2>1, <2>2, <2>3
<1> QED  BY <1>3, <1>4 DEF Moved

-----------------------------------------------------------------------------
SemaInv == SemaTypeOK /\ WakeupsBalance

LEMMA InitInv == SemaInit => SemaInv
<1> SUFFICES ASSUME SemaInit PROVE SemaInv
  OBVIOUS
<1>1. SemaTypeOK
  BY DEF SemaInit, SemaTypeOK, SemaStates
<1>2. Blocked = {} /\ Posting = {}
  BY DEF SemaInit, Blocked, Posting
<1>3. Cardinality(Blocked) = 0 /\ Cardinality(Posting) = 0
  BY <1>2, FS_EmptySet
<1> QED
  BY <1>1, <1>3 DEF SemaInv, SemaInit, WakeupsBalance

\* Every step keeps the balance, and is a step of the one semaphore: a permit
\* is released when the count is raised, and acquired when a thread takes it
\* or wakes up.
LEMMA StepInv ==
  ASSUME SemaInv, [SemaNext]_semaVars
  PROVE  SemaInv' /\ [Permits!Next]_Value
<1> USE DEF SemaInv, Value, Permits!Next, Permits!Release,
            Permits!Acquire
<1>0. /\ count \in Int /\ tokens \in Nat
      /\ \A t \in Threads : sema[t] \in SemaStates
      /\ Cardinality(Blocked) \in Nat /\ Cardinality(Posting) \in Nat
      /\ Cardinality(Blocked) = tokens + Cardinality(Posting)
                                + (IF count < 0 THEN -count ELSE 0)
  BY FiniteAt DEF SemaTypeOK, WakeupsBalance
<1>a. /\ SemaTypeOK
      /\ "idle" \in SemaStates /\ "spin" \in SemaStates
      /\ "blocked" \in SemaStates /\ "post" \in SemaStates
  BY DEF SemaStates
<1>1. ASSUME NEW t \in Threads, TryWait(t)
      PROVE  SemaInv' /\ [Permits!Next]_Value
  <2>1. Blocked' = Blocked /\ Posting' = Posting
    BY <1>1 DEF TryWait, Blocked, Posting
  <2>2. SemaTypeOK'
    BY <1>1 DEF TryWait, SemaTypeOK
  <2> QED  BY <1>0, <1>1, <2>1, <2>2 DEF TryWait, WakeupsBalance
<1>2. ASSUME NEW t \in Threads, StartSpin(t)
      PROVE  SemaInv' /\ [Permits!Next]_Value
  <2>1. sema[t] = "idle" /\ sema' = [sema EXCEPT ![t] = "spin"]
        /\ count' = count /\ tokens' = tokens
    BY <1>2 DEF StartSpin
  <2>2. Moved(t, "spin")
    BY <1>a, <2>1, Moves, Zenon
  <2>3. SemaTypeOK'
    BY <1>a, <2>1 DEF SemaTypeOK
  <2> QED  BY <1>0, <2>1, <2>2, <2>3 DEF Moved, WakeupsBalance
<1>3. ASSUME NEW t \in Threads, SpinTakes(t)
      PROVE  SemaInv' /\ [Permits!Next]_Value
  <2>1. sema[t] = "spin" /\ sema' = [sema EXCEPT ![t] = "idle"]
        /\ count > 0 /\ count' = count - 1 /\ tokens' = tokens
    BY <1>3 DEF SpinTakes
  <2>2. Moved(t, "idle")
    BY <1>a, <2>1, Moves, Zenon
  <2>3. SemaTypeOK'
    BY <1>a, <2>1 DEF SemaTypeOK
  <2> QED  BY <1>0, <2>1, <2>2, <2>3 DEF Moved, WakeupsBalance
<1>4. ASSUME NEW t \in Threads, SpinGivesUp(t)
      PROVE  SemaInv' /\ [Permits!Next]_Value
  <2>1. CASE count > 0
    <3>1. sema[t] = "spin" /\ sema' = [sema EXCEPT ![t] = "idle"]
          /\ count' = count - 1 /\ tokens' = tokens
      BY <1>4, <2>1 DEF SpinGivesUp
    <3>2. Moved(t, "idle")
      BY <1>a, <3>1, Moves, Zenon
    <3>3. SemaTypeOK'
      BY <1>a, <3>1 DEF SemaTypeOK
    <3> QED  BY <1>0, <2>1, <3>1, <3>2, <3>3 DEF Moved, WakeupsBalance
  <2>2. CASE ~(count > 0)
    <3>1. sema[t] = "spin" /\ sema' = [sema EXCEPT ![t] = "blocked"]
          /\ count' = count - 1 /\ tokens' = tokens
      BY <1>4, <2>2 DEF SpinGivesUp
    <3>2. Moved(t, "blocked")
      BY <1>a, <3>1, Moves, Zenon
    <3>3. SemaTypeOK'
      BY <1>a, <3>1 DEF SemaTypeOK
    <3> QED  BY <1>0, <2>2, <3>1, <3>2, <3>3 DEF Moved, WakeupsBalance
  <2> QED  BY <2>1, <2>2
<1>5. ASSUME NEW t \in Threads, Wakes(t)
      PROVE  SemaInv' /\ [Permits!Next]_Value
  <2>1. sema[t] = "blocked" /\ sema' = [sema EXCEPT ![t] = "idle"]
        /\ tokens > 0 /\ tokens' = tokens - 1 /\ count' = count
    BY <1>5 DEF Wakes
  <2>2. Moved(t, "idle")
    BY <1>a, <2>1, Moves, Zenon
  <2>3. SemaTypeOK'
    BY <1>a, <2>1 DEF SemaTypeOK
  <2> QED  BY <1>0, <2>1, <2>2, <2>3 DEF Moved, WakeupsBalance
<1>6. ASSUME NEW t \in Threads, SignalAdds(t)
      PROVE  SemaInv' /\ [Permits!Next]_Value
  <2>1. CASE count < 0
    <3>1. sema[t] = "idle" /\ sema' = [sema EXCEPT ![t] = "post"]
          /\ count' = count + 1 /\ tokens' = tokens
      BY <1>6, <2>1 DEF SignalAdds
    <3>2. Moved(t, "post")
      BY <1>a, <3>1, Moves, Zenon
    <3>3. SemaTypeOK'
      BY <1>a, <3>1 DEF SemaTypeOK
    <3> QED  BY <1>0, <2>1, <3>1, <3>2, <3>3 DEF Moved, WakeupsBalance
  <2>2. CASE ~(count < 0)
    <3>1. sema[t] = "idle" /\ sema' = [sema EXCEPT ![t] = "idle"]
          /\ count' = count + 1 /\ tokens' = tokens
      BY <1>6, <2>2 DEF SignalAdds
    <3>2. Moved(t, "idle")
      BY <1>a, <3>1, Moves, Zenon
    <3>3. SemaTypeOK'
      BY <1>a, <3>1 DEF SemaTypeOK
    <3> QED  BY <1>0, <2>2, <3>1, <3>2, <3>3 DEF Moved, WakeupsBalance
  <2> QED  BY <2>1, <2>2
<1>7. ASSUME NEW t \in Threads, SignalPosts(t)
      PROVE  SemaInv' /\ [Permits!Next]_Value
  <2>1. sema[t] = "post" /\ sema' = [sema EXCEPT ![t] = "idle"]
        /\ tokens' = tokens + 1 /\ count' = count
    BY <1>7 DEF SignalPosts
  <2>2. Moved(t, "idle")
    BY <1>a, <2>1, Moves, Zenon
  <2>3. SemaTypeOK'
    BY <1>a, <2>1 DEF SemaTypeOK
  <2> QED  BY <1>0, <2>1, <2>2, <2>3 DEF Moved, WakeupsBalance
<1>8. CASE UNCHANGED semaVars
  <2>1. Blocked' = Blocked /\ Posting' = Posting
    BY <1>8 DEF semaVars, Blocked, Posting
  <2> QED  BY <1>8, <2>1 DEF semaVars, SemaTypeOK, WakeupsBalance
<1> QED
  BY <1>1, <1>2, <1>3, <1>4, <1>5, <1>6, <1>7, <1>8 DEF SemaNext

-----------------------------------------------------------------------------
\* The semaphore keeps its types, and as many threads sleep as tokens, posts
\* and a negative count account for: m_count and m_sema never disagree.
THEOREM WakeupsBalanceHolds == SemaSpec => [](SemaTypeOK /\ WakeupsBalance)
<1>1. SemaInv /\ [SemaNext]_semaVars => SemaInv'
  BY StepInv
<1>2. SemaInv => SemaTypeOK /\ WakeupsBalance
  BY DEF SemaInv
<1> QED  BY InitInv, <1>1, <1>2, PTL DEF SemaSpec

\* m_count and m_sema together behave as one semaphore: a wait that returns
\* has taken a permit that a signal gave, and nobody else has taken it.
THEOREM ImplementsSemaphore == SemaSpec => PermitSpec
<1>1. SemaInit => Permits!Init
  <2> SUFFICES ASSUME SemaInit PROVE Value = 0
    BY DEF Permits!Init
  <2>1. Blocked = {}
    BY DEF SemaInit, Blocked
  <2> QED  BY <2>1, FS_EmptySet DEF SemaInit, Value
<1>2. SemaInv /\ [SemaNext]_semaVars => SemaInv' /\ [Permits!Next]_Value
  BY StepInv
<1> QED  BY InitInv, <1>1, <1>2, PTL DEF SemaSpec, PermitSpec, Permits!Spec

=============================================================================
