------------------------ MODULE LightweightSemaphore ------------------------
(***************************************************************************)
(* The semaphore on which BlockingConcurrentQueue blocks: an atomic count  *)
(* in front of a semaphore of the OS, which is only touched when somebody  *)
(* has to sleep or sleeps.  A negative count is the number of waiters that *)
(* nobody has signalled.                                                   *)
(*                                                                         *)
(* One action per atomic operation on m_count or m_sema.  wait() with a    *)
(* timeout and the variants for many permits are not used by the driver.   *)
(***************************************************************************)
EXTENDS Integers, FiniteSets

CONSTANT Threads

ASSUME SemaAssumption == IsFiniteSet(Threads)

VARIABLES
  count,    \* m_count
  tokens,   \* the value of m_sema
  sema      \* where a thread is in an operation of the semaphore

semaVars == <<count, tokens, sema>>

SemaStates == {"idle", "spin", "blocked", "post"}

SemaInit ==
  /\ count = 0 /\ tokens = 0
  /\ sema = [t \in Threads |-> "idle"]

\* tryWait: a compare-and-swap loop that takes a permit while there is one.
TryWait(t) ==
  /\ sema[t] = "idle" /\ count > 0
  /\ count' = count - 1
  /\ UNCHANGED <<tokens, sema>>

\* wait() finds no permit and goes on to waitWithPartialSpinning.
StartSpin(t) ==
  /\ sema[t] = "idle" /\ count <= 0
  /\ sema' = [sema EXCEPT ![t] = "spin"]
  /\ UNCHANGED <<count, tokens>>

\* A permit comes while the thread spins.
SpinTakes(t) ==
  /\ sema[t] = "spin" /\ count > 0
  /\ count' = count - 1
  /\ sema' = [sema EXCEPT ![t] = "idle"]
  /\ UNCHANGED tokens

\* Mutant: the thread always sleeps once it has given up spinning.
SpinGivesUp_Sleeps(t) ==
  /\ sema[t] = "spin"
  /\ count' = count - 1
  /\ sema' = [sema EXCEPT ![t] = "blocked"]
  /\ UNCHANGED tokens

\* The fetch_sub after the last round: the permit that came late is taken, or
\* the thread is counted as a waiter.
SpinGivesUp(t) ==
  /\ sema[t] = "spin"
  /\ count' = count - 1
  /\ sema' = [sema EXCEPT ![t] = IF count > 0 THEN "idle" ELSE "blocked"]
  /\ UNCHANGED tokens

\* Mutant: m_sema.wait() returns without a token, as after an EINTR.
Wakes_NoToken(t) ==
  /\ sema[t] = "blocked"
  /\ sema' = [sema EXCEPT ![t] = "idle"]
  /\ UNCHANGED <<count, tokens>>

\* m_sema.wait() returns.
Wakes(t) ==
  /\ sema[t] = "blocked" /\ tokens > 0
  /\ tokens' = tokens - 1
  /\ sema' = [sema EXCEPT ![t] = "idle"]
  /\ UNCHANGED count

\* Mutant: the last waiter is not seen.
SignalAdds_Misses(t) ==
  /\ sema[t] = "idle"
  /\ count' = count + 1
  /\ sema' = [sema EXCEPT ![t] = IF count + 1 < 0 THEN "post" ELSE "idle"]
  /\ UNCHANGED tokens

\* signal(): the count is raised, and if it was negative a waiter is woken.
SignalAdds(t) ==
  /\ sema[t] = "idle"
  /\ count' = count + 1
  /\ sema' = [sema EXCEPT ![t] = IF count < 0 THEN "post" ELSE "idle"]
  /\ UNCHANGED tokens

SignalPosts(t) ==
  /\ sema[t] = "post"
  /\ tokens' = tokens + 1
  /\ sema' = [sema EXCEPT ![t] = "idle"]
  /\ UNCHANGED count

SemaNext ==
  \E t \in Threads :
    \/ TryWait(t) \/ StartSpin(t) \/ SpinTakes(t) \/ SpinGivesUp(t)
    \/ Wakes(t) \/ SignalAdds(t) \/ SignalPosts(t)

SemaSpec == SemaInit /\ [][SemaNext]_semaVars

-----------------------------------------------------------------------------
Blocked == {t \in Threads : sema[t] = "blocked"}
Posting == {t \in Threads : sema[t] = "post"}

SemaTypeOK ==
  /\ count \in Int /\ tokens \in Nat
  /\ sema \in [Threads -> SemaStates]

\* Permits that were signalled and not taken.  A thread that sleeps has not
\* taken one yet, although it is subtracted from the count.
Value == count + Cardinality(Blocked)

\* As many threads sleep for nothing as the count says.  The others that are
\* blocked have a token, or a thread that is about to post one: no wakeup is
\* lost, and none is given twice.
WakeupsBalance ==
  Cardinality(Blocked) = tokens + Cardinality(Posting)
                         + (IF count < 0 THEN -count ELSE 0)

\* The count and the semaphore of the OS together are one semaphore.
Permits == INSTANCE Semaphore WITH value <- Value
PermitSpec == Permits!Spec

=============================================================================
