----------------------------- MODULE DriverOwner -----------------------------
(***************************************************************************)
(* What the sessions promise about the one native driver.  An instance     *)
(* gets it only when nobody has it; only the owner starts and stops; the   *)
(* driver streams exactly when its owner believes so; and it is given back *)
(* only when its stream has been stopped.                                  *)
(*                                                                         *)
(* There is one exception.  A start can fail in a way that wedges the      *)
(* driver: until the next stop its owner may believe in a stream that is   *)
(* none.  Nobody is no instance.                                           *)
(***************************************************************************)
CONSTANTS Instances, Nobody

VARIABLES
  owner,      \* who has the driver
  streaming,  \* who it streams for: a set of at most one
  believes,   \* instances that take it to stream for them
  wedged      \* has a failed start left it wedged

vars == <<owner, streaming, believes, wedged>>

Init == owner = Nobody /\ streaming = {} /\ believes = {} /\ wedged = FALSE

Acquire(i) ==
  /\ owner = Nobody /\ owner' = i
  /\ UNCHANGED <<streaming, believes, wedged>>

Start(i) ==
  /\ owner = i /\ streaming = {} /\ ~wedged
  /\ streaming' = {i} /\ believes' = {i}
  /\ UNCHANGED <<owner, wedged>>

StartWedges(i) ==
  /\ owner = i /\ streaming = {} /\ ~wedged /\ wedged' = TRUE
  /\ UNCHANGED <<owner, streaming, believes>>

\* A start of a wedged driver says that it has started.
StartWedged(i) ==
  /\ owner = i /\ wedged /\ believes' = {i}
  /\ UNCHANGED <<owner, streaming, wedged>>

Stop(i) ==
  /\ owner = i
  /\ streaming' = {} /\ believes' = {} /\ wedged' = FALSE
  /\ UNCHANGED owner

Restart(i) ==
  /\ owner = i /\ believes = {i}
  /\ \/ streaming' = {i} /\ believes' = {i} /\ wedged' = FALSE
     \/ streaming' = {} /\ believes' = {} /\ wedged' \in BOOLEAN
  /\ UNCHANGED owner

Release(i) ==
  /\ owner = i /\ streaming = {} /\ believes = {}
  /\ owner' = Nobody /\ wedged' = FALSE
  /\ UNCHANGED <<streaming, believes>>

Next ==
  \E i \in Instances :
    \/ Acquire(i) \/ Start(i) \/ StartWedges(i) \/ StartWedged(i) \/ Stop(i)
    \/ Restart(i) \/ Release(i)

Spec == Init /\ [][Next]_vars

=============================================================================
