------------------------------ MODULE UrbReader ------------------------------
(***************************************************************************)
(* What the URB thread promises to the driver that starts and stops it:    *)
(* callbacks run one at a time, only between a start and the end of a      *)
(* stop, and a stop that was asked for ends when the callback under way    *)
(* has ended.  UsbTvDriver relies on it when it frees the frame pool after *)
(* the stop; AndroidUsbDevice keeps it.                                    *)
(***************************************************************************)

VARIABLES
  phase,   \* "off", "on", or "stopping" while the stop waits for the thread
  busy     \* is a callback running

vars == <<phase, busy>>

Init == phase = "off" /\ ~busy

Start == phase = "off" /\ phase' = "on" /\ UNCHANGED busy

CallbackBegins == phase # "off" /\ ~busy /\ busy' /\ UNCHANGED phase

CallbackEnds == busy /\ ~busy' /\ UNCHANGED phase

StopBegins == phase = "on" /\ phase' = "stopping" /\ UNCHANGED busy

StopEnds == phase = "stopping" /\ ~busy /\ phase' = "off" /\ UNCHANGED busy

Next == Start \/ CallbackBegins \/ CallbackEnds \/ StopBegins \/ StopEnds

Spec == Init /\ [][Next]_vars

=============================================================================
