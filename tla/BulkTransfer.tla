---------------------------- MODULE BulkTransfer ----------------------------
(***************************************************************************)
(* Synchronous bulk transfers of AndroidUsbDevice: bulkTransfer cuts a     *)
(* buffer into pieces of at most MaxSize and gives them to usbdevfs one    *)
(* after the other.  bulkRead tries a piece again when it fails and ends   *)
(* at the first short piece; bulkWrite ends at the first piece that is not *)
(* sent as a whole.                                                        *)
(*                                                                         *)
(* The device may take or send any part of a piece, or fail.  -1 is the    *)
(* result of an ioctl or a transfer that failed.                           *)
(***************************************************************************)
EXTENDS Integers

CONSTANTS
  MaxSize,      \* MAX_USBFS_BULK_SIZE
  MaxRetries,   \* MAX_USBFS_BULK_RETRIES
  MaxLength     \* bound: length of a buffer

ASSUME TransferAssumption ==
  /\ MaxSize \in Nat \ {0} /\ MaxRetries \in Nat /\ MaxLength \in Nat

VARIABLES
  op,      \* "idle", "read", "write", or how the last transfer ended
  size,    \* length of the buffer
  left,    \* `length' of the loop
  count,   \* `count'; outBuf is the buffer + count
  retry,   \* `retry'
  fails,   \* how often the device failed with this piece
  moved    \* bytes the device has sent or taken

transferVars == <<op, size, left, count, retry, fails, moved>>

Fail == -1

TransferInit ==
  /\ op = "idle" /\ size = 0 /\ left = 0 /\ count = 0
  /\ retry = 0 /\ fails = 0 /\ moved = 0

\* xfer
Piece == IF left > MaxSize THEN MaxSize ELSE left

\* What USBDEVFS_BULK returns for a piece.
Results == {Fail} \cup 0..Piece

Moves(r) == moved' = moved + (IF r = Fail THEN 0 ELSE r)

\* bulkTransfer, with a buffer and an endpoint that is not 0.
BulkTransfer ==
  /\ op = "idle"
  /\ op' \in {"read", "write"}
  /\ \E length \in 0..MaxLength : size' = length /\ left' = length
  /\ count' = 0 /\ moved' = 0 /\ retry' = 0 /\ fails' = 0

\* bulkRead of nothing.
ReadNothing ==
  /\ op = "read" /\ left = 0
  /\ op' = "returned"
  /\ UNCHANGED <<size, left, count, retry, fails, moved>>

\* The try after MaxRetries others ends the read, whatever it returned.
ReadExceeds ==
  /\ op = "read" /\ left > 0 /\ retry + 1 > MaxRetries
  /\ \E r \in Results : Moves(r)
  /\ op' = "failed" /\ retry' = retry + 1
  /\ UNCHANGED <<size, left, count, fails>>

ReadFails ==
  /\ op = "read" /\ left > 0 /\ retry + 1 <= MaxRetries
  /\ retry' = retry + 1 /\ fails' = fails + 1
  /\ UNCHANGED <<op, size, left, count, moved>>

\* Mutant: a short piece does not end the read, and outBuf and length go on
\* by a whole piece.
ReadGets_WholePiece ==
  /\ op = "read" /\ left > 0 /\ retry + 1 <= MaxRetries
  /\ \E r \in 0..Piece : Moves(r)
  /\ count' = count + Piece /\ left' = left - Piece
  /\ retry' = 0 /\ fails' = 0
  /\ op' = IF left' = 0 THEN "returned" ELSE "read"
  /\ UNCHANGED size

\* A piece is read; a short one is the last.
ReadGets ==
  /\ op = "read" /\ left > 0 /\ retry + 1 <= MaxRetries
  /\ \E r \in 0..Piece :
       /\ Moves(r)
       /\ count' = count + r /\ left' = left - r
       /\ op' = IF r < Piece \/ left' = 0 THEN "returned" ELSE "read"
  /\ retry' = 0 /\ fails' = 0
  /\ UNCHANGED size

\* bulkWrite of a piece; of nothing, it is one packet of length 0.
WritePiece ==
  /\ op = "write"
  /\ \E r \in Results :
       /\ Moves(r)
       /\ IF r = Piece
            THEN /\ count' = count + r /\ left' = left - r
                 /\ op' = IF left' = 0 THEN "returned" ELSE "write"
            ELSE op' = "failed" /\ UNCHANGED <<count, left>>
  /\ UNCHANGED <<size, retry, fails>>

\* The caller has the result, and the variables of the call are gone.
Returns ==
  /\ op \in {"returned", "failed"}
  /\ op' = "idle" /\ size' = 0 /\ left' = 0 /\ count' = 0
  /\ retry' = 0 /\ fails' = 0 /\ moved' = 0

TransferNext == BulkTransfer \/ Returns \/ ReadNothing \/ ReadExceeds \/ ReadFails
                \/ ReadGets \/ WritePiece

TransferSpec == TransferInit /\ [][TransferNext]_transferVars

-----------------------------------------------------------------------------
TransferTypeOK ==
  /\ op \in {"idle", "read", "write", "returned", "failed"}
  /\ size \in Nat /\ left \in Nat /\ count \in Nat
  /\ retry \in Nat /\ fails \in Nat /\ moved \in Nat

\* Every piece lies in the buffer.  A transfer that returns gives its caller
\* exactly what the device moved.  One that fails gives -1 and drops the count
\* of the pieces before and, of the last piece, whatever its last try moved,
\* were it all of it; a read does so only when the device has failed MaxRetries
\* times with that piece.
TransferResult ==
  /\ op \in {"read", "write"} => count + Piece <= size
  /\ op = "returned" => count = moved /\ count <= size
  /\ op = "failed" => count + left = size /\ moved - count \in 0..Piece
  /\ op = "failed" /\ retry > 0 => fails = MaxRetries

\* AndroidUsbDevice.cpp:119, of bulkTransfer: "If any transfer exceeds the
\* timeout the transaction will break and return.  For reads the number of
\* bytes read will be returned".  So a read that has read something does not
\* fail.  (retry is 0 in a write.)
ReadReturnsRead == op = "failed" /\ retry > 0 => count = 0

=============================================================================
