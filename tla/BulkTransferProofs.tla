------------------------- MODULE BulkTransferProofs -------------------------
(***************************************************************************)
(* The arithmetic of bulkRead and bulkWrite is right for every size of a   *)
(* buffer, every size of a piece and every number of retries.  Invariant:  *)
(* count and left add up to the size, the bytes moved are count while a    *)
(* transfer goes on, and each try so far of a piece was a failure.  When   *)
(* it fails, moved is ahead of count by what its last try moved.           *)
(***************************************************************************)
EXTENDS BulkTransfer, TLAPS

TransferInv ==
  /\ TransferTypeOK
  /\ count + left = size
  /\ op \in {"read", "write", "returned"} => moved = count
  /\ op = "failed" => moved - count \in 0..Piece
  /\ op \in {"read", "write", "returned"} => retry = fails
  /\ op = "read" => retry <= MaxRetries
  /\ op = "write" => retry = 0
  /\ op = "failed" /\ retry > 0 => fails = MaxRetries

LEMMA TransferStep ==
  ASSUME TransferInv, [TransferNext]_transferVars
  PROVE  TransferInv'
<1> USE TransferAssumption DEF TransferInv, TransferTypeOK
<1>1. CASE BulkTransfer
  <2>1. PICK length \in Nat : size' = length /\ left' = length
    BY <1>1 DEF BulkTransfer
  <2>2. /\ op' \in {"read", "write"} /\ count' = 0
        /\ retry' = 0 /\ fails' = 0 /\ moved' = 0
    BY <1>1 DEF BulkTransfer
  <2> QED  BY <2>1, <2>2
<1>2. CASE ReadNothing
  BY <1>2 DEF ReadNothing
<1>3. CASE ReadExceeds
  BY <1>3 DEF ReadExceeds, Results, Moves, Piece, Fail
<1>4. CASE ReadFails
  BY <1>4 DEF ReadFails
<1>5. CASE ReadGets
  <2>1. PICK r \in 0..Piece :
          /\ Moves(r)
          /\ count' = count + r /\ left' = left - r
          /\ op' = IF r < Piece \/ left' = 0 THEN "returned" ELSE "read"
    BY <1>5 DEF ReadGets
  <2> QED  BY <1>5, <2>1 DEF ReadGets, Moves, Piece, Fail
<1>6. CASE WritePiece
  <2>1. PICK r \in Results :
          /\ Moves(r)
          /\ IF r = Piece
               THEN /\ count' = count + r /\ left' = left - r
                    /\ op' = IF left' = 0 THEN "returned" ELSE "write"
               ELSE op' = "failed" /\ UNCHANGED <<count, left>>
    BY <1>6 DEF WritePiece
  <2> QED  BY <1>6, <2>1 DEF WritePiece, Results, Moves, Piece, Fail
<1>7. CASE Returns
  BY <1>7 DEF Returns
<1>8. CASE UNCHANGED transferVars
  BY <1>8 DEF transferVars, Piece
<1> QED  BY <1>1, <1>2, <1>3, <1>4, <1>5, <1>6, <1>7, <1>8 DEF TransferNext

\* A synchronous bulk transfer of any length stays in its buffer, and returns
\* the number of bytes that were moved or drops it; a read gives up only after
\* all its retries.
THEOREM TransferIsRight == TransferSpec => []TransferResult
<1>1. TransferInit => TransferInv
  BY TransferAssumption DEF TransferInit, TransferInv, TransferTypeOK
<1>2. TransferInv => TransferResult
  BY TransferAssumption
     DEF TransferInv, TransferTypeOK, TransferResult, Piece
<1>3. TransferInv /\ [TransferNext]_transferVars => TransferInv'
  BY TransferStep
<1> QED  BY <1>1, <1>2, <1>3, PTL DEF TransferSpec

=============================================================================
