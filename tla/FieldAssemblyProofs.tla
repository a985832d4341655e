------------------------- MODULE FieldAssemblyProofs -------------------------
(***************************************************************************)
(* The layout of a frame is right for every height of a field, and with it *)
(* the frames that FieldAssembly enqueues.                                 *)
(*                                                                         *)
(* A frame is complete when as many packets were counted as a field has.   *)
(* That is enough because the count is never more than the number of the   *)
(* next packet: when it is equal, no packet of the field is missing.  The  *)
(* frame id tells the fields apart, but for one that comes with the id of  *)
(* the last: then the count goes on (`mixed'), until the next first packet *)
(* or the next id, and nothing is claimed of it.                           *)
(***************************************************************************)
EXTENDS FieldAssembly, TLAPS

-----------------------------------------------------------------------------
(***************************************************************************)
(* Layout.                                                                 *)
(***************************************************************************)

\* Two parts of each packet are the parts of a field.
LEMMA PacketsMakeField ==
  /\ PacketsPerField \in Nat \ {0}
  /\ 2 * PacketsPerField = LineParts * FieldLines
  BY LayoutAssumption DEF PacketsPerField, LineParts

\* No part of a packet is written beyond the buffer.
THEOREM InBuffer ==
  ASSUME NEW scan_ \in ScanTypes, NEW odd \in BOOLEAN,
         NEW part \in 0..(LineParts * FieldLines - 1)
  PROVE  Offset(scan_, odd, part) \in Buffer(scan_)
<1>1. /\ part \in Nat /\ part \div 3 \in 0..(FieldLines - 1)
      /\ part % 3 \in 0..2 /\ part = 3 * (part \div 3) + (part % 3)
  BY LayoutAssumption DEF LineParts
<1> QED
  BY <1>1, LayoutAssumption
     DEF Offset, LineIndex, Buffer, BufferParts, LineParts

\* Two parts are never written to one place, neither of one field nor of the
\* two fields of an interleaved frame.
THEOREM NoOverlap ==
  ASSUME NEW scan_ \in ScanTypes, NEW p \in Nat, NEW q \in Nat,
         NEW odd1 \in BOOLEAN, NEW odd2 \in BOOLEAN,
         scan_ # "interleaved" => odd1 = odd2,
         Offset(scan_, odd1, p) = Offset(scan_, odd2, q)
  PROVE  p = q /\ odd1 = odd2
<1>1. /\ p \div 3 \in Nat /\ p % 3 \in 0..2 /\ p = 3 * (p \div 3) + (p % 3)
      /\ q \div 3 \in Nat /\ q % 3 \in 0..2 /\ q = 3 * (q \div 3) + (q % 3)
  OBVIOUS
<1>2. CASE scan_ = "interleaved"
  <2>1. LineIndex(p, odd1) = LineIndex(q, odd2) /\ p % 3 = q % 3
    BY <1>1, <1>2 DEF Offset, LineIndex, LineParts
  <2>2. p \div 3 = q \div 3 /\ odd1 = odd2
    BY <1>1, <2>1 DEF LineIndex
  <2> QED  BY <1>1, <2>1, <2>2
<1>3. CASE scan_ # "interleaved"
  BY <1>3 DEF Offset
<1> QED  BY <1>2, <1>3

\* Line k of a field is written to its line of the image, in order.
THEOREM LineInPlace ==
  ASSUME NEW scan_ \in ScanTypes, NEW odd \in BOOLEAN,
         NEW k \in Nat, NEW x \in 0..(LineParts - 1)
  PROVE  Offset(scan_, odd, k * LineParts + x)
           = ImageLine(scan_, odd, k) * LineParts + x
<1>1. (k * 3 + x) \div 3 = k /\ (k * 3 + x) % 3 = x
  BY DEF LineParts
<1> QED  BY <1>1 DEF Offset, LineIndex, ImageLine, LineParts

-----------------------------------------------------------------------------
(***************************************************************************)
(* What a packet does to the buffer.                                       *)
(***************************************************************************)

\* The first n parts of field f are where they belong.
PartsIn(type, c, f, n) ==
  \A part \in 0..(n - 1) : c[Offset(type, Odd(f), part)] = <<f, part>>

\* A packet of a field is two of its parts.
LEMMA PartsOfPacket ==
  ASSUME NEW p \in 0..(PacketsPerField - 1)
  PROVE  /\ 2 * p \in 0..(LineParts * FieldLines - 1)
         /\ 2 * p + 1 \in 0..(LineParts * FieldLines - 1)
<1> USE PacketsMakeField, LayoutAssumption
<1> DEFINE all == LineParts * FieldLines
<1>1. all \in Nat /\ 2 * PacketsPerField = all
  BY DEF LineParts
<1> HIDE DEF all
<1>2. 2 * p \in 0..(all - 1) /\ 2 * p + 1 \in 0..(all - 1)
  BY <1>1
<1> QED  BY <1>2 DEF all

\* The two parts are written to their places and nothing else is.
LEMMA CopiedIs ==
  ASSUME scan \in ScanTypes, pos \in 0..(PacketsPerField - 1),
         field \in Nat, content \in Contents(scan)
  PROVE  LET first == Offset(scan, Odd(field), 2 * pos)
             last  == Offset(scan, Odd(field), 2 * pos + 1)
         IN  /\ Copied \in Contents(scan)
             /\ first # last
             /\ Copied[first] = <<field, 2 * pos>>
             /\ Copied[last] = <<field, 2 * pos + 1>>
             /\ \A b \in Buffer(scan) \ {first, last} : Copied[b] = content[b]
<1> DEFINE first == Offset(scan, Odd(field), 2 * pos)
           last  == Offset(scan, Odd(field), 2 * pos + 1)
<1>1. Odd(field) \in BOOLEAN
  BY DEF Odd
<1>2. pos \in Nat /\ 2 * pos \in Nat /\ 2 * pos + 1 \in Nat
  BY PacketsMakeField
<1>3. first \in Buffer(scan) /\ last \in Buffer(scan)
  BY <1>1, PartsOfPacket, InBuffer
<1>4. first # last
  BY <1>1, <1>2, NoOverlap
<1> HIDE DEF first, last
<1>5. Copied = [b \in Buffer(scan) |->
                  IF b = last THEN <<field, 2 * pos + 1>>
                  ELSE IF b = first THEN <<field, 2 * pos>> ELSE content[b]]
  BY <1>3 DEF Copied, first, last
<1>6. Copied \in Contents(scan)
  BY <1>2, <1>5 DEF Contents
<1> QED  BY <1>3, <1>4, <1>5, <1>6 DEF first, last

\* So is the buffer that is written in the end.
LEMMA WrittenTyped ==
  ASSUME scan \in ScanTypes, pos \in 0..(PacketsPerField - 1),
         field \in Nat, content \in Contents(scan)
  PROVE  Written \in Contents(scan)
  BY CopiedIs DEF Written

\* A packet that follows the parts before it extends them.
LEMMA WrittenExtends ==
  ASSUME scan \in ScanTypes, pos \in 0..(PacketsPerField - 1),
         field \in Nat, content \in Contents(scan),
         scan = "discard" => Odd(field),
         PartsIn(scan, content, field, 2 * pos)
  PROVE  PartsIn(scan, Written, field, 2 * (pos + 1))
<1> SUFFICES ASSUME NEW part \in 0..(2 * (pos + 1) - 1)
             PROVE  Written[Offset(scan, Odd(field), part)] = <<field, part>>
  BY DEF PartsIn
<1>1. Written = Copied
  BY DEF Written
<1>2. pos \in Nat /\ part \in Nat /\ 2 * pos \in Nat /\ 2 * pos + 1 \in Nat
  BY PacketsMakeField
<1>3. CASE part = 2 * pos
  BY <1>1, <1>3, CopiedIs
<1>4. CASE part = 2 * pos + 1
  BY <1>1, <1>4, CopiedIs
<1>5. CASE part \in 0..(2 * pos - 1)
  <2>1. Odd(field) \in BOOLEAN
    BY DEF Odd
  <2>2. Offset(scan, Odd(field), part) # Offset(scan, Odd(field), 2 * pos)
    BY <1>2, <1>5, <2>1, NoOverlap
  <2>3. Offset(scan, Odd(field), part) # Offset(scan, Odd(field), 2 * pos + 1)
    BY <1>2, <1>5, <2>1, NoOverlap
  <2>4. part \in 0..(LineParts * FieldLines - 1)
    <3> DEFINE all == LineParts * FieldLines
    <3>1. 2 * pos \in 0..(all - 1) /\ all \in Int
      BY PartsOfPacket, LayoutAssumption DEF LineParts
    <3> HIDE DEF all
    <3>2. part \in 0..(all - 1)
      BY <1>2, <1>5, <3>1
    <3> QED  BY <3>2 DEF all
  <2>5. Offset(scan, Odd(field), part) \in Buffer(scan)
    BY <2>1, <2>4, InBuffer
  <2>6. content[Offset(scan, Odd(field), part)] = <<field, part>>
    BY <1>5 DEF PartsIn
  <2> QED  BY <1>1, <2>2, <2>3, <2>5, <2>6, CopiedIs
<1>6. part = 2 * pos \/ part = 2 * pos + 1 \/ part \in 0..(2 * pos - 1)
  BY <1>2
<1> QED  BY <1>3, <1>4, <1>5, <1>6

\* All parts of a field are its lines.
LEMMA PartsAreField ==
  ASSUME NEW type \in ScanTypes, NEW c, NEW n \in Nat,
         PartsIn(type, c, n, 2 * PacketsPerField)
  PROVE  FieldIs(type, c, Odd(n), n)
<1> SUFFICES ASSUME NEW k \in 0..(FieldLines - 1), NEW x \in 0..(LineParts - 1)
             PROVE  c[ImageLine(type, Odd(n), k) * LineParts + x]
                      = <<n, k * LineParts + x>>
  BY DEF FieldIs
<1>1. Odd(n) \in BOOLEAN
  BY DEF Odd
<1>2. k \in Nat /\ k * LineParts + x \in 0..(2 * PacketsPerField - 1)
  <2>1. k * LineParts + x \in 0..(LineParts * FieldLines - 1) /\ k \in Nat
    BY LayoutAssumption DEF LineParts
  <2> QED  BY <2>1, PacketsMakeField
<1>3. c[Offset(type, Odd(n), k * LineParts + x)] = <<n, k * LineParts + x>>
  BY <1>2 DEF PartsIn
<1> QED  BY <1>1, <1>2, <1>3, LineInPlace

-----------------------------------------------------------------------------
(***************************************************************************)
(* The inductive invariant.                                                *)
(***************************************************************************)

\* The types, of the frame that was enqueued last as well.
Typed ==
  /\ scan \in ScanTypes
  /\ field \in Nat \ {0} /\ pos \in 0..(DevicePackets - 1) /\ id \in Ids
  /\ restarts \in 0..MaxRestarts
  /\ current \in Ids /\ done \in 0..(CountLimit - 1) /\ second \in BOOLEAN
  /\ flags \in Flags /\ content \in Contents(scan)
  /\ whole \in BOOLEAN /\ clean \in 0..2
  /\ counted \in 0..field /\ mixed \in BOOLEAN

OutTyped ==
  /\ out.scan \in ScanTypes /\ out.flags \in Flags
  /\ out.content \in Contents(out.scan) /\ out.clean \in 0..2
  /\ out.mixed \in BOOLEAN

\* The count is about one field,
Bounded ==
  /\ counted = 0 => done = 0
  /\ ~mixed => done <= PacketsPerField

\* the one that the device sends.
Counting == counted = field /\ ~mixed

\* No more packets of it were counted than could have come.
Counted == Counting => done <= pos

\* When as many were counted, none is missing.
InPlace ==
  /\ Counting /\ done = pos /\ pos < PacketsPerField
  /\ scan = "discard" => Odd(field)
  => PartsIn(scan, content, field, 2 * pos)

\* Nothing of an even field, nothing of a field to come.
NoEven ==
  scan = "discard" =>
    \A b \in Buffer(scan) : content[b] = NoPart \/ Odd(content[b][1])

NoLater == \A b \in Buffer(scan) : content[b][1] <= field

\* When the packets of a field all came they were counted.
WholeCounted ==
  whole /\ pos \in 1..(PacketsPerField - 1) =>
    current = id /\ Counting /\ done = pos

\* The field whose last packet the driver was to see last.
Ended == IF pos < PacketsPerField THEN field - 1 ELSE field

\* After a whole field: either it is the odd half of a frame and is in the
\* buffer, or the driver waits for an odd field.
Paired ==
  scan = "interleaved" /\ clean > 0 =>
    /\ Ended > 0 /\ DevicePackets >= PacketsPerField
    /\ second => Odd(Ended) /\ PartsIn(scan, content, Ended, 2 * PacketsPerField)

IInv ==
  /\ Typed /\ OutTyped /\ Bounded /\ Counted /\ InPlace /\ NoEven /\ NoLater
  /\ WholeCounted /\ Paired

-----------------------------------------------------------------------------
(***************************************************************************)
(* It is inductive.                                                        *)
(***************************************************************************)
LEMMA AtLeastThree == PacketsPerField >= 3 /\ PacketsPerField \in Nat
  BY LayoutAssumption DEF PacketsPerField, LineParts

LEMMA Sixteen == CountLimit \in Nat /\ CountLimit > 1
  BY SMT DEF CountLimit

LEMMA NextCount ==
  ASSUME NEW n \in 0..(CountLimit - 1)
  PROVE  /\ (n + 1) % CountLimit \in 0..(CountLimit - 1)
         /\ n + 1 < CountLimit => (n + 1) % CountLimit = n + 1
  BY Sixteen

LEMMA Initially == Init => IInv
<1> SUFFICES ASSUME Init PROVE IInv
  OBVIOUS
<1> USE DEF Init
<1>1. Fetched(scan) \in Contents(scan)
  BY DEF Fetched, Contents, NoPart
<1>2. Typed
  <2>1. /\ field \in Nat \ {0} /\ pos \in 0..(DevicePackets - 1) /\ id \in Ids
        /\ restarts \in 0..MaxRestarts /\ current \in Ids
        /\ done \in 0..(CountLimit - 1) /\ clean \in 0..2 /\ counted \in 0..field
    BY FieldAssumption, AtLeastThree, Sixteen DEF Ids
  <2>2. /\ second \in BOOLEAN /\ whole \in BOOLEAN /\ mixed \in BOOLEAN
        /\ flags \in Flags
    BY DEF Flags
  <2>3. scan \in ScanTypes /\ content \in Contents(scan)
    BY <1>1
  <2> QED  BY <2>1, <2>2, <2>3 DEF Typed
<1>3. OutTyped
  BY <1>1 DEF OutTyped, NoFrame, Flags
<1>4. Bounded /\ Counted /\ InPlace /\ WholeCounted /\ Paired
  BY AtLeastThree
     DEF Bounded, Counted, Counting, InPlace, WholeCounted, Paired
<1>5. NoEven /\ NoLater
  BY DEF NoEven, NoLater, Fetched, NoPart
<1> QED  BY <1>2, <1>3, <1>4, <1>5 DEF IInv

LEMMA NextId == ASSUME NEW i \in Ids PROVE (i + 1) % NumIds \in Ids
  BY FieldAssumption DEF Ids

\* The device goes on to the next packet or to the next field.
LEMMA Advances ==
  ASSUME Typed, NEW a \in BOOLEAN, Advance(a)
  PROVE  /\ field' \in Nat \ {0} /\ pos' \in 0..(DevicePackets - 1)
         /\ id' \in Ids /\ restarts' \in 0..MaxRestarts
         /\ whole' \in BOOLEAN /\ clean' \in 0..2 /\ field' >= field
         /\ \/ /\ pos + 1 < DevicePackets /\ pos' = pos + 1
               /\ field' = field /\ id' = id /\ whole' = (whole /\ a)
            \/ /\ pos + 1 = DevicePackets /\ pos' = 0
               /\ field' = field + 1 /\ whole' = TRUE
<1>1. /\ field \in Nat \ {0} /\ pos \in Nat /\ pos <= DevicePackets - 1
      /\ id \in Ids /\ DevicePackets \in Nat /\ restarts' \in 0..MaxRestarts
  BY FieldAssumption DEF Advance, Typed
<1>2. clean' \in 0..2
  BY DEF Advance, Typed
<1>3. CASE pos + 1 < DevicePackets
  <2>1. pos' = pos + 1 /\ field' = field /\ id' = id
    BY <1>3 DEF Advance
  <2>2. whole' = (whole /\ a) /\ whole' \in BOOLEAN
    BY <1>3 DEF Advance
  <2>3. pos' \in 0..(DevicePackets - 1) /\ id' \in Ids
    BY <1>1, <1>3, <2>1
  <2>4. field' \in Nat \ {0} /\ field' >= field
    BY <1>1, <2>1
  <2> QED  BY <1>1, <1>2, <1>3, <2>1, <2>2, <2>3, <2>4
<1>4. CASE ~(pos + 1 < DevicePackets)
  <2>1. pos' = 0 /\ field' = field + 1 /\ id' = (id + 1) % NumIds
    BY <1>4 DEF Advance
  <2>2. whole' = TRUE
    BY <1>4 DEF Advance
  <2>3. pos + 1 = DevicePackets /\ pos' \in 0..(DevicePackets - 1)
    BY <1>1, <1>4, <2>1
  <2>4. id' \in Ids
    BY <1>1, <2>1, NextId
  <2>5. field' \in Nat \ {0} /\ field' >= field
    BY <1>1, <2>1
  <2> QED  BY <1>1, <1>2, <2>1, <2>2, <2>3, <2>4, <2>5
<1> QED  BY <1>3, <1>4

LEMMA ThisField ==
  ASSUME Typed, NEW a \in BOOLEAN, Advance(a), field' = field
  PROVE  pos' = pos + 1 /\ id' = id /\ whole' = (whole /\ a)
<1>1. field \in Nat /\ field' # field + 1
  BY DEF Typed
<1> QED  BY <1>1, Advances

\* What holds of the count and of the buffer after a packet was processed.
LEMMA PacketCounted ==
  ASSUME IInv, Advance(TRUE), pos \in 0..(PacketsPerField - 1), Counts
  PROVE  /\ Bounded' /\ Counted' /\ WholeCounted'
         /\ done' \in 0..(CountLimit - 1)
         /\ counted' \in 0..field' /\ mixed' \in BOOLEAN
         /\ ~mixed' /\ done' = pos + 1 => pos = 0 \/ (Counting /\ done = pos)
<1> USE AtLeastThree DEF IInv
<1>1. /\ pos \in Nat /\ field \in Nat \ {0} /\ done \in 0..(CountLimit - 1)
      /\ counted \in Nat /\ mixed \in BOOLEAN
  BY FieldAssumption DEF Typed
<1>2. done' = DoneNow /\ counted' = field /\ mixed' = Mixes /\ current' = id
  BY DEF Counts
<1>3. done' \in 0..(CountLimit - 1)
  BY <1>1, <1>2, NextCount, Sixteen DEF DoneNow
<1>4. /\ Begins => done' = 1 /\ ~mixed'
      /\ ~Begins /\ ~mixed' =>
           pos > 0 /\ done' = done + 1 /\ done <= pos /\ (Counting \/ done = 0)
  <2>1. Begins => done' = 1 /\ ~mixed'
    BY <1>2 DEF DoneNow, Mixes
  <2>2. ASSUME ~Begins, ~mixed'
        PROVE  pos > 0 /\ done' = done + 1 /\ done <= pos
               /\ (Counting \/ done = 0)
    <3>1. pos > 0 /\ done' = (done + 1) % CountLimit
      BY <1>1, <1>2, <2>2 DEF Begins, DoneNow
    <3>2. ~mixed /\ (counted = 0 \/ counted = field)
      BY <1>2, <2>2 DEF Mixes
    <3>3. (Counting \/ done = 0) /\ done <= pos
      BY <1>1, <3>1, <3>2 DEF Bounded, Counted, Counting
    <3>4. done + 1 < CountLimit
      BY <1>1, <3>3, FieldAssumption, Sixteen
    <3> QED  BY <1>1, <3>1, <3>3, <3>4, NextCount
  <2> QED  BY <2>1, <2>2
<1>5. ~mixed' => done' <= pos + 1
  BY <1>1, <1>4
<1>6. Bounded'
  <2>1. counted' # 0
    BY <1>1, <1>2
  <2>2. ~mixed' => done' <= PacketsPerField
    <3>1. done' \in Nat /\ pos + 1 <= PacketsPerField
      BY <1>1, <1>3, Sixteen
    <3> QED  BY <1>1, <1>5, <3>1
  <2> QED  BY <2>1, <2>2 DEF Bounded
<1>7. Counted'
  <2>1. SUFFICES ASSUME counted' = field', ~mixed' PROVE done' <= pos'
    BY DEF Counted, Counting
  <2>2. pos' = pos + 1
    BY <1>2, <2>1, ThisField
  <2> QED  BY <1>5, <2>1, <2>2
<1>8. ~mixed' /\ done' = pos + 1 => pos = 0 \/ (Counting /\ done = pos)
  BY <1>1, <1>4
<1>9. WholeCounted'
  <2>1. SUFFICES ASSUME whole', pos' \in 1..(PacketsPerField - 1)
                 PROVE  /\ current' = id' /\ counted' = field' /\ ~mixed'
                        /\ done' = pos'
    BY DEF WholeCounted, Counting
  <2>2. pos' = pos + 1 /\ field' = field /\ id' = id /\ whole' = whole
    <3>1. pos' # 0
      BY <2>1
    <3> QED  BY <3>1, Advances DEF Typed
  <2>3. CASE pos = 0
    BY <1>2, <1>4, <2>2, <2>3 DEF Begins
  <2>4. CASE pos > 0
    <3>1. whole /\ pos \in 1..(PacketsPerField - 1)
      BY <1>1, <2>1, <2>2, <2>4
    <3>2. current = id /\ Counting /\ done = pos
      BY <3>1 DEF WholeCounted
    <3>3. ~Begins /\ ~mixed'
      <4>1. ~Begins
        BY <2>4, <3>2 DEF Begins
      <4>2. ~Mixes
        BY <3>2 DEF Mixes, Counting
      <4> QED  BY <1>2, <4>1, <4>2
    <3>4. done' = done + 1
      BY <1>4, <3>3
    <3> QED  BY <1>2, <2>2, <3>2, <3>3, <3>4
  <2> QED  BY <1>1, <2>3, <2>4
<1>10. counted' \in 0..field' /\ mixed' \in BOOLEAN
  <2>1. field' = field \/ field' = field + 1
    BY Advances
  <2>2. counted' \in 0..field'
    BY <1>1, <1>2, <2>1
  <2>3. mixed' \in BOOLEAN
    BY <1>1, <1>2 DEF Mixes, Begins
  <2> QED  BY <2>2, <2>3
<1> QED  BY <1>3, <1>6, <1>7, <1>8, <1>9, <1>10

\* The packet is in the buffer: nothing of another kind of field, and all of
\* the field so far if as many packets were counted.
LEMMA PacketWritten ==
  ASSUME IInv, Advance(TRUE), pos \in 0..(PacketsPerField - 1), Counts
  PROVE  /\ Written \in Contents(scan)
         /\ scan = "discard" =>
              \A b \in Buffer(scan) : Written[b] = NoPart \/ Odd(Written[b][1])
         /\ \A b \in Buffer(scan) : Written[b][1] <= field
         /\ (~mixed' /\ done' = pos + 1 /\ (scan = "discard" => Odd(field)))
              => PartsIn(scan, Written, field, 2 * (pos + 1))
<1> USE AtLeastThree DEF IInv
<1>1. /\ scan \in ScanTypes /\ pos \in Nat /\ field \in Nat
      /\ content \in Contents(scan)
  BY DEF Typed
<1>2. Written \in Contents(scan)
  BY <1>1, WrittenTyped
<1> DEFINE first == Offset(scan, Odd(field), 2 * pos)
           last  == Offset(scan, Odd(field), 2 * pos + 1)
<1>3. Written = content \/ (Written = Copied /\ (scan = "discard" => Odd(field)))
  BY DEF Written
<1>4. \A b \in Buffer(scan) :
        \/ Written[b] = content[b]
        \/ /\ scan = "discard" => Odd(field)
           /\ Written[b] = <<field, 2 * pos>> \/ Written[b] = <<field, 2 * pos + 1>>
  BY <1>1, <1>3, CopiedIs
<1>5. scan = "discard" =>
        \A b \in Buffer(scan) : Written[b] = NoPart \/ Odd(Written[b][1])
  BY <1>4 DEF NoEven
<1>6. \A b \in Buffer(scan) : Written[b][1] <= field
  BY <1>1, <1>4 DEF NoLater
<1>7. ASSUME ~mixed', done' = pos + 1, scan = "discard" => Odd(field)
      PROVE  PartsIn(scan, Written, field, 2 * (pos + 1))
  <2>1. PartsIn(scan, content, field, 2 * pos)
    <3>1. CASE pos = 0
      <4>1. 0..(2 * pos - 1) = {}
        BY <3>1
      <4> QED  BY <4>1 DEF PartsIn
    <3>2. CASE Counting /\ done = pos
      <4>1. pos < PacketsPerField
        BY <1>1
      <4> QED  BY <1>7, <3>2, <4>1 DEF InPlace
    <3> QED  BY <1>7, <3>1, <3>2, PacketCounted
  <2> QED  BY <1>1, <1>7, <2>1, WrittenExtends
<1> QED  BY <1>2, <1>5, <1>6, <1>7

\* A field that was counted whole is whole.
LEMMA LastPacketWhole ==
  ASSUME IInv, Advance(TRUE), pos = PacketsPerField - 1,
         Counts, ~mixed', done' = PacketsPerField,
         scan = "discard" => Odd(field)
  PROVE  /\ PartsIn(scan, Written, field, 2 * PacketsPerField)
         /\ FieldIs(scan, Written, Odd(field), field)
<1>1. pos \in 0..(PacketsPerField - 1) /\ done' = pos + 1
  BY AtLeastThree
<1>2. 2 * (pos + 1) = 2 * PacketsPerField
  BY AtLeastThree
<1>3. PartsIn(scan, Written, field, 2 * PacketsPerField)
  BY <1>1, <1>2, PacketWritten
<1>4. scan \in ScanTypes /\ field \in Nat
  BY DEF IInv, Typed
<1> QED  BY <1>3, <1>4, PartsAreField

\* The packets of a field leave the lines of the field before it alone.
LEMMA OtherFieldStays ==
  ASSUME IInv, pos \in 0..(PacketsPerField - 1), scan = "interleaved",
         NEW n \in Nat, Odd(n) # Odd(field),
         PartsIn(scan, content, n, 2 * PacketsPerField)
  PROVE  PartsIn(scan, Written, n, 2 * PacketsPerField)
<1> SUFFICES ASSUME NEW part \in 0..(2 * PacketsPerField - 1)
             PROVE  Written[Offset(scan, Odd(n), part)] = <<n, part>>
  BY DEF PartsIn
<1>1. /\ scan \in ScanTypes /\ field \in Nat /\ content \in Contents(scan)
      /\ pos \in Nat /\ 2 * pos \in Nat /\ 2 * pos + 1 \in Nat /\ part \in Nat
  BY AtLeastThree DEF IInv, Typed
<1>2. Odd(n) \in BOOLEAN /\ Odd(field) \in BOOLEAN
  BY DEF Odd
<1>3. part \in 0..(LineParts * FieldLines - 1)
  BY PacketsMakeField
<1>4. Offset(scan, Odd(n), part) \in Buffer(scan)
  BY <1>1, <1>2, <1>3, InBuffer
<1>5. /\ Offset(scan, Odd(n), part) # Offset(scan, Odd(field), 2 * pos)
      /\ Offset(scan, Odd(n), part) # Offset(scan, Odd(field), 2 * pos + 1)
  BY <1>1, <1>2, NoOverlap
<1>6. content[Offset(scan, Odd(n), part)] = <<n, part>>
  BY DEF PartsIn
<1>7. Written = Copied
  BY DEF Written
<1> QED  BY <1>1, <1>4, <1>5, <1>6, <1>7, CopiedIs

-----------------------------------------------------------------------------
\* What is promised of the frame that was enqueued last.
Promised ==
  CompleteIsOneField /\ DiscardsEven /\ LastFieldWhole /\ PairsAgain

LEMMA OutStays ==
  ASSUME OutTyped, Promised, field \in Nat, field' \in Nat, field' >= field,
         out' = out
  PROVE  OutTyped' /\ Promised'
<1>1. OutTyped'
  BY DEF OutTyped
<1>2. \A n \in 1..(field + 1) : n \in 1..(field' + 1)
  <2>1. PICK m \in Nat : field' = m /\ m >= field
    OBVIOUS
  <2> QED  BY <2>1
<1>3. CompleteIsOneField'
  BY <1>2 DEF Promised, CompleteIsOneField
<1>4. DiscardsEven'
  BY DEF Promised, DiscardsEven
<1>5. LastFieldWhole'
  BY <1>2 DEF Promised, LastFieldWhole
<1>6. PairsAgain'
  BY <1>2 DEF Promised, PairsAgain
<1> QED  BY <1>1, <1>3, <1>4, <1>5, <1>6 DEF Promised

LEMMA NeighboursDiffer ==
  ASSUME NEW n \in Nat \ {0} PROVE Odd(n - 1) <=> ~Odd(n)
  BY DEF Odd

\* The part of the invariant that is about the buffer, after a packet.
LEMMA BufferKept ==
  ASSUME IInv, Advance(TRUE), scan' = scan,
         pos \in 0..(PacketsPerField - 1), Counts, content' = Written
  PROVE  InPlace' /\ NoEven' /\ NoLater' /\ content' \in Contents(scan')
<1>1. /\ field \in Nat /\ pos \in Nat
      /\ \E m \in Nat : field' = m /\ m >= field
  <2>1. field' \in Nat \ {0} /\ field' >= field
    BY Advances DEF IInv
  <2> QED  BY <2>1, AtLeastThree DEF IInv, Typed
<1>2. content' \in Contents(scan')
  BY PacketWritten
<1>3. NoEven'
  BY PacketWritten DEF NoEven
<1>4. NoLater'
  <2>1. \A b \in Buffer(scan) : content'[b][1] <= field
    BY PacketWritten
  <2>2. \A b \in Buffer(scan) : content'[b][1] \in Nat
    BY <1>2 DEF Contents
  <2> QED  BY <1>1, <2>1, <2>2 DEF NoLater
<1>5. InPlace'
  <2>1. SUFFICES ASSUME counted' = field', ~mixed', done' = pos',
                        scan' = "discard" => Odd(field')
                 PROVE  PartsIn(scan', content', field', 2 * pos')
    BY DEF InPlace, Counting
  <2>2. pos' = pos + 1 /\ field' = field
    BY <2>1, ThisField DEF IInv, Counts
  <2>3. PartsIn(scan, Written, field, 2 * (pos + 1))
    BY <2>1, <2>2, PacketWritten
  <2> QED  BY <2>2, <2>3
<1> QED  BY <1>2, <1>3, <1>4, <1>5

\* A packet in the middle of a field.
LEMMA PacketStep ==
  ASSUME IInv, Promised, Advance(TRUE), scan' = scan, ProcessPacket
  PROVE  IInv' /\ Promised'
<1> USE AtLeastThree
<1>1. /\ pos \in 0..(PacketsPerField - 1) /\ pos \in Nat
      /\ Counts /\ current' = id /\ content' = Written
      /\ UNCHANGED <<second, out>>
  BY DEF ProcessPacket, Counts, IInv, Typed
<1>2. /\ Bounded' /\ Counted' /\ WholeCounted'
      /\ done' \in 0..(CountLimit - 1) /\ counted' \in 0..field' /\ mixed' \in BOOLEAN
  BY <1>1, PacketCounted
<1>3. InPlace' /\ NoEven' /\ NoLater' /\ content' \in Contents(scan')
  BY <1>1, BufferKept
<1>4. Typed'
  <2>1. flags' \in Flags
    BY DEF ProcessPacket, IInv, Typed, Flags
  <2>2. /\ field' \in Nat \ {0} /\ pos' \in 0..(DevicePackets - 1)
        /\ id' \in Ids /\ restarts' \in 0..MaxRestarts
        /\ whole' \in BOOLEAN /\ clean' \in 0..2
    BY Advances DEF IInv
  <2>3. scan' \in ScanTypes /\ current' \in Ids /\ second' \in BOOLEAN
    BY <1>1 DEF IInv, Typed
  <2> QED  BY <1>2, <1>3, <2>1, <2>2, <2>3 DEF Typed
<1>5. OutTyped' /\ Promised'
  BY <1>1, Advances, OutStays DEF IInv, Typed
<1>6. Paired'
  <2>1. SUFFICES ASSUME scan = "interleaved", clean' > 0
                 PROVE  /\ Ended' > 0 /\ DevicePackets >= PacketsPerField
                        /\ second => /\ Odd(Ended')
                                     /\ PartsIn(scan, content', Ended',
                                                2 * PacketsPerField)
    BY <1>1 DEF Paired
  <2>2. clean' = clean /\ pos < PacketsPerField - 1
    BY DEF Advance, ProcessPacket
  <2>3. /\ Ended > 0 /\ DevicePackets >= PacketsPerField /\ Ended = field - 1
        /\ second => Odd(Ended) /\ PartsIn(scan, content, Ended,
                                            2 * PacketsPerField)
    BY <1>1, <2>1, <2>2 DEF IInv, Paired, Ended
  <2>4. pos' = pos + 1 /\ field' = field
    BY <1>1, <2>2, <2>3, FieldAssumption DEF Advance
  <2>5. Ended' = Ended
    BY <1>1, <2>2, <2>3, <2>4 DEF Ended
  <2>6. field \in Nat \ {0} /\ field - 1 \in Nat
    BY DEF IInv, Typed
  <2>7. ASSUME second PROVE PartsIn(scan, Written, Ended, 2 * PacketsPerField)
    <3>1. Odd(Ended) # Odd(field)
      BY <2>3, <2>6, <2>7, NeighboursDiffer
    <3> QED  BY <1>1, <2>1, <2>3, <2>6, <2>7, <3>1, OtherFieldStays
  <2> QED  BY <1>1, <2>3, <2>5, <2>7
<1> QED  BY <1>2, <1>3, <1>4, <1>5, <1>6 DEF IInv

\* An empty buffer satisfies the invariant.
LEMMA FetchedIsEmpty ==
  ASSUME NEW type \in ScanTypes
  PROVE  /\ Fetched(type) \in Contents(type)
         /\ \A b \in Buffer(type) : Fetched(type)[b] = NoPart
  BY DEF Fetched, Contents, NoPart

\* A field that arrived whole was counted whole.
LEMMA WholeCompletes ==
  ASSUME IInv, whole, pos = PacketsPerField - 1
  PROVE  DoneNow = PacketsPerField /\ ~Mixes
<1>1. pos \in 1..(PacketsPerField - 1)
  BY AtLeastThree
<1>2. current = id /\ Counting /\ done = pos
  BY <1>1 DEF IInv, WholeCounted
<1>3. DoneNow = (pos + 1) % CountLimit
  BY <1>1, <1>2 DEF DoneNow, Begins
<1>4. DoneNow = PacketsPerField
  BY <1>1, <1>2, <1>3, AtLeastThree, FieldAssumption, NextCount, Sixteen
<1> QED  BY <1>2, <1>4 DEF Mixes, Counting

\* The frame that is enqueued at the end of a field keeps what was promised.
LEMMA EnqueuedIsRight ==
  ASSUME IInv, Advance(TRUE), scan' = scan,
         pos = PacketsPerField - 1, Counts, Submits,
         out' = [scan |-> scan, flags |-> Outcome, content |-> Written,
                 clean |-> clean', mixed |-> Mixes]
  PROVE  OutTyped' /\ Promised'
<1>1. /\ pos \in 0..(PacketsPerField - 1) /\ done' = DoneNow
      /\ PacketsPerField = pos + 1 /\ mixed' = Mixes /\ mixed' \in BOOLEAN
  BY AtLeastThree, PacketCounted DEF Counts
<1>2. /\ scan \in ScanTypes /\ field \in Nat \ {0} /\ second \in BOOLEAN
      /\ clean \in 0..2 /\ whole \in BOOLEAN
  BY DEF IInv, Typed
<1>3. \E m \in Nat : field' = m /\ m >= field
  <2>1. field' \in Nat \ {0} /\ field' >= field
    BY Advances DEF IInv
  <2> QED  BY <1>2, <2>1
<1>4. field \in 1..(field' + 1)
  <2>1. PICK m \in Nat : field' = m /\ m >= field
    BY <1>3
  <2> QED  BY <1>2, <2>1
<1>5. Written \in Contents(scan)
  BY <1>1, PacketWritten
<1>6. OutTyped'
  <2>1. clean' \in 0..2
    BY Advances DEF IInv
  <2> QED  BY <1>1, <1>2, <1>5, <2>1 DEF OutTyped, Outcome, Flags
<1>7. out'.flags = "complete" => done' = PacketsPerField
  BY <1>1 DEF Outcome
<1>8. scan = "discard" => Odd(field)
  BY DEF Submits
<1>9. out'.flags = "complete" /\ ~out'.mixed =>
        FieldIs(scan, Written, Odd(field), field)
  BY <1>1, <1>7, <1>8, LastPacketWhole
<1>10. CompleteIsOneField'
  BY <1>4, <1>8, <1>9 DEF CompleteIsOneField
<1>11. DOMAIN Written = Buffer(scan)
  BY <1>5 DEF Contents
<1>12. DiscardsEven'
  BY <1>1, <1>11, PacketWritten DEF DiscardsEven
<1>13. LastFieldWhole'
  <2>1. \A b \in DOMAIN Written : Written[b][1] <= field
    BY <1>1, <1>11, PacketWritten
  <2> QED  BY <1>4, <1>9, <2>1 DEF LastFieldWhole
<1>14. PairsAgain'
  <2>1. SUFFICES ASSUME scan = "interleaved", clean' = 2
                 PROVE  \E n \in 1..(field' + 1) :
                          /\ Odd(n) /\ FieldIs(scan, Written, TRUE, n)
                          /\ FieldIs(scan, Written, FALSE, n + 1)
                          /\ Outcome = "complete"
    BY DEF PairsAgain
  <2>2. whole /\ clean > 0 /\ second
    BY <1>1, <1>2, <2>1 DEF Advance, Submits
  <2>3. Outcome = "complete" /\ FieldIs(scan, Written, Odd(field), field)
    <3>1. DoneNow = PacketsPerField /\ ~Mixes
      BY <2>2, WholeCompletes
    <3> QED  BY <1>9, <3>1 DEF Outcome
  <2>4. /\ Ended = field - 1 /\ Ended \in Nat \ {0} /\ Odd(Ended)
        /\ PartsIn(scan, content, Ended, 2 * PacketsPerField)
    BY <1>1, <1>2, <2>1, <2>2, AtLeastThree DEF IInv, Paired, Ended
  <2>5. ~Odd(field)
    BY <1>2, <2>4, NeighboursDiffer
  <2>6. PartsIn(scan, Written, Ended, 2 * PacketsPerField)
    BY <1>1, <2>1, <2>4, <2>5, OtherFieldStays
  <2>7. FieldIs(scan, Written, Odd(Ended), Ended)
    BY <1>2, <2>4, <2>6, PartsAreField
  <2>8. Odd(Ended) = TRUE /\ Odd(field) = FALSE /\ Ended + 1 = field
    BY <1>2, <2>4, <2>5 DEF Odd
  <2>9. Ended \in 1..(field' + 1)
    <3>1. PICK m \in Nat : field' = m /\ m >= field
      BY <1>3
    <3> QED  BY <1>2, <2>4, <3>1
  <2> QED  BY <2>3, <2>4, <2>7, <2>8, <2>9
<1> QED  BY <1>6, <1>10, <1>12, <1>13, <1>14 DEF Promised

\* The last packet of a field.
LEMMA LastPacketStep ==
  ASSUME IInv, Promised, Advance(TRUE), scan' = scan, ProcessLastPacket
  PROVE  IInv' /\ Promised'
<1>1. /\ pos = PacketsPerField - 1 /\ pos \in 0..(PacketsPerField - 1)
      /\ Counts /\ current' = id /\ done' = DoneNow /\ mixed' = Mixes
      /\ second' = SecondNow
      /\ content' = Written \/ content' = Fetched(scan)
      /\ flags' \in Flags
  BY AtLeastThree
     DEF ProcessLastPacket, AddCompleteFrameToQueue, Counts, Flags, Outcome
<1>2. /\ Bounded' /\ Counted' /\ WholeCounted'
      /\ done' \in 0..(CountLimit - 1) /\ counted' \in 0..field' /\ mixed' \in BOOLEAN
  BY <1>1, PacketCounted, AtLeastThree
<1>3. scan \in ScanTypes /\ field \in Nat \ {0} /\ second \in BOOLEAN
  BY DEF IInv, Typed
<1>4. \E m \in Nat : field' = m /\ m >= field
  <2>1. field' \in Nat \ {0} /\ field' >= field
    BY Advances DEF IInv
  <2> QED  BY <1>3, <2>1
<1>5. InPlace' /\ NoEven' /\ NoLater' /\ content' \in Contents(scan')
  <2>1. CASE content' = Written
    BY <1>1, <2>1, BufferKept
  <2>2. CASE content' = Fetched(scan)
    <3>1. content' \in Contents(scan')
      BY <1>3, <2>2, FetchedIsEmpty
    <3>2. NoEven'
      BY <1>3, <2>2, FetchedIsEmpty DEF NoEven
    <3>3. NoLater'
      <4>1. \A b \in Buffer(scan) : content'[b][1] = 0
        BY <1>3, <2>2, FetchedIsEmpty DEF NoPart
      <4>2. PICK m \in Nat : field' = m
        BY <1>4
      <4> QED  BY <4>1, <4>2 DEF NoLater
    <3>4. InPlace'
      <4>1. SUFFICES ASSUME counted' = field' PROVE ~(pos' < PacketsPerField)
        BY DEF InPlace, Counting
      <4>2. pos' = pos + 1
        BY <1>1, <4>1, ThisField DEF IInv, Counts
      <4> QED  BY <1>1, <4>2, AtLeastThree
    <3> QED  BY <3>1, <3>2, <3>3, <3>4
  <2> QED  BY <1>1, <2>1, <2>2
<1>6. Typed'
  <2>1. /\ field' \in Nat \ {0} /\ pos' \in 0..(DevicePackets - 1)
        /\ id' \in Ids /\ restarts' \in 0..MaxRestarts
        /\ whole' \in BOOLEAN /\ clean' \in 0..2
    BY Advances DEF IInv
  <2>2. scan' \in ScanTypes /\ current' \in Ids
    BY <1>1 DEF IInv, Typed
  <2>3. second' \in BOOLEAN
    <3>1. Odd(field) \in BOOLEAN
      BY DEF Odd
    <3> QED  BY <1>1, <1>3, <3>1 DEF SecondNow
  <2> QED  BY <1>1, <1>2, <1>5, <2>1, <2>2, <2>3 DEF Typed
<1>7. Paired'
  <2>1. SUFFICES ASSUME scan = "interleaved", clean' > 0
                 PROVE  /\ Ended' > 0 /\ DevicePackets >= PacketsPerField
                        /\ second' => /\ Odd(Ended')
                                      /\ PartsIn(scan, content', Ended',
                                                 2 * PacketsPerField)
    BY DEF Paired
  <2>2. whole
    BY <1>1, <2>1 DEF Advance
  <2>3. DevicePackets >= PacketsPerField /\ pos + 1 = PacketsPerField
    BY <1>1, AtLeastThree, FieldAssumption DEF IInv, Typed
  <2>4. Ended' = field
    <3>1. CASE pos + 1 < DevicePackets
      <4>1. pos' = pos + 1 /\ field' = field
        BY <3>1 DEF Advance
      <4> QED  BY <2>3, <4>1, AtLeastThree DEF Ended
    <3>2. CASE ~(pos + 1 < DevicePackets)
      <4>1. pos' = 0 /\ field' = field + 1
        BY <3>2 DEF Advance
      <4> QED  BY <1>3, <4>1, AtLeastThree DEF Ended
    <3> QED  BY <3>1, <3>2
  <2>5. ASSUME second'
        PROVE  Odd(field) /\ PartsIn(scan, content', field, 2 * PacketsPerField)
    <3>1. ~second /\ Odd(field)
      BY <1>1, <2>1, <2>5 DEF SecondNow
    <3>2. content' = Written
      BY <2>1, <3>1 DEF ProcessLastPacket, Submits
    <3>3. done' = PacketsPerField /\ ~mixed'
      BY <1>1, <2>2, WholeCompletes
    <3> QED  BY <1>1, <2>1, <3>1, <3>2, <3>3, LastPacketWhole
  <2> QED  BY <1>3, <2>3, <2>4, <2>5
<1>8. OutTyped' /\ Promised'
  <2>1. CASE out' = out
    <3>1. field \in Nat /\ field' \in Nat /\ field' >= field
      BY Advances DEF IInv, Typed
    <3> QED  BY <2>1, <3>1, OutStays DEF IInv
  <2>2. CASE out' # out
    <3>1. /\ Submits
          /\ out' = [scan |-> scan, flags |-> Outcome, content |-> Written,
                     clean |-> clean', mixed |-> Mixes]
      BY <2>2 DEF ProcessLastPacket, AddCompleteFrameToQueue
    <3> QED  BY <1>1, <3>1, EnqueuedIsRight
  <2> QED  BY <2>1, <2>2
<1> QED  BY <1>2, <1>5, <1>6, <1>7, <1>8 DEF IInv

\* A packet that is lost, or has a number beyond the field.
LEMMA QuietStep ==
  ASSUME IInv, Promised, NEW a \in BOOLEAN, Advance(a), scan' = scan,
         a => pos >= PacketsPerField,
         UNCHANGED <<current, done, second, inputVars, countVars, out>>
  PROVE  IInv' /\ Promised'
<1> USE AtLeastThree
<1>1. /\ pos \in Nat /\ field \in Nat \ {0} /\ done \in Nat
      /\ counted \in 0..field /\ scan \in ScanTypes
  BY DEF IInv, Typed
<1>2. /\ current' = current /\ done' = done /\ second' = second
      /\ flags' = flags /\ content' = content /\ out' = out
      /\ counted' = counted /\ mixed' = mixed
  BY DEF inputVars, countVars
<1>3. \/ pos' = pos + 1 /\ field' = field
      \/ pos' = 0 /\ field' = field + 1
  BY Advances DEF IInv
<1>4. Typed'
  <2>1. /\ field' \in Nat \ {0} /\ pos' \in 0..(DevicePackets - 1)
        /\ id' \in Ids /\ restarts' \in 0..MaxRestarts
        /\ whole' \in BOOLEAN /\ clean' \in 0..2
    BY Advances DEF IInv
  <2>2. counted' \in 0..field'
    BY <1>1, <1>2, <1>3
  <2> QED  BY <1>2, <2>1, <2>2 DEF IInv, Typed
<1>5. OutTyped' /\ Promised'
  <2>1. field \in Nat /\ field' \in Nat /\ field' >= field
    BY Advances DEF IInv, Typed
  <2> QED  BY <1>2, <2>1, OutStays DEF IInv
<1>6. Bounded'
  BY <1>2 DEF IInv, Bounded
<1>7. counted' = field' /\ ~mixed' => pos' = pos + 1 /\ done <= pos
  BY <1>1, <1>2, <1>3 DEF IInv, Counted, Counting
<1>8. Counted'
  BY <1>1, <1>2, <1>7 DEF Counted, Counting
<1>9. InPlace'
  <2>1. SUFFICES ASSUME counted' = field', ~mixed', done' = pos' PROVE FALSE
    BY DEF InPlace, Counting
  <2> QED  BY <1>1, <1>2, <1>7, <2>1
<1>10. NoEven'
  BY <1>2 DEF IInv, NoEven
<1>11. NoLater'
  <2>1. \A b \in Buffer(scan) : content[b][1] \in Nat
    BY DEF IInv, Typed, Contents
  <2> QED  BY <1>1, <1>2, <1>3, <2>1 DEF IInv, NoLater
<1>12. WholeCounted'
  <2>1. SUFFICES ASSUME whole', pos' \in 1..(PacketsPerField - 1) PROVE FALSE
    BY DEF WholeCounted
  <2>2. pos' = pos + 1
    BY <1>1, <1>3, <2>1
  <2>3. whole' = (whole /\ a)
    <3>1. pos' # 0
      BY <2>1
    <3> QED  BY <3>1, Advances DEF IInv
  <2>4. pos >= PacketsPerField
    BY <2>1, <2>3
  <2> QED  BY <1>1, <2>1, <2>2, <2>4
<1>13. Paired'
  <2>1. SUFFICES ASSUME scan = "interleaved", clean' > 0
                 PROVE  /\ Ended' > 0 /\ DevicePackets >= PacketsPerField
                        /\ second => /\ Odd(Ended')
                                     /\ PartsIn(scan, content, Ended',
                                                2 * PacketsPerField)
    BY <1>2 DEF Paired
  <2>2. a /\ clean' = clean /\ pos >= PacketsPerField
    BY <1>1, <2>1 DEF Advance
  <2>3. Ended = field /\ Ended' = field
    BY <1>1, <1>3, <2>2 DEF Ended
  <2> QED  BY <2>1, <2>2, <2>3 DEF IInv, Paired
<1> QED  BY <1>4, <1>5, <1>6, <1>8, <1>9, <1>10, <1>11, <1>12, <1>13 DEF IInv

LEMMA RestartStep ==
  ASSUME IInv, Promised, Restart
  PROVE  IInv' /\ Promised'
<1> USE AtLeastThree
<1>1. /\ current' = current /\ done' = done /\ second' = second /\ out' = out
      /\ scan' \in ScanTypes /\ content' = Fetched(scan')
      /\ flags' = "start" /\ clean' = 0
      /\ counted' = counted /\ mixed' = mixed
  BY DEF Restart, countVars
<1>2. field \in Nat \ {0} /\ counted \in 0..field
  BY DEF IInv, Typed
<1>3. id' \in Ids /\ (field' = field + 1 \/ field' = field + 2)
  BY DEF Restart
<1>4. counted' # field' /\ counted' \in 0..field'
  BY <1>1, <1>2, <1>3
<1>5. Typed'
  <2>1. content' \in Contents(scan')
    BY <1>1, FetchedIsEmpty
  <2>2. whole' \in BOOLEAN /\ pos' \in 0..(DevicePackets - 1)
    BY DEF Restart
  <2>3. restarts' \in 0..MaxRestarts
    BY FieldAssumption DEF Restart, IInv, Typed
  <2>4. field' \in Nat \ {0} /\ id' \in Ids
    BY <1>2, <1>3
  <2>5. /\ current' \in Ids /\ done' \in 0..(CountLimit - 1) /\ mixed' \in BOOLEAN
        /\ second' \in BOOLEAN /\ flags' \in Flags /\ clean' \in 0..2
    BY <1>1 DEF IInv, Typed, Flags
  <2> QED  BY <1>1, <1>4, <2>1, <2>2, <2>3, <2>4, <2>5 DEF Typed
<1>6. OutTyped' /\ Promised'
  <2>1. field \in Nat /\ field' \in Nat /\ field' >= field
    BY <1>2, <1>3
  <2> QED  BY <1>1, <2>1, OutStays DEF IInv
<1>7. Bounded'
  BY <1>1 DEF IInv, Bounded
<1>8. Counted' /\ InPlace'
  BY <1>4 DEF Counted, Counting, InPlace
<1>9. NoEven'
  BY <1>1, FetchedIsEmpty DEF NoEven
<1>10. NoLater'
  <2>1. \A b \in Buffer(scan') : content'[b][1] = 0
    BY <1>1, FetchedIsEmpty DEF NoPart
  <2> QED  BY <1>2, <1>3, <2>1 DEF NoLater
<1>11. WholeCounted'
  <2>1. whole' => pos' = 0
    BY DEF Restart
  <2> QED  BY <2>1 DEF WholeCounted
<1>12. Paired'
  BY <1>1 DEF Paired
<1> QED  BY <1>5, <1>6, <1>7, <1>8, <1>9, <1>10, <1>11, <1>12 DEF IInv

LEMMA Stutters ==
  ASSUME IInv, Promised, UNCHANGED vars PROVE IInv' /\ Promised'
<1> USE DEF vars, deviceVars, inputVars, ghostVars, countVars, Counting
<1>1. Typed' /\ OutTyped' /\ Bounded' /\ Counted' /\ NoEven' /\ NoLater'
  BY DEF IInv, Typed, OutTyped, Bounded, Counted, NoEven, NoLater
<1>2. InPlace' /\ WholeCounted'
  BY DEF IInv, InPlace, WholeCounted, PartsIn
<1>3. Paired'
  BY DEF IInv, Paired, Ended, PartsIn
<1>4. Promised'
  BY DEF Promised, CompleteIsOneField, DiscardsEven, LastFieldWhole, PairsAgain,
         FieldIs
<1> QED  BY <1>1, <1>2, <1>3, <1>4 DEF IInv

LEMMA Inductive ==
  ASSUME IInv, Promised, [Next]_vars PROVE IInv' /\ Promised'
<1>1. CASE PacketArrives
  <2>1. Advance(TRUE) /\ scan' = scan
    BY <1>1 DEF PacketArrives
  <2>2. CASE ProcessPacket
    BY <2>1, <2>2, PacketStep
  <2>3. CASE ProcessLastPacket
    BY <2>1, <2>3, LastPacketStep
  <2>4. CASE IgnorePacket
    BY <2>1, <2>4, QuietStep DEF IgnorePacket
  <2> QED  BY <1>1, <2>2, <2>3, <2>4 DEF PacketArrives
<1>2. CASE PacketLost
  <2>1. /\ Advance(FALSE) /\ scan' = scan
        /\ UNCHANGED <<current, done, second, inputVars, countVars, out>>
    BY <1>2 DEF PacketLost
  <2> QED  BY <2>1, QuietStep
<1>3. CASE Restart
  BY <1>3, RestartStep
<1>4. CASE UNCHANGED vars
  BY <1>4, Stutters
<1> QED  BY <1>1, <1>2, <1>3, <1>4 DEF Next

-----------------------------------------------------------------------------
(***************************************************************************)
(* The theorems.                                                           *)
(***************************************************************************)

LEMMA NothingPromised == Init => Promised
  BY DEF Init, NoFrame, Fetched, Promised, CompleteIsOneField, DiscardsEven,
         LastFieldWhole, PairsAgain

\* The count, the invariant on it and what is promised of the frames, for any
\* height of a field, any device, any losses and restarts.
THEOREM Invariant == Spec => [](IInv /\ Promised)
<1>1. Init => IInv /\ Promised
  BY Initially, NothingPromised
<1>2. IInv /\ Promised /\ [Next]_vars => (IInv /\ Promised)'
  BY Inductive
<1> QED  BY <1>1, <1>2, PTL DEF Spec

\* processPacket never counts more packets of one field than it has and never
\* writes beyond the buffer of the frame.
THEOREM FieldTypeOK == Spec => []TypeOK
<1>1. IInv => TypeOK
  BY DEF IInv, Typed, OutTyped, Bounded, TypeOK
<1> QED  BY <1>1, Invariant, PTL

\* A frame that checkFinishedFrame flags complete, and that is not interleaved,
\* is the image of one field, unless its packets were counted together with those
\* of another field of the same id.
THEOREM OneField == Spec => []CompleteIsOneField
<1>1. Promised => CompleteIsOneField
  BY DEF Promised
<1> QED  BY <1>1, Invariant, PTL

\* Nothing of an even field is in a frame of the scan type DISCARD.
THEOREM NoEvenField == Spec => []DiscardsEven
<1>1. Promised => DiscardsEven
  BY DEF Promised
<1> QED  BY <1>1, Invariant, PTL

\* A complete interleaved frame has the whole of its last field, with the same
\* exception.
THEOREM LastField == Spec => []LastFieldWhole
<1>1. Promised => LastFieldWhole
  BY DEF Promised
<1> QED  BY <1>1, Invariant, PTL

\* Two whole fields are enough to pair odd and even fields again.
THEOREM Pairing == Spec => []PairsAgain
<1>1. Promised => PairsAgain
  BY DEF Promised
<1> QED  BY <1>1, Invariant, PTL

=============================================================================
