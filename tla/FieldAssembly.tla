---------------------------- MODULE FieldAssembly ----------------------------
(***************************************************************************)
(* How UsbTvDriver makes frames of packets: processPacket and what it      *)
(* calls, with a device that sends field after field and a bus that loses  *)
(* packets.                                                                *)
(*                                                                         *)
(* Fields are numbered from 1 and alternate, odd ones first.  The buffer of *)
(* a frame is seen through its parts of half a payload (FrameLayout);      *)
(* `content` says which part of which field was written there since the    *)
(* frame was fetched, NoPart being what was in the buffer before.  This    *)
(* module is the step UrbField of UsbTvDriver seen from near: the pool and *)
(* the queue are not looked at.                                            *)
(***************************************************************************)
EXTENDS FrameLayout

CONSTANTS
  NumIds,         \* how many frame ids there are: 256, eight bits of a header
  DevicePackets,  \* how many packets the device sends per field
  MaxFields,      \* bound: how many fields the device sends
  MaxRestarts     \* bound: how many restarts there are

\* _packetsDone has sixteen bits.
CountLimit == 65536

ASSUME FieldAssumption ==
  /\ NumIds \in Nat \ {0, 1} /\ DevicePackets \in Nat \ {0}
  /\ PacketsPerField < CountLimit
  /\ MaxFields \in Nat /\ MaxRestarts \in Nat

VARIABLES
  scan,      \* _frameParams.scanType
  field,     \* the field the device sends
  pos,       \* the packet it sends next
  id,        \* the frame id in the header of its packets
  restarts,  \* how many restarts there were
  current,   \* _currentFrameId
  done,      \* _packetsDone
  second,    \* _secondFrame
  flags,     \* _usbInputFrame->flags
  content,   \* who wrote what is in _usbInputFrame->buffer
  whole,     \* did the whole field so far arrive, from its first packet on
  clean,     \* how many whole fields ended in a row, up to 2
  counted,   \* the field of the packet that was counted last
  mixed,     \* does the count go on with a field that it did not begin with
  out        \* the frame that was enqueued last

deviceVars == <<field, pos, id, restarts>>
ghostVars  == <<whole, clean>>
countVars  == <<counted, mixed>>
inputVars  == <<flags, content>>
vars ==
  <<scan, deviceVars, current, done, second, inputVars, ghostVars, countVars,
    out>>

Ids     == 0..(NumIds - 1)
Packets == 0..(PacketsPerField - 1)
Odd(n)  == n % 2 = 1
Flags   == {"start", "in_progress", "complete", "partial"}

NoPart == <<0, 0>>
Fetched(type) == [b \in Buffer(type) |-> NoPart]
NoFrame(type) ==
  [scan |-> type, flags |-> "start", content |-> Fetched(type), clean |-> 0,
   mixed |-> FALSE]

Init ==
  /\ scan \in ScanTypes
  /\ field = 1 /\ pos = 0 /\ id \in Ids /\ restarts = 0
  /\ current = 0 /\ done = 0 /\ second = FALSE
  /\ flags = "start" /\ content = Fetched(scan)
  /\ whole = TRUE /\ clean = 0 /\ counted = 0 /\ mixed = FALSE
  /\ out = NoFrame(scan)

-----------------------------------------------------------------------------
(***************************************************************************)
(* The driver.                                                             *)
(***************************************************************************)

\* Mutant: only the first packet begins a field.
Begins_First == pos = 0

\* A packet begins a field if it is the first one or has a new id.
Begins == pos = 0 \/ id # current

\* The frame with the packet in it.  A part beyond the buffer would be a part
\* of the function as well.
Copied ==
  LET first  == Offset(scan, Odd(field), 2 * pos)
      last   == Offset(scan, Odd(field), 2 * pos + 1)
  IN  [b \in Buffer(scan) \cup {first, last} |->
         IF b = last THEN <<field, 2 * pos + 1>>
         ELSE IF b = first THEN <<field, 2 * pos>> ELSE content[b]]

\* Mutant: even fields are written as well.
Written_Always == Copied

Written == IF scan = "discard" /\ ~Odd(field) THEN content ELSE Copied

\* Mutant: the packets are not counted from the beginning of the field.
DoneNow_NoReset == (done + 1) % CountLimit

\* _packetsDone with the packet.
DoneNow == IF Begins THEN 1 ELSE (done + 1) % CountLimit

\* The packet is of another field than the count is about, and has its id.
Mixes == ~Begins /\ (mixed \/ counted \notin {0, field})

\* checkFinishedFrame: whether the end of a field is the end of a frame.
Submits ==
  \/ scan = "progressive"
  \/ scan = "discard" /\ Odd(field)
  \/ scan = "interleaved" /\ second

\* Mutant: _secondFrame stays set.
SecondNow_Sticks == scan = "interleaved" /\ (second \/ Odd(field))

SecondNow ==
  IF scan = "interleaved" THEN ~second /\ Odd(field) ELSE second

\* Mutant: the flag does not look at the count.
Outcome_Complete == "complete"

Outcome == IF DoneNow = PacketsPerField THEN "complete" ELSE "partial"

\* The frame is enqueued and another one fetched, or there is no room and it
\* is used again.
AddCompleteFrameToQueue ==
  /\ flags' = "start"
  /\ \/ /\ out' = [scan |-> scan, flags |-> Outcome, content |-> Written,
                     clean |-> clean', mixed |-> Mixes]
        /\ content' = Fetched(scan)
     \/ /\ content' = Written
        /\ UNCHANGED out

Counts ==
  /\ current' = id /\ done' = DoneNow
  /\ counted' = field /\ mixed' = Mixes

\* processPacket for a packet that is not the last of its field, and for one
\* that is.
ProcessPacket ==
  /\ pos < PacketsPerField - 1
  /\ Counts
  /\ flags' = IF Begins THEN "in_progress" ELSE flags
  /\ content' = Written
  /\ UNCHANGED <<second, out>>

ProcessLastPacket ==
  /\ pos = PacketsPerField - 1
  /\ Counts /\ second' = SecondNow
  /\ IF Submits
       THEN AddCompleteFrameToQueue
       ELSE flags' = Outcome /\ content' = Written /\ UNCHANGED out

\* The number exceeds the packets per field.
IgnorePacket ==
  /\ pos >= PacketsPerField
  /\ UNCHANGED <<current, done, second, inputVars, countVars, out>>

-----------------------------------------------------------------------------
(***************************************************************************)
(* The device and the bus.                                                 *)
(***************************************************************************)

\* The device goes on to the next packet, of this field or of the next one.
Advance(arrived) ==
  /\ field <= MaxFields
  /\ IF pos + 1 < DevicePackets
       THEN pos' = pos + 1 /\ UNCHANGED <<field, id>>
       ELSE /\ pos' = 0 /\ field' = field + 1
            /\ id' = (id + 1) % NumIds
  /\ whole' = IF pos + 1 < DevicePackets THEN whole /\ arrived ELSE TRUE
  /\ clean' = IF pos = PacketsPerField - 1 /\ arrived
              THEN IF whole THEN (IF clean < 2 THEN clean + 1 ELSE 2) ELSE 0
              ELSE IF arrived THEN clean ELSE 0
  /\ UNCHANGED restarts

PacketArrives ==
  /\ Advance(TRUE) /\ UNCHANGED scan
  /\ ProcessPacket \/ ProcessLastPacket \/ IgnorePacket

\* A packet that did not come, or came in an iso packet with an error status.
PacketLost ==
  /\ Advance(FALSE)
  /\ UNCHANGED <<scan, current, done, second, inputVars, countVars, out>>

\* stopStreaming and startStreaming, for a new scan type or the same one: a
\* new frame is fetched, the counters and the id of the last stream stay.  The
\* device is somewhere in a field, with any id: the one the last stream ended
\* with as well.
Restart ==
  /\ restarts < MaxRestarts /\ field <= MaxFields
  /\ restarts' = restarts + 1 /\ scan' \in ScanTypes
  /\ flags' = "start" /\ content' = Fetched(scan')
  /\ pos' \in 0..(DevicePackets - 1)
  /\ field' \in {field + 1, field + 2}
  /\ id' \in Ids
  /\ whole' = (pos' = 0) /\ clean' = 0
  /\ UNCHANGED <<current, done, second, countVars, out>>

Next == PacketArrives \/ PacketLost \/ Restart

Spec == Init /\ [][Next]_vars

-----------------------------------------------------------------------------
Contents(type) == [Buffer(type) -> Nat \X Nat]

\* Every variable keeps its type: no more packets of one field are counted than
\* it has, and nothing is written beyond the buffer.
TypeOK ==
  /\ scan \in ScanTypes
  /\ field \in Nat \ {0} /\ pos \in 0..(DevicePackets - 1) /\ id \in Ids
  /\ restarts \in 0..MaxRestarts
  /\ current \in Ids /\ done \in 0..(CountLimit - 1) /\ second \in BOOLEAN
  /\ flags \in Flags /\ content \in Contents(scan)
  /\ whole \in BOOLEAN /\ clean \in 0..2
  /\ counted \in 0..field /\ mixed \in BOOLEAN
  /\ ~mixed => done <= PacketsPerField
  /\ out.mixed \in BOOLEAN
  /\ out.scan \in ScanTypes /\ out.flags \in Flags
  /\ out.content \in Contents(out.scan) /\ out.clean \in 0..2

\* The lines of a field are in the image, each in its place and in order.
FieldIs(type, c, odd, n) ==
  \A k \in 0..(FieldLines - 1), x \in 0..(LineParts - 1) :
    c[ImageLine(type, odd, k) * LineParts + x] = <<n, k * LineParts + x>>

\* A count goes on with another field, which has the same id, only when all the
\* fields of a cycle of ids, or a restart, are in between.
MixesByCollision ==
  [][~mixed /\ mixed' => restarts > 0 \/ field - counted >= NumIds]_vars

\* A frame that is flagged complete and is not interleaved is the image of one
\* field, all of it; when even fields are discarded it is an odd one.  The
\* exception is a frame that was counted over two fields.
CompleteIsOneField ==
  out.flags = "complete" /\ out.scan # "interleaved" /\ ~out.mixed =>
    \E n \in 1..(field + 1) :
      FieldIs(out.scan, out.content, Odd(n), n)
      /\ (out.scan = "discard" => Odd(n))

\* Nothing of an even field is in a frame when even fields are discarded.
DiscardsEven ==
  out.scan = "discard" =>
    \A b \in DOMAIN out.content :
      out.content[b] = NoPart \/ Odd(out.content[b][1])

\* An interleaved frame that is flagged complete has, at least, all lines of
\* the field that came last, unless that was counted with another field.
LastFieldWhole ==
  out.flags = "complete" /\ out.scan = "interleaved" /\ ~out.mixed =>
    \E n \in 1..(field + 1) :
      /\ FieldIs(out.scan, out.content, Odd(n), n)
      /\ \A b \in DOMAIN out.content : out.content[b][1] <= n

\* After a loss or a restart the fields are paired again at once: a frame that
\* is enqueued when two fields came whole is an odd field and the even one
\* that followed it.
PairsAgain ==
  out.scan = "interleaved" /\ out.clean = 2 =>
    \E n \in 1..(field + 1) :
      /\ Odd(n) /\ FieldIs(out.scan, out.content, TRUE, n)
      /\ FieldIs(out.scan, out.content, FALSE, n + 1)
      /\ out.flags = "complete"

-----------------------------------------------------------------------------
\* UsbTvDriver.cpp:636: "An entire frame has been written to the buffer", and
\* for interleaved, :639, "only render after an entire frame is received": a
\* frame that is flagged complete is an odd field and the next even one.
InterleavedIsEntire ==
  out.flags = "complete" /\ out.scan = "interleaved" =>
    \E n \in 1..(field + 1) :
      /\ FieldIs(out.scan, out.content, TRUE, n)
      /\ FieldIs(out.scan, out.content, FALSE, n + 1)

=============================================================================
