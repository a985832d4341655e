----------------------------- MODULE FrameLayout -----------------------------
(***************************************************************************)
(* Where packetToProgressiveFrame and packetToInterleavedFrame write a     *)
(* packet.  The unit is the half payload of 480 bytes, a part: a packet is *)
(* two parts, and a line of 720 pixels of two bytes is three, so that      *)
(* three packets make two lines.                                           *)
(***************************************************************************)
EXTENDS Integers

CONSTANT FieldLines   \* lines of a field: 240 (NTSC) or 288 (PAL)

ASSUME LayoutAssumption == FieldLines \in Nat \ {0} /\ FieldLines % 2 = 0

ScanTypes == {"progressive", "discard", "interleaved"}

\* lineSize, in parts.
LineParts == 3

\* setFrameSize of DeviceParams: width * height / USBTV_PAYLOAD_SIZE.
PacketsPerField == (LineParts * FieldLines) \div 2

\* bufferSize: a frame that is not interleaved has half the height.
BufferParts(scan) ==
  IF scan = "interleaved" THEN 2 * LineParts * FieldLines
                          ELSE LineParts * FieldLines

Buffer(scan) == 0..(BufferParts(scan) - 1)

\* Mutant: the lines of a field are counted from 1.
LineIndex_FromOne(part, odd) == ((part \div 3) + 1) * 2 + (IF odd THEN 0 ELSE 1)

\* lineIndex: every other line, the even ones for an odd field.
LineIndex(part, odd) == (part \div 3) * 2 + (IF odd THEN 0 ELSE 1)

\* bufferOffset of a part of a field.
Offset(scan, odd, part) ==
  IF scan = "interleaved" THEN LineIndex(part, odd) * LineParts + (part % 3)
                          ELSE part

\* What the layout is for: line k of a field is this line of the image, and
\* column x of it this part of the field.
ImageLine(scan, odd, k) ==
  IF scan = "interleaved" THEN 2 * k + (IF odd THEN 0 ELSE 1) ELSE k

=============================================================================
