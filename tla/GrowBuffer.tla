------------------------------ MODULE GrowBuffer ------------------------------
(***************************************************************************)
(* ODGrowBuffer, the receive buffer of the sockets: an array that grows in *)
(* whole packets and is never given back, of which the first currentSize   *)
(* bytes count.  The socket modules take the buffer for the sequence of    *)
(* those bytes, Content; the theorems of StreamProofs show they may.       *)
(***************************************************************************)
EXTENDS Naturals, Sequences

Bytes == 0 .. 255

(* A buffer: innerBuffer and currentSize, which is within it. *)
Buffers == {b \in [innerBuffer : Seq(Bytes), currentSize : Nat] :
               b.currentSize <= Len(b.innerBuffer)}

(* TArray::SetNum of the engine: what is new is zero. *)
SetNum(array, n) == [i \in 1 .. n |-> IF i <= Len(array) THEN array[i] ELSE 0]

(* ODByteSpan(&array[position], ...).CopyFrom(from). *)
CopiedInto(array, position, from) ==
    [i \in 1 .. Len(array) |->
        IF i \in position + 1 .. position + Len(from) THEN from[i - position] ELSE array[i]]

(* The constructor: room, but no content. *)
NewBuffer(initialSize) == [innerBuffer |-> SetNum(<<>>, initialSize), currentSize |-> 0]

AsSpan(b, position, length) == SubSeq(b.innerBuffer, position + 1, position + length)

Content(b) == AsSpan(b, 0, b.currentSize)

(* The packets that hold n bytes. *)
PacketCount(packetSize, n) == n \div packetSize + (IF n % packetSize = 0 THEN 0 ELSE 1)

SetLength(b, packetSize, newSize) ==
    [innerBuffer |-> IF Len(b.innerBuffer) < newSize
                     THEN SetNum(b.innerBuffer, packetSize * PacketCount(packetSize, newSize))
                     ELSE b.innerBuffer,
     currentSize |-> newSize]

Add(b, packetSize, addBuffer) ==
    LET grown == SetLength(b, packetSize, b.currentSize + Len(addBuffer))
    IN  [grown EXCEPT !.innerBuffer = CopiedInto(@, b.currentSize, addBuffer)]

(* Over what is there from myOffset on, and beyond its end. *)
CopyFrom(b, packetSize, fromBuffer, myOffset) ==
    LET end     == myOffset + Len(fromBuffer)
        newSize == IF b.currentSize > end THEN b.currentSize ELSE end
        grown   == SetLength(b, packetSize, newSize)
    IN  [grown EXCEPT !.innerBuffer = CopiedInto(@, myOffset, fromBuffer)]

(* The new size counts no byte before start, which every caller has at 0. *)
RemoveRangeFromStart(b, start, length) ==
    LET moveLength == b.currentSize - (start + length)
        tempBuffer == AsSpan(b, start + length, moveLength)
    IN  [innerBuffer |-> CopiedInto(b.innerBuffer, start, tempBuffer),
         currentSize |-> moveLength]

Clear(b) == [b EXCEPT !.currentSize = 0]
=============================================================================
