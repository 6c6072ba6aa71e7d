----------------------------- MODULE SendBuffers -----------------------------
(***************************************************************************)
(* NetSendBuffer and its allocator, and MakeSendBuffer of the generated    *)
(* packet handlers, which frames a message: a header of 6 bytes with the   *)
(* 16-bit size of the whole packet, then the message.                      *)
(*                                                                         *)
(* A buffer is what its integers say; the bytes are those the caller put   *)
(* there.  Sizes are natural numbers, as in every call.                    *)
(***************************************************************************)
EXTENDS SizeClasses

HeaderSize == 6                        \* sizeof(PacketHeader), packed

-----------------------------------------------------------------------------
(* NetSendBuffer.                                                          *)
NewBuffer(maxSize) == [max |-> maxSize, read |-> 0, write |-> 0]

Clear(b) == [max |-> b.max, read |-> 0, write |-> 0]

GetFreeSize(b) == b.max - b.write
GetUseSize(b)  == b.write

(* Reserve gives the write position, or null when size bytes do not fit.   *)
(* Before it gives one it reads the first byte of the array, and an array  *)
(* of no bytes is null: MemoryAllocator::Alloc has no block for size 0.    *)
Reserves(b, size) == size <= GetFreeSize(b)

ReserveFaults(b, size) == Reserves(b, size) /\ b.max = 0

MoveReadPos(b, size) ==
  IF size + b.read > b.write THEN b ELSE [b EXCEPT !.read = @ + size]

MoveWritePos(b, size) ==
  IF GetFreeSize(b) < size THEN b ELSE [b EXCEPT !.write = @ + size]

Commit(b, size) == MoveWritePos(b, size)

Buffer == [max : Nat, read : Nat, write : Nat]

-----------------------------------------------------------------------------
(* SendBufferAllocator: the size is rounded up to a whole number of        *)
(* strides; x & ~(stride - 1) drops the remainder.                         *)
RoundUp(size, stride) ==
  (size + stride - 1) - ((size + stride - 1) % stride)

getAllocSize(size) == IF size <= THRESHOLD THEN RoundUp(size, SMALL_STRIDE)
                                           ELSE RoundUp(size, LARGE_STRIDE)

(* Alloc returns null for such a size.                                     *)
Refused(size) == size < 0 \/ size > MAX_SIZE

Alloc(size) == NewBuffer(getAllocSize(size))

-----------------------------------------------------------------------------
(* MakeSendBuffer of a message whose ByteSizeLong() is payload.  Both      *)
(* lengths are 16 bits wide.                                               *)
DataSize(payload)   == payload % 65536
PacketSize(payload) == (DataSize(payload) + HeaderSize) % 65536

(* SerializeToArray refuses an array shorter than the message.             *)
Serializes(payload) == DataSize(payload) = payload

(* The process ends before there is a packet: Reserve faults or gives      *)
(* null, or SerializeToArray refuses.                                      *)
MakeCrashes(payload) ==
  LET n == PacketSize(payload)
  IN  \/ ReserveFaults(Alloc(n), n) \/ ~Reserves(Alloc(n), n)
      \/ ~Serializes(payload)

(* The packet as it is sent, if the process does not end: its buffer, the  *)
(* size its header tells and the end of what SerializeToArray has written. *)
MakeSendBuffer(payload) ==
  LET n == PacketSize(payload)
  IN  [buffer |-> Commit(Alloc(n), n),
       size   |-> n,
       end    |-> HeaderSize + DataSize(payload)]

(* HandlePacket on the other side parses what follows the header.          *)
ParsedSize(size) == size - HeaderSize

(* The longest message a packet can frame.                                 *)
MaxPayload == 65535 - HeaderSize
===============================================================================
