--------------------------- MODULE NetReceiveBuffer ---------------------------
(***************************************************************************)
(* NetReceiveBuffer: a ring of MaxSize bytes with a read and a write       *)
(* position, empty when they are equal, so that it holds MaxSize - 1.  Its *)
(* operations are given as operators on a ring.                            *)
(***************************************************************************)
EXTENDS Integers, Sequences

CONSTANT MaxSize   \* mMaxBufferSize

ASSUME RingAssumption == MaxSize \in Nat \ {0, 1}

(* The array has MaxSize + 1 bytes.                                        *)
Places == 0..MaxSize

EmptyRing(byte) == [read |-> 0, write |-> 0, cell |-> [i \in Places |-> byte]]

Clear(r) == [r EXCEPT !.read = 0, !.write = 0]

GetUseSize(r) == IF r.read > r.write THEN MaxSize - (r.read - r.write)
                                     ELSE r.write - r.read

GetFreeSize(r) == IF r.read > r.write THEN r.read - r.write - 1
                                      ELSE MaxSize - (r.write - r.read) - 1

GetLinearWriteSize(r) ==
  IF r.read > r.write THEN r.read - r.write - 1
                      ELSE MaxSize - r.write - (IF r.read = 0 THEN 1 ELSE 0)

GetLinearReadSize(r) == IF r.read > r.write THEN MaxSize - r.read
                                            ELSE r.write - r.read

MoveReadPos(r, n)  == [r EXCEPT !.read  = (@ + n) % MaxSize]

(* Wrong on purpose: the place after the last one is used.                 *)
MoveWritePosLate(r, n) == [r EXCEPT !.write = (@ + n) % (MaxSize + 1)]

MoveWritePos(r, n) == [r EXCEPT !.write = (@ + n) % MaxSize]

(* std::copy_n into the array and out of it.                               *)
Store(r, at, bytes) ==
  [r EXCEPT !.cell = [i \in Places |-> IF i \in at..(at + Len(bytes) - 1)
                                         THEN bytes[i - at + 1] ELSE @[i]]]

Load(r, at, n) == [i \in 1..n |-> r.cell[at + i - 1]]

(* Bytes go to the linear part first, the rest to the front.               *)
Scatter(r, at, linear, bytes) ==
  IF Len(bytes) <= linear
    THEN Store(r, at, bytes)
    ELSE Store(Store(r, at, SubSeq(bytes, 1, linear)),
               0, SubSeq(bytes, linear + 1, Len(bytes)))

AtMost(m, n) == IF m < n THEN m ELSE n

Write(r, data) ==
  LET n == AtMost(GetFreeSize(r), Len(data))
      bytes == SubSeq(data, 1, n)
  IN  MoveWritePos(IF n + r.write < MaxSize THEN Store(r, r.write, bytes)
                   ELSE Scatter(r, r.write, GetLinearWriteSize(r), bytes), n)

(* Wrong on purpose: the front of the array is read from the second byte.  *)
PeekSkewed(r, size) ==
  LET n == AtMost(GetUseSize(r), size)
      linear == GetLinearReadSize(r)
  IN  IF n + r.read > MaxSize
        THEN Load(r, r.read, linear) \o Load(r, 1, n - linear)
        ELSE Load(r, r.read, n)

Peek(r, size) ==
  LET n == AtMost(GetUseSize(r), size)
      linear == GetLinearReadSize(r)
  IN  IF n + r.read > MaxSize
        THEN Load(r, r.read, linear) \o Load(r, 0, n - linear)
        ELSE Load(r, r.read, n)

(* Read returns Peek(r, size) and leaves this ring.                        *)
Read(r, size) == MoveReadPos(r, AtMost(GetUseSize(r), size))

-----------------------------------------------------------------------------
(* What the ring stands for: the bytes written and not read, in order.     *)
Contents(r) == [i \in 1..GetUseSize(r) |-> r.cell[(r.read + i - 1) % MaxSize]]
===============================================================================
