------------------------------- MODULE Receiver -------------------------------
(***************************************************************************)
(* Receiver and PacketSession: the receive side of one session.  Register  *)
(* hands the free part of the ring to one overlapped WSARecv; the handler  *)
(* of its completion (Process) moves the write position, has OnReceive cut *)
(* packets out of the bytes that came, moves the read position past them   *)
(* and registers again.  Meanwhile any thread may disconnect the session,  *)
(* and the handler of that, on another worker, resets mpOwner and then the *)
(* ring.                                                                   *)
(*                                                                         *)
(* The peer sends packets one after another.  Byte k of packet p is        *)
(* <<p, k>>; its first HeaderSize bytes are the header, which names its    *)
(* size.  A header read anywhere else names any size.  A null mpOwner that *)
(* is dereferenced stops the process (fault).  Each round of OnReceive is  *)
(* a step of its own.                                                      *)
(***************************************************************************)
EXTENDS NetReceiveBuffer

CONSTANTS
  Packets,     \* bound: the packets the peer sends
  Sizes,       \* the sizes of packets
  HeaderSize   \* sizeof(PacketHeader)

ASSUME ReceiverAssumption ==
  /\ Packets \in Nat
  /\ HeaderSize \in Nat \ {0}
  /\ Sizes \subseteq HeaderSize..MaxSize

VARIABLES
  connected,  \* the session's state is not Disconnected
  disconnect, \* the DisconnectEx: "none", "posted", "clearing", "done"
  owner,      \* mpOwner, and with it the owner of mReceiveEvent, is set
  ring,       \* mNetReceiveBuffer
  pc,         \* where the receive in progress is
  wsabufs,    \* the memory given to WSARecv: where it starts, and how many
              \* bytes of it there and at the front of the array
  bytes,      \* numOfBytes
  dataSize,   \* dataSize of Process
  data,       \* pBuffer of OnReceive, as a place of the array
  processLen, \* processLen of OnReceive, and what it returns
  fault,      \* a null pointer was dereferenced
  ends,       \* where each packet of the peer ends in what it sends
  arrived,    \* history: bytes MoveWritePos has added
  consumed,   \* history: bytes MoveReadPos has removed
  delivered,  \* history: packets given to OnRecvPacket, 0 for anything else
  late,       \* history: the last completion found unread bytes in the ring
  wrapped     \* history: OnReceive was given bytes past the end of the ring

session == <<connected, disconnect>>
history == <<arrived, consumed, delivered, late, wrapped>>
local   == <<wsabufs, bytes, dataSize, data, processLen>>
vars    == <<session, owner, ring, pc, local, fault, ends, history>>

Junk == <<0, 0>>

(* What the peer sends.                                                    *)
Size(p)  == ends[p] - ends[p - 1]
Bytes(p) == (ends[p - 1] + 1)..ends[p]

Stream == [n \in 1..ends[Packets] |->
             LET p == CHOOSE p \in 1..Packets : n \in Bytes(p)
             IN  <<p, n - ends[p - 1]>>]

Init ==
  /\ ends \in [0..Packets -> 0..(Packets * MaxSize)]
  /\ ends[0] = 0 /\ \A p \in 1..Packets : Size(p) \in Sizes
  /\ connected = TRUE /\ disconnect = "none" /\ owner = TRUE
  /\ ring = EmptyRing(Junk)
  /\ pc = "register"
  /\ wsabufs = [at |-> 0, linear |-> 0, front |-> 0]
  /\ bytes = 0 /\ dataSize = 0 /\ data = 0 /\ processLen = 0
  /\ fault = FALSE
  /\ arrived = 0 /\ consumed = 0 /\ delivered = << >>
  /\ late = FALSE /\ wrapped = FALSE

Go(from, to) == ~fault /\ pc = from /\ pc' = to

Usable == owner /\ connected

(* Session::Disconnect; the first caller starts DisconnectEx.              *)
Disconnect ==
  /\ connected' = FALSE
  /\ disconnect' = IF connected THEN "posted" ELSE disconnect

ClearAll == owner' = FALSE /\ ring' = Clear(ring)

-----------------------------------------------------------------------------
(* Register.                                                               *)
RegisterBegin ==
  /\ IF Usable THEN Go("register", "measure") /\ UNCHANGED <<owner, ring>>
               ELSE Go("register", "idle") /\ ClearAll
  /\ UNCHANGED <<session, local, fault, ends, history>>

Measure ==
  /\ Go("measure", IF GetFreeSize(ring) = 0 THEN "kick" ELSE "issue")
  /\ wsabufs' = [at |-> ring.write, linear |-> GetLinearWriteSize(ring),
                 front |-> GetFreeSize(ring) - GetLinearWriteSize(ring)]
  /\ UNCHANGED <<session, owner, ring, bytes, dataSize, data, processLen,
                 fault, ends, history>>

(* WSARecv is under way, or it fails and the session is disconnected.      *)
Issue ==
  /\ owner
  /\ Go("issue", "posted") \/ Go("issue", "kick")
  /\ UNCHANGED <<session, owner, ring, local, fault, ends, history>>

-----------------------------------------------------------------------------
(* The completion: n bytes were put where wsabufs says; none when the peer *)
(* has finished or the receive failed.  A completion whose event has no    *)
(* owner is dropped by IocpCore::Dispatch.                                 *)
Complete(n) ==
  /\ n <= wsabufs.linear + wsabufs.front
  /\ arrived + n <= ends[Packets]
  /\ Go("posted", IF owner THEN "process" ELSE "idle")
  /\ ring' = Scatter(ring, wsabufs.at, wsabufs.linear,
                     SubSeq(Stream, arrived + 1, arrived + n))
  /\ bytes' = n
  /\ UNCHANGED <<session, owner, wsabufs, dataSize, data, processLen, fault,
                 ends, history>>

(* Process.                                                                *)
ProcessBegin ==
  /\ IF Usable THEN /\ Go("process", IF bytes = 0 THEN "kick" ELSE "move")
                    /\ UNCHANGED <<owner, ring>>
               ELSE Go("process", "idle") /\ ClearAll
  /\ UNCHANGED <<session, local, fault, ends, history>>

MoveWrite ==
  /\ Go("move", "deliver")
  /\ late' = (ring.read # ring.write)
  /\ ring' = MoveWritePos(ring, bytes)
  /\ dataSize' = GetUseSize(ring')
  /\ arrived' = arrived + bytes
  /\ UNCHANGED <<session, owner, wsabufs, bytes, data, processLen, fault, ends,
                 consumed, delivered, wrapped>>

-----------------------------------------------------------------------------
(* PacketSession::OnReceive on the bytes that came.  It has no idea that   *)
(* the array is a ring.                                                    *)
Deliver ==
  /\ owner
  /\ Go("deliver", "parse")
  /\ data' = ring.read
  /\ processLen' = 0
  /\ wrapped' = (wrapped \/ ring.read + bytes > MaxSize)
  /\ UNCHANGED <<session, owner, ring, wsabufs, bytes, dataSize, fault, ends,
                 arrived, consumed, delivered, late>>

ByteAt(n) == IF n \in Places THEN ring.cell[n] ELSE Junk

Header(n, p) == \A k \in 1..HeaderSize : ByteAt(n + k - 1) = <<p, k>>

(* A size (uint16) is never greater than DEFAULT_BUFFER_SIZE.              *)
HeaderSizes(n) ==
  IF \E p \in 1..Packets : Header(n, p) THEN {Size(ByteAt(n)[1])}
                                        ELSE 0..MaxSize

PacketAt(n, size) ==
  IF \E p \in 1..Packets : /\ size = Size(p)
                           /\ \A k \in 1..size : ByteAt(n + k - 1) = <<p, k>>
    THEN ByteAt(n)[1]
    ELSE 0

(* Wrong on purpose: the last byte of a packet is not waited for.          *)
IncompleteByOne(rest, size) == rest < size - 1

(* Wrong on purpose: a packet that ends the data is left for later.        *)
IncompleteStrict(rest, size) == rest <= size

Incomplete(rest, size) == rest < size

Rest == bytes - processLen

(* No whole header is left, or no whole packet, or it is not a header.     *)
EndParse ==
  /\ Go("parse", "check")
  /\ \/ Rest < HeaderSize /\ UNCHANGED processLen
     \/ /\ Rest >= HeaderSize
        /\ \E size \in HeaderSizes(data + processLen) :
             \/ size < HeaderSize /\ processLen' = -1
             \/ /\ size >= HeaderSize
                /\ Incomplete(Rest, size)
                /\ UNCHANGED processLen
  /\ UNCHANGED <<session, owner, ring, wsabufs, bytes, dataSize, data, fault,
                 ends, history>>

(* OnRecvPacket, and the next round.                                       *)
ParsePacket ==
  /\ Go("parse", "parse")
  /\ Rest >= HeaderSize
  /\ \E size \in HeaderSizes(data + processLen) :
       /\ size >= HeaderSize
       /\ ~Incomplete(Rest, size)
       /\ delivered' = Append(delivered, PacketAt(data + processLen, size))
       /\ processLen' = processLen + size
  /\ UNCHANGED <<session, owner, ring, wsabufs, bytes, dataSize, data, fault,
                 ends, arrived, consumed, late, wrapped>>

(* Wrong on purpose: the read position passes everything that came.        *)
MoveReadAll ==
  /\ IF processLen < 0 \/ processLen > dataSize
       THEN Go("check", "kick") /\ UNCHANGED <<ring, consumed>>
       ELSE /\ Go("check", "register")
            /\ ring' = MoveReadPos(ring, bytes)
            /\ consumed' = consumed + processLen
  /\ UNCHANGED <<session, owner, local, fault, ends, arrived, delivered, late,
                 wrapped>>

MoveRead ==
  /\ IF processLen < 0 \/ processLen > dataSize
       THEN Go("check", "kick") /\ UNCHANGED <<ring, consumed>>
       ELSE /\ Go("check", "register")
            /\ ring' = MoveReadPos(ring, processLen)
            /\ consumed' = consumed + processLen
  /\ UNCHANGED <<session, owner, local, fault, ends, arrived, delivered, late,
                 wrapped>>

-----------------------------------------------------------------------------
(* Disconnect through mpOwner, then Clear: after an empty completion, a    *)
(* bad packet, a full ring or a failed WSARecv.                            *)
Kick ==
  /\ owner
  /\ Go("kick", "idle")
  /\ Disconnect
  /\ ClearAll
  /\ UNCHANGED <<local, fault, ends, history>>

(* mpOwner was reset between its test and its use.                         *)
NullOwner ==
  /\ ~owner
  /\ \E at \in {"issue", "deliver", "kick"} : Go(at, at)
  /\ fault' = TRUE
  /\ UNCHANGED <<session, owner, ring, local, ends, history>>

(* Any thread disconnects the session; the handler of its DisconnectEx     *)
(* clears the receiver.                                                    *)
Close ==
  /\ ~fault /\ connected
  /\ Disconnect
  /\ UNCHANGED <<owner, ring, pc, local, fault, ends, history>>

ClearOwner ==
  /\ ~fault /\ disconnect = "posted"
  /\ disconnect' = "clearing"
  /\ owner' = FALSE
  /\ UNCHANGED <<connected, ring, pc, local, fault, ends, history>>

ClearRing ==
  /\ ~fault /\ disconnect = "clearing"
  /\ disconnect' = "done"
  /\ ring' = Clear(ring)
  /\ UNCHANGED <<connected, owner, pc, local, fault, ends, history>>

Next ==
  \/ RegisterBegin \/ Measure \/ Issue
  \/ \E n \in 0..MaxSize : Complete(n)
  \/ ProcessBegin \/ MoveWrite
  \/ Deliver \/ ParsePacket \/ EndParse \/ MoveRead
  \/ Kick \/ NullOwner
  \/ Close \/ ClearOwner \/ ClearRing

Spec == Init /\ [][Next]_vars

-----------------------------------------------------------------------------
(* Every variable has its type; the positions stay inside the ring, WSARecv *)
(* is given no memory past its end and never brings more than it holds.    *)
TypeOK ==
  /\ connected \in BOOLEAN /\ owner \in BOOLEAN /\ fault \in BOOLEAN
  /\ late \in BOOLEAN /\ wrapped \in BOOLEAN
  /\ disconnect \in {"none", "posted", "clearing", "done"}
  /\ ring \in [read : 0..(MaxSize - 1), write : 0..(MaxSize - 1),
               cell : [Places -> (0..Packets) \X Nat]]
  /\ pc \in {"register", "measure", "issue", "posted", "process", "move",
             "deliver", "parse", "check", "kick", "idle"}
  /\ wsabufs \in [at : 0..(MaxSize - 1), linear : 0..MaxSize, front : 0..MaxSize]
  /\ wsabufs.at + wsabufs.linear <= MaxSize
  /\ wsabufs.linear + wsabufs.front < MaxSize
  /\ bytes \in 0..(MaxSize - 1) /\ dataSize \in 0..(MaxSize - 1)
  /\ data \in 0..(MaxSize - 1) /\ processLen \in -1..(MaxSize - 1)
  /\ delivered \in Seq(0..Packets)
  /\ arrived \in Nat /\ consumed \in Nat

(* The ring is a queue of MaxSize - 1 bytes.  Write takes what fits and    *)
(* appends it, Peek returns the oldest bytes and Read removes them, also   *)
(* across the end of the array.                                            *)
RingIsAQueue ==
  \A n \in 0..MaxSize :
    LET new == [k \in 1..n |-> <<Packets + 1, k>>]
        fits == SubSeq(new, 1, AtMost(n, MaxSize - 1 - Len(Contents(ring))))
        oldest == SubSeq(Contents(ring), 1, AtMost(n, Len(Contents(ring))))
    IN  /\ Contents(Write(ring, new)) = Contents(ring) \o fits
        /\ Peek(ring, n) = oldest
        /\ oldest \o Contents(Read(ring, n)) = Contents(ring)

(* Until it is cleared, the ring holds what has come from the peer and was *)
(* not taken: no receive overwrites an unread byte, none skips one.        *)
UnreadIsStream ==
  owner => Contents(ring) = SubSeq(Stream, consumed + 1, arrived)

(* The bytes OnReceive has found packets in, not removed yet.              *)
Parsed == IF pc \in {"parse", "check"} THEN processLen ELSE 0

(* As long as OnReceive was never led past the end of the ring, the        *)
(* packets delivered are those the peer sent, each once, in order and      *)
(* whole, and reading stands at the start of the next one.                 *)
InOrder ==
  owner /\ ~wrapped =>
    LET n == Len(delivered)
    IN  /\ n <= Packets
        /\ delivered = [k \in 1..n |-> k]
        /\ consumed + Parsed = ends[n]

(* If the completion found the ring empty and did not cross its end, no    *)
(* whole packet is left in it when the next receive is registered.  (If it *)
(* found bytes there, one may be: OnReceive gets numOfBytes as its length, *)
(* not dataSize.)                                                          *)
CaughtUp ==
  owner /\ pc = "register" /\ ~late /\ ~wrapped =>
    LET next == Len(delivered) + 1
    IN  next <= Packets => GetUseSize(ring) < Size(next)
===============================================================================
