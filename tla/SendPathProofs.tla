---------------------------- MODULE SendPathProofs ----------------------------
(***************************************************************************)
(* From a message to the socket and at its receiver: what the size classes *)
(* and the framing of packets guarantee, for every size; that a message    *)
(* arrives as it was sent; that between the projects of a configuration    *)
(* what one can make the other handles; and theorems about Sender, for any *)
(* number of threads and sends, of buffers in one WSASend and any limit of *)
(* the queue.                                                              *)
(***************************************************************************)
EXTENDS Sender, SendBuffers, LoginMessages, PacketProtocol, SequenceTheorems,
        FiniteSetTheorems, TLAPS

-----------------------------------------------------------------------------
(* Size classes and send buffers.                                          *)

(* MemoryAllocator::Alloc and Free use no table entry that is not there,   *)
(* and a block holds what was asked for.                                   *)
THEOREM PoolServesSize ==
  ASSUME NEW size \in 1..MAX_SIZE
  PROVE  /\ Pool(size) \in Pools
         /\ size <= BlockSize(Pool(size))
         /\ BlockSize(Pool(size)) < size + Pool(size).stride
<1>1. CASE size <= 3840
  BY <1>1, SMT DEF Pool, Pools, BlockSize, IsSmall, getBucketIndex, MAX_SIZE,
     THRESHOLD, SMALL_STRIDE, LARGE_STRIDE, SMALL_POOL_COUNT, LARGE_POOL_COUNT
<1>2. CASE size > 3840
  BY <1>2, SMT DEF Pool, Pools, BlockSize, IsSmall, getBucketIndex, MAX_SIZE,
     THRESHOLD, SMALL_STRIDE, LARGE_STRIDE, SMALL_POOL_COUNT, LARGE_POOL_COUNT
<1> QED BY <1>1, <1>2 DEF MAX_SIZE

(* The pool is the best fit: no pool with smaller blocks could serve the   *)
(* request, although two tables with different strides are searched.       *)
THEOREM PoolFitsBest ==
  ASSUME NEW size \in 1..MAX_SIZE, NEW pool \in Pools, size <= BlockSize(pool)
  PROVE  BlockSize(Pool(size)) <= BlockSize(pool)
<1>1. CASE size <= 3840
  BY <1>1, SMT DEF Pool, Pools, BlockSize, IsSmall, getBucketIndex, MAX_SIZE,
     THRESHOLD, SMALL_STRIDE, LARGE_STRIDE, SMALL_POOL_COUNT, LARGE_POOL_COUNT
<1>2. CASE size > 3840
  BY <1>2, SMT DEF Pool, Pools, BlockSize, IsSmall, getBucketIndex, MAX_SIZE,
     THRESHOLD, SMALL_STRIDE, LARGE_STRIDE, SMALL_POOL_COUNT, LARGE_POOL_COUNT
<1> QED BY <1>1, <1>2 DEF MAX_SIZE

(* SendBufferAllocator rounds to what the allocator would have given       *)
(* anyway: its strides and its threshold (4096, against 3840 there) lose   *)
(* no byte of the block and never move a buffer to a larger one.           *)
THEOREM RoundingFillsBlock ==
  ASSUME NEW size \in 1..MAX_SIZE
  PROVE  /\ getAllocSize(size) = BlockSize(Pool(size))
         /\ Pool(getAllocSize(size)) = Pool(size)
<1>0. size \in Nat /\ size > 0 /\ size <= 65536
  BY SMT DEF MAX_SIZE
<1> USE <1>0 DEF Pool, BlockSize, IsSmall, getBucketIndex, THRESHOLD, SMALL_STRIDE,
            LARGE_STRIDE, getAllocSize, RoundUp
<1>1. CASE size <= 3840
  <2>1. getAllocSize(size) = ((size - 1) \div 256 + 1) * 256
    BY <1>1, SMT
  <2>2. ((size - 1) \div 256 + 1) * 256 <= 3840
    BY <1>1, SMT
  <2>3. (((size - 1) \div 256 + 1) * 256 - 1) \div 256 = (size - 1) \div 256
    BY <1>1, SMT
  <2> QED BY <1>1, <2>1, <2>2, <2>3, SMT
<1>2. CASE size > 3840 /\ size <= 4096
  <2>1. getAllocSize(size) = 4096 /\ (size - 1) \div 4096 = 0
    BY <1>2, SMT
  <2> QED BY <1>2, <2>1, SMT
<1>3. CASE size > 4096
  <2>1. getAllocSize(size) = ((size - 1) \div 4096 + 1) * 4096
    BY <1>3, SMT
  <2>2. ((size - 1) \div 4096 + 1) * 4096 > 4096
    BY <1>3, SMT
  <2>3. (((size - 1) \div 4096 + 1) * 4096 - 1) \div 4096 = (size - 1) \div 4096
    BY <1>3, SMT
  <2> QED BY <1>3, <2>1, <2>2, <2>3, SMT
<1> QED BY <1>1, <1>2, <1>3, SMT

-----------------------------------------------------------------------------
Sound(b) == b \in Buffer /\ b.read <= b.write /\ b.write <= b.max

(* No operation of NetSendBuffer moves a position past another or past the *)
(* end, whatever size it is given.                                         *)
THEOREM BufferStaysSound ==
  ASSUME NEW b, Sound(b), NEW size \in Nat
  PROVE  /\ Sound(Clear(b)) /\ Sound(MoveReadPos(b, size))
         /\ Sound(MoveWritePos(b, size))
<1>1. Sound(Clear(b))
  BY SMT DEF Sound, Buffer, Clear
<1>2. Sound(MoveReadPos(b, size))
  BY SMT DEF Sound, Buffer, MoveReadPos
<1>3. Sound(MoveWritePos(b, size))
  BY SMT DEF Sound, Buffer, MoveWritePos, GetFreeSize
<1> QED BY <1>1, <1>2, <1>3

(* The rounded size is a size, and no smaller than what was asked for.     *)
LEMMA AllocSizeSuffices ==
  ASSUME NEW size \in Nat
  PROVE  getAllocSize(size) \in Nat /\ size <= getAllocSize(size)
<1>1. CASE size <= 4096
  BY <1>1, SMT DEF getAllocSize, RoundUp, THRESHOLD, SMALL_STRIDE
<1>2. CASE size > 4096
  BY <1>2, SMT DEF getAllocSize, RoundUp, THRESHOLD, LARGE_STRIDE
<1> QED BY <1>1, <1>2

(* Reserve and Commit of n bytes in a new buffer that is large enough.     *)
LEMMA FillNewBuffer ==
  ASSUME NEW n \in Nat, NEW max \in Nat, n <= max
  PROVE  /\ Reserves(NewBuffer(max), n)
         /\ ReserveFaults(NewBuffer(max), n) <=> max = 0
         /\ Sound(Commit(NewBuffer(max), n))
         /\ GetUseSize(Commit(NewBuffer(max), n)) = n
BY SMT DEF Reserves, ReserveFaults, GetFreeSize, NewBuffer, Commit,
           MoveWritePos, GetUseSize, Sound, Buffer

(* The lengths do not wrap.                                                *)
LEMMA LengthsFit ==
  ASSUME NEW payload \in Nat, payload < 65530
  PROVE  /\ DataSize(payload) = payload
         /\ PacketSize(payload) = payload + 6
<1>1. DataSize(payload) = payload
  BY SMT DEF DataSize
<1>2. PacketSize(payload) = payload + 6
  BY <1>1, SMT DEF PacketSize, HeaderSize
<1> QED BY <1>1, <1>2

(* A message of at most MaxPayload bytes is framed whole: the allocator    *)
(* does not refuse it, the process goes on, what is serialized ends inside *)
(* the buffer and exactly where the header says the packet ends, and the   *)
(* receiver parses exactly the message.                                    *)
Framed(payload) ==
  LET p == MakeSendBuffer(payload)
  IN  /\ ~Refused(p.size)
      /\ ~MakeCrashes(payload)
      /\ Sound(p.buffer)
      /\ GetUseSize(p.buffer) = p.size
      /\ p.end = p.size
      /\ ParsedSize(p.size) = payload

THEOREM FrameIsWhole ==
  ASSUME NEW payload \in Nat, payload <= MaxPayload
  PROVE  Framed(payload)
<1>1. payload < 65530
  BY SMT DEF MaxPayload, HeaderSize
<1> HIDE DEF MaxPayload
<1>2. payload + 6 \in Nat
  BY SMT
<1>3. getAllocSize(payload + 6) \in Nat /\ payload + 6 <= getAllocSize(payload + 6)
  BY <1>2, AllocSizeSuffices
<1>4. payload + 6 > 0
  BY SMT
<1>5. /\ Reserves(Alloc(payload + 6), payload + 6)
      /\ ~ReserveFaults(Alloc(payload + 6), payload + 6)
      /\ Sound(Commit(Alloc(payload + 6), payload + 6))
      /\ GetUseSize(Commit(Alloc(payload + 6), payload + 6)) = payload + 6
  BY <1>2, <1>3, <1>4, FillNewBuffer DEF Alloc
<1>6. ~Refused(payload + 6)
  BY <1>1, SMT DEF Refused, MAX_SIZE
<1>7. 6 + payload = payload + 6 /\ (payload + 6) - 6 = payload
  BY SMT
<1>8. DataSize(payload) = payload /\ PacketSize(payload) = payload + 6
  BY <1>1, LengthsFit
<1> QED BY <1>5, <1>6, <1>7, <1>8
        DEF Framed, MakeCrashes, MakeSendBuffer, Serializes, ParsedSize,
            HeaderSize

(* The limit is sharp.  The next length wraps the 16-bit packet size to 0, *)
(* and Reserve reads an array that is not there; the five lengths after it *)
(* wrap it to a small one, while SerializeToArray still writes the whole   *)
(* message, behind the memory of the buffer; beyond them it refuses and    *)
(* the process ends.                                                       *)
THEOREM LongerWraps ==
  ASSUME NEW payload \in Nat, payload > MaxPayload
  PROVE  IF payload \in (MaxPayload + 2)..65535
         THEN /\ ~MakeCrashes(payload)
              /\ MakeSendBuffer(payload).end > Alloc(PacketSize(payload)).max
         ELSE MakeCrashes(payload)
<1>0. MaxPayload = 65529 /\ payload > 65529
  BY SMT DEF MaxPayload, HeaderSize
<1>1. CASE payload > 65535
  <2>1. ~Serializes(payload)
    BY <1>1, SMT DEF Serializes, DataSize
  <2> QED
    BY <1>0, <1>1, <2>1 DEF MakeCrashes
<1>2. CASE payload <= 65535
  <2>1. PacketSize(payload) = payload - 65530 /\ DataSize(payload) = payload
    <3>1. DataSize(payload) = payload
      BY <1>2, SMT DEF DataSize
    <3> QED
      BY <1>0, <1>2, <3>1, SMT DEF PacketSize, HeaderSize
  <2>2. PICK n \in 0..5 : n = payload - 65530
    BY <1>0, <1>2
  <2>3. /\ getAllocSize(n) \in Nat /\ n <= getAllocSize(n)
        /\ getAllocSize(n) <= 256 /\ (getAllocSize(n) = 0 <=> n = 0)
    BY SMT DEF getAllocSize, RoundUp, THRESHOLD, SMALL_STRIDE
  <2>4. /\ Reserves(Alloc(n), n)
        /\ ReserveFaults(Alloc(n), n) <=> n = 0
    BY <2>3, FillNewBuffer DEF Alloc
  <2>5. Serializes(payload) /\ PacketSize(payload) = n
    BY <2>1, <2>2 DEF Serializes
  <2>6. MakeCrashes(payload) <=> n = 0
    BY <2>4, <2>5 DEF MakeCrashes
  <2>7. MakeSendBuffer(payload).end = 6 + payload /\ Alloc(n).max = getAllocSize(n)
    BY <2>1 DEF MakeSendBuffer, Alloc, NewBuffer, HeaderSize
  <2>8. payload \in (MaxPayload + 2)..65535 <=> n # 0
    BY <1>0, <1>2, <2>2
  <2>9. 6 + payload > getAllocSize(n)
    BY <1>0, <2>3
  <2> QED
    BY <2>5, <2>6, <2>7, <2>8, <2>9
<1> QED
  BY <1>1, <1>2

-----------------------------------------------------------------------------
(* The message classes.                                                    *)

(* What is written and read again is the same message, in particular for a *)
(* field that has the default value and is not written; and the parser     *)
(* refuses it just when one of its strings is not UTF-8, which the writer  *)
(* does not (InternalSerialize, the parse tables).                         *)
THEOREM ReceivedIsSent ==
  ASSUME NEW schema \in Schemas, NEW m, IsMessage(m, schema)
  PROVE  /\ Parsed(schema, InternalSerialize(schema, m)) = m
         /\ Parses(schema, InternalSerialize(schema, m)) <=>
              \A n \in DOMAIN schema : schema[n] = "string" => m[n].utf8
<1>1. Present(schema, m) \subseteq DOMAIN schema
  BY DEF Present
<1>2. /\ DOMAIN InternalSerialize(schema, m) = Present(schema, m)
      /\ \A n \in Present(schema, m) : InternalSerialize(schema, m)[n] = m[n]
  BY DEF InternalSerialize
<1>3. \A n \in DOMAIN schema \ Present(schema, m) : m[n] = Default(schema[n])
  BY DEF Present
<1>4. Parsed(schema, InternalSerialize(schema, m)) = [n \in DOMAIN schema |-> m[n]]
  BY <1>1, <1>2, <1>3 DEF Parsed
<1>5. Default("string").utf8
  BY DEF Default, EmptyString
<1>6. Parses(schema, InternalSerialize(schema, m)) <=>
        \A n \in Present(schema, m) : schema[n] = "string" => m[n].utf8
  BY <1>2 DEF Parses
<1>7. QED
  BY <1>1, <1>3, <1>4, <1>5, <1>6 DEF IsMessage

(* A copy is the message, whatever the target held; a merge keeps what the *)
(* other message leaves at its default (CopyFrom, MergeImpl).              *)
THEOREM CopyIsEqual ==
  ASSUME NEW schema \in Schemas, NEW to, NEW m, IsMessage(m, schema),
         IsMessage(to, schema)
  PROVE  /\ CopyFrom(schema, m) = m
         /\ MergeImpl(schema, to, ClearMessage(schema)) = to
<1>1. \A n \in DOMAIN schema \ Present(schema, m) : m[n] = ClearMessage(schema)[n]
  BY DEF Present, ClearMessage
<1>2. CopyFrom(schema, m) = [n \in DOMAIN schema |-> m[n]]
  BY <1>1 DEF CopyFrom, MergeImpl
<1>3. Present(schema, ClearMessage(schema)) = {}
  BY DEF Present, ClearMessage
<1>4. MergeImpl(schema, to, ClearMessage(schema)) = [n \in DOMAIN schema |-> to[n]]
  BY <1>3 DEF MergeImpl
<1>5. QED
  BY <1>2, <1>4 DEF IsMessage

-----------------------------------------------------------------------------
(* Sizes.                                                                  *)
LEMMA Interval ==
  ASSUME NEW n \in Nat
  PROVE  IsFiniteSet(1..n) /\ Cardinality(1..n) = n
<1>1. 1 \in Int /\ n \in Int
  OBVIOUS
<1>2. IsFiniteSet(1..n) /\ Cardinality(1..n) = IF 1 > n THEN 0 ELSE n - 1 + 1
  BY ONLY <1>1, FS_Interval, Zenon
<1>3. (IF 1 > n THEN 0 ELSE n - 1 + 1) = n
  OBVIOUS
<1>4. QED
  BY <1>2, <1>3

LEMMA SevensBound ==
  ASSUME NEW v \in Nat
  PROVE  Sevens(v) \in Nat /\ Sevens(v) <= 4
<1> DEFINE S == {k \in 1..4 : v >= <<128, 16384, 2097152, 268435456>>[k]}
<1>1. IsFiniteSet(1..4) /\ Cardinality(1..4) = 4
  BY Interval
<1>2. S \subseteq 1..4
  OBVIOUS
<1>3. Cardinality(S) <= 4 /\ IsFiniteSet(S)
  BY <1>1, <1>2, FS_Subset
<1>4. Cardinality(S) \in Nat
  BY <1>3, FS_CardinalityType
<1>5. QED
  BY <1>3, <1>4 DEF Sevens

LEMMA VarintBound ==
  ASSUME NEW v \in Nat
  PROVE  VarintSize(v) \in Nat /\ 1 <= VarintSize(v) /\ VarintSize(v) <= 13
<1>1. v \div 268435456 \in Nat /\ (v \div 268435456) \div 268435456 \in Nat
  BY SMT
<1>2. QED
  BY <1>1, SevensBound DEF VarintSize

(* A length below 2 ^ 21 takes at most three bytes, and from 16384 on it   *)
(* takes three.                                                            *)
LEMMA LengthSize ==
  ASSUME NEW v \in Nat, v < 2097152
  PROVE  /\ VarintSize(v) <= 3
         /\ v >= 16384 => VarintSize(v) = 3
<1>1. v \div 268435456 = 0 /\ 0 \div 268435456 = 0
  BY SMT
<1>2. Sevens(0) = 0
  <2>1. {k \in 1..4 : 0 >= <<128, 16384, 2097152, 268435456>>[k]} = {}
    OBVIOUS
  <2>2. QED
    BY <2>1, FS_EmptySet DEF Sevens
<1>3. {k \in 1..4 : v >= <<128, 16384, 2097152, 268435456>>[k]} =
        {k \in 1..2 : v >= <<128, 16384>>[k]}
  <2>1. ASSUME NEW k \in 3..4
        PROVE  ~(v >= <<128, 16384, 2097152, 268435456>>[k])
    <3>1. CASE k = 3
      BY <3>1
    <3>2. CASE k = 4
      BY <3>2
    <3>3. QED
      BY <3>1, <3>2
  <2>2. ASSUME NEW k \in 1..2
        PROVE  <<128, 16384, 2097152, 268435456>>[k] = <<128, 16384>>[k]
    BY <2>2
  <2>3. QED
    BY <2>1, <2>2
<1>4. IsFiniteSet(1..2) /\ Cardinality(1..2) = 2
  BY ONLY Interval
<1>5. Sevens(v) <= 2
  <2>1. {k \in 1..2 : v >= <<128, 16384>>[k]} \subseteq 1..2
    OBVIOUS
  <2>2. QED
    BY <1>3, <1>4, <2>1, FS_Subset DEF Sevens
<1>6. ASSUME v >= 16384 PROVE Sevens(v) = 2
  <2>1. \A k \in 1..2 : v >= <<128, 16384>>[k]
    BY <1>6
  <2>2. {k \in 1..2 : v >= <<128, 16384>>[k]} = 1..2
    BY <2>1
  <2>3. QED
    BY <2>2, <1>3, <1>4 DEF Sevens
<1>7. Sevens(v) \in Nat
  BY SevensBound
<1>8. VarintSize(v) = 1 + Sevens(v)
  BY <1>1, <1>2, <1>7 DEF VarintSize
<1>9. QED
  BY <1>5, <1>6, <1>7, <1>8

(* A login request or answer always fits a packet (MakeSendBuffer).        *)
THEOREM LoginFits ==
  ASSUME NEW schema \in {C2S_LOGIN_REQ, S2C_LOGIN_RES},
         NEW m, IsMessage(m, schema)
  PROVE  Framed(ByteSizeLong(schema, m))
<1>1. ASSUME NEW n \in 1..4
      PROVE  FieldSize(schema, m, n) \in Nat /\ FieldSize(schema, m, n) <= 14
  <2>1. CASE n \notin Present(schema, m)
    BY <2>1 DEF FieldSize
  <2>2. CASE n \in Present(schema, m) /\ schema[n] = "uint"
    <3>1. m[n] \in Nat
      BY <2>2 DEF Present, IsMessage, Value
    <3>2. FieldSize(schema, m, n) = 1 + VarintSize(m[n])
      BY <2>2 DEF FieldSize, ValueSize
    <3>3. QED
      BY <3>1, <3>2, VarintBound
  <2>3. CASE n \in Present(schema, m) /\ schema[n] = "bool"
    BY <2>3 DEF FieldSize, ValueSize
  <2>4. QED
    BY <2>1, <2>2, <2>3 DEF Present, C2S_LOGIN_REQ, S2C_LOGIN_RES
<1>2. ByteSizeLong(schema, m) \in Nat /\ ByteSizeLong(schema, m) <= 56
  BY <1>1 DEF ByteSizeLong
<1>3. ByteSizeLong(schema, m) <= MaxPayload
  BY <1>2 DEF MaxPayload, HeaderSize
<1>4. QED
  BY <1>2, <1>3, FrameIsWhole

(* An echo fits as long as its text has at most 65525 bytes, and the limit *)
(* is sharp.                                                               *)
THEOREM EchoLimit ==
  ASSUME NEW schema \in {C2S_ECHO_REQ, S2C_ECHO_RES},
         NEW m, IsMessage(m, schema), m[1].length < 2097152
  PROVE  ByteSizeLong(schema, m) <= MaxPayload <=> m[1].length <= 65525
<1>1. schema[1] = "string" /\ DOMAIN schema = {1}
  BY DEF C2S_ECHO_REQ, S2C_ECHO_RES
<1> DEFINE len == m[1].length
<1>2. len \in Nat /\ m[1] \in String /\ (len = 0 => m[1].utf8)
  BY <1>1 DEF IsMessage, Value, String
<1>3. Present(schema, m) \subseteq {1}
  BY <1>1 DEF Present
<1>4. ByteSizeLong(schema, m) = FieldSize(schema, m, 1)
  <2>1. /\ FieldSize(schema, m, 2) = 0 /\ FieldSize(schema, m, 3) = 0
        /\ FieldSize(schema, m, 4) = 0
    BY <1>3 DEF FieldSize
  <2>2. FieldSize(schema, m, 1) \in Nat
    BY <1>1, <1>2, VarintBound DEF FieldSize, ValueSize
  <2>3. QED
    BY <2>1, <2>2 DEF ByteSizeLong
<1>5. CASE 1 \notin Present(schema, m)
  <2>1. m[1] = EmptyString
    BY <1>1, <1>5 DEF Present, Default
  <2>2. len = 0
    BY <2>1 DEF EmptyString
  <2>3. FieldSize(schema, m, 1) = 0
    BY <1>5 DEF FieldSize
  <2>4. QED
    BY <1>4, <2>2, <2>3 DEF MaxPayload, HeaderSize
<1>6. CASE 1 \in Present(schema, m)
  <2>1. ByteSizeLong(schema, m) = 1 + (VarintSize(len) + len)
    BY <1>1, <1>4, <1>6 DEF FieldSize, ValueSize
  <2>2. /\ VarintSize(len) \in Nat /\ VarintSize(len) <= 3
        /\ len >= 16384 => VarintSize(len) = 3
    BY <1>2, VarintBound, LengthSize
  <2>3. QED
    BY <1>2, <2>1, <2>2 DEF MaxPayload, HeaderSize
<1>7. QED
  BY <1>5, <1>6

-----------------------------------------------------------------------------
(* The packets that the generated code makes and handles.                  *)

(* The generator writes what one side makes with the same test as what the *)
(* other handles.                                                          *)
LEMMA MadeIsHandled ==
  ASSUME NEW file, NEW a, NEW b
  PROVE  Made(file, a, b) = Handled(file, b, a)
BY DEF Made, Handled

(* A configuration of two projects, which is the one there is.             *)
TwoProjects(a, b) ==
  /\ Len(Projects) = 2
  /\ a # b
  /\ {Projects[1].name, Projects[2].name} = {a, b}

(* With two projects each file is written once, for the other as its peer. *)
LEMMA OnePair ==
  ASSUME NEW a, NEW b, TwoProjects(a, b)
  PROVE  /\ PairsOf(a) = {LastPair(a)}
         /\ LastPair(a) \in {<<1, 2>>, <<2, 1>>}
         /\ LastPair(b) = <<LastPair(a)[2], LastPair(a)[1]>>
         /\ Projects[LastPair(a)[1]].name = a
<1>1. DOMAIN Projects = {1, 2}
  BY ProtocolAssumption DEF TwoProjects
<1>2. Projects[1].name # Projects[2].name
  BY DEF TwoProjects
<1>3. Pairs = {<<1, 2>>, <<2, 1>>}
  BY <1>1, <1>2 DEF Pairs
<1>4. ASSUME NEW i \in {1, 2}, NEW j \in {1, 2}, i # j, NEW n, Projects[i].name = n
      PROVE  PairsOf(n) = {<<i, j>>} /\ LastPair(n) = <<i, j>>
  <2>1. PairsOf(n) = {<<i, j>>}
    BY <1>2, <1>3, <1>4 DEF PairsOf
  <2>2. Before(<<i, j>>, <<i, j>>)
    BY <1>4 DEF Before
  <2>3. QED
    BY <2>1, <2>2 DEF LastPair
<1>5. CASE Projects[1].name = a /\ Projects[2].name = b
  BY <1>4, <1>5
<1>6. CASE Projects[2].name = a /\ Projects[1].name = b
  BY <1>4, <1>6
<1>7. QED
  BY <1>5, <1>6 DEF TwoProjects

LEMMA PeersMirror ==
  ASSUME NEW a, NEW b, TwoProjects(a, b), NEW file
  PROVE  HandlerFile(a, file).made = HandlerFile(b, file).handled
<1>1. PICK i, j : LastPair(a) = <<i, j>> /\ LastPair(b) = <<j, i>>
  BY OnePair
<1>2. QED
  BY <1>1, MadeIsHandled DEF HandlerFile, GenerateHandlerFile

(* PacketId.proto as its comments and the config mean it: an id names one  *)
(* message, and its upper half the service whose handler is the class made *)
(* from the message's file.                                                *)
IdsAreSound ==
  /\ "PacketId" \in DescFiles
  /\ \A m, n \in Messages : PacketIds[m.name] = PacketIds[n.name] => m = n
  /\ \A m \in Messages : \E s \in Services :
       /\ s.type = GET_SERVICE_TYPE(PacketIds[m.name])
       /\ s.handler = m.file
  /\ \A s, t \in Services : s.type = t.type => s = t

(* A packet with a handler is given to that one.                           *)
LEMMA Dispatches ==
  ASSUME IdsAreSound, NEW b, NEW file, NEW m \in HandlerFile(b, file).handled
  PROVE  HandlePacketServiceType(b, PacketIds[m.name]) = HANDLE(m)
<1>1. \A n \in HandlerFile(b, file).handled : n \in Messages /\ n.file = file
  BY DEF HandlerFile, GenerateHandlerFile, Handled, InFile
<1>2. sPacketHandleMap(b, file, PacketIds[m.name]) = {m}
  BY <1>1 DEF sPacketHandleMap, IdsAreSound
<1>3. HandlePacket(b, file, PacketIds[m.name]) = HANDLE(m)
  BY <1>2 DEF HandlePacket
<1>4. PICK s \in Services : /\ s.type = GET_SERVICE_TYPE(PacketIds[m.name])
                            /\ s.handler = file
  BY <1>1 DEF IdsAreSound
<1>5. sPacketServiceTypeMap(GET_SERVICE_TYPE(PacketIds[m.name])) = {s}
  BY <1>4 DEF sPacketServiceTypeMap, ServiceInits, IdsAreSound
<1>6. QED
  BY <1>3, <1>4, <1>5 DEF HandlePacketServiceType

(* A packet that one of two programs can send, whatever its options are,   *)
(* is given to its own handler by the other (HandlePacketServiceType).     *)
THEOREM SentIsHandled ==
  ASSUME NEW a, NEW b, TwoProjects(a, b), IdsAreSound, NEW m \in Sendable(a)
  PROVE  HandlePacketServiceType(b, PacketIds[m.name]) = HANDLE(m)
<1>1. PICK file \in Files : m \in HandlerFile(a, file).made
  BY DEF Sendable
<1>2. QED
  BY <1>1, PeersMirror, Dispatches

(* With any number of projects, each name used once, the file of a project *)
(* is the one written for the last of the others.                          *)
NamesAreUnique ==
  \A i, j \in DOMAIN Projects : Projects[i].name = Projects[j].name => i = j

LEMMA LastPeer ==
  ASSUME NamesAreUnique, NEW i \in DOMAIN Projects, NEW k \in DOMAIN Projects, i # k
  PROVE  \E j \in DOMAIN Projects : LastPair(Projects[i].name) = <<i, j>>
<1> DEFINE n == Len(Projects)
           j == IF i = n THEN n - 1 ELSE n
           a == Projects[i].name
<1>1. n \in Nat /\ DOMAIN Projects = 1..n
  BY ProtocolAssumption
<1>2. j \in DOMAIN Projects /\ i # j /\ \A x \in DOMAIN Projects : x # i => x <= j
  BY <1>1
<1>3. PairsOf(a) = {<<i, x>> : x \in DOMAIN Projects \ {i}}
  BY DEF PairsOf, Pairs, NamesAreUnique
<1>4. \A q \in PairsOf(a) : Before(q, <<i, j>>)
  BY <1>1, <1>2, <1>3 DEF Before
<1>5. <<i, j>> \in PairsOf(a)
  BY <1>2, <1>3
<1>6. ASSUME NEW p \in PairsOf(a), Before(<<i, j>>, p) PROVE p = <<i, j>>
  BY <1>1, <1>2, <1>3, <1>6 DEF Before
<1>7. LastPair(a) = <<i, j>>
  BY <1>4, <1>5, <1>6 DEF LastPair
<1>8. QED
  BY <1>2, <1>7

(* However many projects there are, a message whose options name the roles *)
(* of two of them can be sent by the one and is handled by the other       *)
(* (GenerateInitHandleString, GenerateMakeSendBufferFunction).             *)
THEOREM MessageReachesReceiver ==
  ASSUME NamesAreUnique, IdsAreSound,
         NEW i \in DOMAIN Projects, NEW k \in DOMAIN Projects, i # k,
         NEW m \in Messages, m.marked,
         m.sender = Projects[i].role, m.receiver = Projects[k].role
  PROVE  /\ m \in Sendable(Projects[i].name)
         /\ HandlePacketServiceType(Projects[k].name, PacketIds[m.name]) = HANDLE(m)
<1>1. m.file \in Files /\ m \in InFile(m.file)
  BY ProtocolAssumption DEF InFile
<1>2. m \in HandlerFile(Projects[i].name, m.file).made
  <2>1. PICK j : LastPair(Projects[i].name) = <<i, j>>
    BY LastPeer
  <2>2. QED
    BY <1>1, <2>1 DEF HandlerFile, GenerateHandlerFile, Made
<1>3. m \in HandlerFile(Projects[k].name, m.file).handled
  <2>1. PICK j : LastPair(Projects[k].name) = <<k, j>>
    BY LastPeer
  <2>2. QED
    BY <1>1, <2>1 DEF HandlerFile, GenerateHandlerFile, Handled
<1>4. QED
  BY <1>1, <1>2, <1>3, Dispatches DEF Sendable

(* When every message runs between two different roles, a program has no   *)
(* handler for what it sends itself: a packet that comes back is invalid.  *)
THEOREM EchoIsInvalid ==
  ASSUME NEW a, NEW b, TwoProjects(a, b), IdsAreSound,
         Projects[1].role # Projects[2].role,
         \A m \in Messages : /\ m.sender # m.receiver
                             /\ {m.sender, m.receiver} =
                                  {Projects[1].role, Projects[2].role},
         NEW m \in Sendable(a)
  PROVE  HandlePacketServiceType(a, PacketIds[m.name]) = HANDLE_PACKET_ID_INVALID
<1>1. PICK file \in Files : m \in HandlerFile(a, file).made
  BY DEF Sendable
<1>2. PICK i \in {1, 2}, j \in {1, 2} : i # j /\ LastPair(a) = <<i, j>>
  BY OnePair
<1>3. /\ m \in Messages /\ m.file = file
      /\ m.receiver = Projects[j].role \/ m.sender = Projects[i].role
  BY <1>1, <1>2 DEF HandlerFile, GenerateHandlerFile, Made, InFile
<1>4. \A n \in HandlerFile(a, file).handled :
        /\ n \in Messages
        /\ n.receiver = Projects[i].role \/ n.sender = Projects[j].role
  BY <1>2 DEF HandlerFile, GenerateHandlerFile, Handled, InFile
<1>5. m \notin HandlerFile(a, file).handled
  <2>1. m.receiver = Projects[j].role /\ m.sender = Projects[i].role
    BY <1>2, <1>3
  <2>2. QED
    BY <2>1, <1>2, <1>4
<1>6. sPacketHandleMap(a, file, PacketIds[m.name]) = {}
  BY <1>3, <1>4, <1>5 DEF sPacketHandleMap, IdsAreSound
<1>7. PICK s \in Services : /\ s.type = GET_SERVICE_TYPE(PacketIds[m.name])
                            /\ s.handler = file
  BY <1>3 DEF IdsAreSound
<1>8. sPacketServiceTypeMap(GET_SERVICE_TYPE(PacketIds[m.name])) = {s}
  BY <1>7 DEF sPacketServiceTypeMap, ServiceInits, IdsAreSound
<1>9. QED
  BY <1>6, <1>7, <1>8 DEF HandlePacketServiceType, HandlePacket

-----------------------------------------------------------------------------
(* Sender.                                                                 *)

(* The threads that f puts at one of the steps L; how many it puts at one. *)
At(f, L) == {t \in Threads : f[t] \in L}
Number(f, step) == Cardinality(At(f, {step}))

(* The counter differs from the nodes by the buffers that are linked and   *)
(* not counted, and by the reservations that found nothing.                *)
CountTrailsQueue ==
  Len(queue) = count + Number(pc, "count") + Number(pc, "restore")

(* Whoever is about to link a buffer is one of the MaxSends.               *)
SendsBounded == linked + Number(pc, "link") <= MaxSends

(* Buffers are gathered as long as the array has room.                     *)
BatchHasRoom == \A t \in Threads : pc[t] = "take" => Len(batch[t]) < MaxBuffers

(* Nothing of the sender is cleared before mpOwner is.                     *)
OwnerClearedFirst ==
  owner => /\ ~freed
           /\ \A t \in Threads :
                pc[t] \notin {"clearPending", "clearFlag", "clearQueue", "null"}

(* Buffers in hand belong to a registration, until its WSASend is out.     *)
InHandRegisters ==
  Open => \A t \in Threads : batch[t] # << >> =>
            \/ pc[t] \in {"take", "restore", "issue"}
            \/ pc[t] = "answer" /\ ~bytes[t]

IInv == /\ TypeOK
        /\ CountTrailsQueue /\ SendsBounded /\ BatchHasRoom
        /\ OwnerClearedFirst /\ InHandRegisters
        /\ OneSendAtATime /\ SentInOrder
-----------------------------------------------------------------------------
LEMMA AtFinite ==
  ASSUME NEW f, NEW L
  PROVE  IsFiniteSet(At(f, L)) /\ Cardinality(At(f, L)) \in Nat
BY SenderAssumption, FS_Subset, FS_CardinalityType DEF At

(* How the number of threads at some steps changes when one thread moves.  *)
LEMMA GoMoves ==
  ASSUME NEW t \in Threads, NEW l, NEW m, NEW L, TypeOK, Go(t, l, m)
  PROVE  /\ Cardinality(At(pc, L)) \in Nat /\ Cardinality(At(pc', L)) \in Nat
         /\ m \in L /\ l \notin L => Cardinality(At(pc', L)) = Cardinality(At(pc, L)) + 1
         /\ m \notin L /\ l \in L => Cardinality(At(pc', L)) = Cardinality(At(pc, L)) - 1
         /\ (m \in L <=> l \in L) => Cardinality(At(pc', L)) = Cardinality(At(pc, L))
<1>1. pc \in [Threads -> Labels] /\ pc[t] = l /\ pc' = [pc EXCEPT ![t] = m]
  BY DEF TypeOK, Go
<1>2. /\ IsFiniteSet(At(pc, L)) /\ Cardinality(At(pc, L)) \in Nat
      /\ Cardinality(At(pc', L)) \in Nat
  BY AtFinite
<1>3. t \in At(pc, L) <=> l \in L
  BY <1>1 DEF At
<1>4. CASE m \in L
  <2>1. At(pc', L) = At(pc, L) \cup {t}
    BY <1>1, <1>4 DEF At
  <2>2. Cardinality(At(pc', L)) = IF t \in At(pc, L) THEN Cardinality(At(pc, L))
                                             ELSE Cardinality(At(pc, L)) + 1
    BY <2>1, <1>2, FS_AddElement
  <2> QED
    BY <1>2, <1>3, <1>4, <2>2
<1>5. CASE m \notin L
  <2>1. At(pc', L) = At(pc, L) \ {t}
    BY <1>1, <1>5 DEF At
  <2>2. Cardinality(At(pc', L)) = IF t \in At(pc, L) THEN Cardinality(At(pc, L)) - 1
                                             ELSE Cardinality(At(pc, L))
    BY <2>1, <1>2, FS_RemoveElement
  <2> QED
    BY <1>2, <1>3, <1>5, <2>2
<1> QED
  BY <1>4, <1>5

LEMMA NumberMoves ==
  ASSUME NEW t \in Threads, NEW l, NEW m, TypeOK, Go(t, l, m)
  PROVE  \A x : /\ Number(pc, x) \in Nat /\ Number(pc', x) \in Nat
                /\ m = x /\ l # x => Number(pc', x) = Number(pc, x) + 1
                /\ m # x /\ l = x => Number(pc', x) = Number(pc, x) - 1
                /\ (m = x <=> l = x) => Number(pc', x) = Number(pc, x)
<1> SUFFICES ASSUME NEW x
             PROVE  /\ Number(pc, x) \in Nat /\ Number(pc', x) \in Nat
                    /\ m = x /\ l # x => Number(pc', x) = Number(pc, x) + 1
                    /\ m # x /\ l = x => Number(pc', x) = Number(pc, x) - 1
                    /\ (m = x <=> l = x) => Number(pc', x) = Number(pc, x)
  OBVIOUS
<1> DEFINE L == {x}
<1>1. (m \in L <=> m = x) /\ (l \in L <=> l = x)
  OBVIOUS
<1>2. Number(pc, x) = Cardinality(At(pc, L)) /\ Number(pc', x) = Cardinality(At(pc', L))
  BY DEF Number
<1> HIDE DEF L
<1> QED
  BY <1>1, <1>2, GoMoves

(* A counted buffer is linked.                                             *)
LEMMA CountedIsLinked ==
  ASSUME TypeOK, CountTrailsQueue, count > 0
  PROVE  queue # << >>
<1>1. Number(pc, "count") \in Nat /\ Number(pc, "restore") \in Nat
  BY AtFinite DEF Number
<1>2. Len(queue) > 0
  BY <1>1 DEF TypeOK, CountTrailsQueue
<1> QED
  BY <1>2 DEF TypeOK

LEMMA LabelFacts ==
  /\ "idle" \in Labels /\ "link" \in Labels /\ "count" \in Labels
  /\ "register" \in Labels /\ "raise" \in Labels /\ "take" \in Labels
  /\ "restore" \in Labels /\ "lower" \in Labels /\ "recheck" \in Labels
  /\ "issue" \in Labels /\ "process" \in Labels /\ "answer" \in Labels
  /\ "null" \in Labels /\ "clear" \in Labels /\ "clearPending" \in Labels
  /\ "clearFlag" \in Labels /\ "clearQueue" \in Labels
BY DEF Labels

-----------------------------------------------------------------------------
(* Steps keep the types.  A link finds room below MaxSends, a reservation  *)
(* a node.                                                                 *)
LEMMA TypeInv == IInv /\ [Next]_vars => TypeOK'
<1> SUFFICES ASSUME IInv, [Next]_vars PROVE TypeOK'
  OBVIOUS
<1>0. TypeOK /\ CountTrailsQueue /\ SendsBounded /\ BatchHasRoom
  BY DEF IInv
<1>1. CASE UNCHANGED vars
  BY <1>1, <1>0, LabelFacts DEF vars, session, TypeOK
<1>2. ASSUME NEW t \in Threads, SendBegin(t) PROVE TypeOK'
  BY <1>2, <1>0, LabelFacts DEF SendBegin, Go, session, TypeOK
<1>3. ASSUME NEW t \in Threads, Complete(t) PROVE TypeOK'
  <2>1. pc' \in [Threads -> Labels]
    BY <1>3, <1>0, LabelFacts DEF Complete, Go, session, TypeOK
  <2>2. bytes' \in [Threads -> BOOLEAN]
    BY <1>3, <1>0 DEF Complete, Go, session, TypeOK
  <2>3. flight' \in Seq(Seq(Buffers))
    BY <1>3, <1>0 DEF Complete, Go, session, TypeOK
  <2>4. pending' \in Seq(Buffers)
    BY <1>3, <1>0 DEF Complete, Go, session, TypeOK
  <2> QED
    BY <1>3, <1>0, <2>1, <2>2, <2>3, <2>4 DEF Complete, Go, session, TypeOK
<1>4. ASSUME NEW t \in Threads, ProcessDisconnect(t) PROVE TypeOK'
  BY <1>4, <1>0, LabelFacts DEF ProcessDisconnect, Go, TypeOK
<1>5. ASSUME NEW t \in Threads, Link(t) PROVE TypeOK'
  <2>1. Go(t, "link", "count")
    BY <1>5 DEF Link
  <2>2. /\ Number(pc, "link") \in Nat /\ Number(pc', "link") \in Nat
        /\ Number(pc', "link") = Number(pc, "link") - 1
    BY <1>0, <2>1, NumberMoves
  <2>3. linked + 1 \in Buffers /\ linked + 1 \in 0..MaxSends
    BY <1>0, <2>1, <2>2, SenderAssumption DEF SendsBounded, Buffers, TypeOK
  <2>4. queue' \in Seq(Buffers)
    BY <1>5, <1>0, <2>3 DEF Link, TypeOK
  <2>5. pc' \in [Threads -> Labels]
    BY <1>5, <1>0, LabelFacts DEF Link, Go, TypeOK
  <2> QED
    BY <1>5, <1>0, <2>3, <2>4, <2>5 DEF Link, session, TypeOK
<1>6. ASSUME NEW t \in Threads, AddCount(t) PROVE TypeOK'
  <2>1. pc' \in [Threads -> Labels]
    BY <1>6, <1>0, LabelFacts DEF AddCount, Go, session, TypeOK
  <2>2. count' \in Int
    BY <1>6, <1>0 DEF AddCount, Go, session, TypeOK
  <2> QED
    BY <1>6, <1>0, <2>1, <2>2 DEF AddCount, Go, session, TypeOK
<1>7. ASSUME NEW t \in Threads, RegisterBegin(t) PROVE TypeOK'
  BY <1>7, <1>0, LabelFacts DEF RegisterBegin, Go, session, TypeOK
<1>8. ASSUME NEW t \in Threads, Raise(t) PROVE TypeOK'
  <2>1. pc' \in [Threads -> Labels]
    BY <1>8, <1>0, LabelFacts DEF Raise, Go, session, TypeOK
  <2>2. batch' \in [Threads -> Seq(Buffers)]
    BY <1>8, <1>0 DEF Raise, Go, session, TypeOK
  <2>3. \A u \in Threads : Len(batch'[u]) <= MaxBuffers
    BY <1>8, <1>0, SenderAssumption DEF Raise, Go, session, TypeOK
  <2> QED
    BY <1>8, <1>0, <2>1, <2>2, <2>3 DEF Raise, Go, session, TypeOK
<1>9. ASSUME NEW t \in Threads, Take(t) PROVE TypeOK'
  <2>1. count > 0 => queue # << >>
    BY <1>0, CountedIsLinked
  <2>2. pc' \in [Threads -> Labels]
    BY <1>9, <1>0, LabelFacts DEF Take, Go, TypeOK
  <2>3. CASE count > 0
    <3>1. Head(queue) \in Buffers /\ Tail(queue) \in Seq(Buffers)
      BY <1>0, <2>1, <2>3 DEF TypeOK
    <3>2. batch' = [batch EXCEPT ![t] = Append(batch[t], Head(queue))]
      BY <1>9, <2>3 DEF Take
    <3>3. /\ Append(batch[t], Head(queue)) \in Seq(Buffers)
          /\ Len(Append(batch[t], Head(queue))) = Len(batch[t]) + 1
      BY <1>0, <3>1 DEF TypeOK
    <3>4. Len(batch[t]) < MaxBuffers /\ Len(batch[t]) \in Nat
      BY <1>9, <1>0 DEF Take, Go, BatchHasRoom, TypeOK
    <3>5. /\ batch' \in [Threads -> Seq(Buffers)]
          /\ \A u \in Threads : Len(batch'[u]) <= MaxBuffers
      BY <1>0, <3>2, <3>3, <3>4, SenderAssumption DEF TypeOK
    <3>6. queue' = Tail(queue) /\ pending' = Append(pending, Head(queue))
      BY <1>9, <2>3 DEF Take
    <3>7. pending' \in Seq(Buffers) /\ count' \in Int
      BY <1>9, <1>0, <3>1, <3>6 DEF Take, TypeOK
    <3> QED
      BY <1>9, <1>0, <2>2, <3>1, <3>5, <3>6, <3>7 DEF Take, session, TypeOK
  <2>4. CASE ~(count > 0)
    <3>1. count' \in Int /\ UNCHANGED <<queue, pending, batch>>
      BY <1>9, <1>0, <2>4 DEF Take, TypeOK
    <3> QED
      BY <1>9, <1>0, <2>2, <3>1 DEF Take, session, TypeOK
  <2> QED
    BY <2>3, <2>4
<1>10. ASSUME NEW t \in Threads, Restore(t) PROVE TypeOK'
  <2>1. pc' \in [Threads -> Labels]
    BY <1>10, <1>0, LabelFacts DEF Restore, Go, session, TypeOK
  <2>2. count' \in Int
    BY <1>10, <1>0 DEF Restore, Go, session, TypeOK
  <2> QED
    BY <1>10, <1>0, <2>1, <2>2 DEF Restore, Go, session, TypeOK
<1>11. ASSUME NEW t \in Threads, Lower(t) PROVE TypeOK'
  BY <1>11, <1>0, LabelFacts DEF Lower, Go, session, TypeOK
<1>12. ASSUME NEW t \in Threads, Recheck(t) PROVE TypeOK'
  BY <1>12, <1>0, LabelFacts DEF Recheck, Go, session, TypeOK
<1>13. ASSUME NEW t \in Threads, IssueStep(t) PROVE TypeOK'
  <2>1. pc' \in [Threads -> Labels]
    BY <1>13, <1>0, LabelFacts DEF IssueStep, Issue, Go, TypeOK
  <2>2. CASE batch' = [batch EXCEPT ![t] = << >>]
    <3>1. \/ flight' = Append(flight, batch[t]) /\ issued' = issued \o batch[t]
          \/ UNCHANGED <<flight, issued>>
      BY <1>13 DEF IssueStep, Issue
    <3>2. /\ batch[t] \in Seq(Buffers) /\ issued \in Seq(Buffers)
          /\ flight \in Seq(Seq(Buffers))
      BY <1>0 DEF TypeOK
    <3>3. flight' \in Seq(Seq(Buffers))
      <4>1. Append(flight, batch[t]) \in Seq(Seq(Buffers))
        BY <3>2
      <4> QED
        BY <3>1, <3>2, <4>1
    <3>4. issued' \in Seq(Buffers)
      BY <3>1, <3>2, ConcatProperties
    <3>5. /\ batch' \in [Threads -> Seq(Buffers)]
          /\ \A u \in Threads : Len(batch'[u]) <= MaxBuffers
      BY <1>0, <2>2, SenderAssumption DEF TypeOK
    <3>6. bytes' \in [Threads -> BOOLEAN] /\ fault' \in BOOLEAN
      BY <1>13, <1>0 DEF IssueStep, Issue, Fault, TypeOK
    <3> QED
      BY <1>13, <1>0, <2>1, <3>3, <3>4, <3>5, <3>6 DEF IssueStep, session,
         TypeOK
  <2>3. CASE UNCHANGED <<flight, issued, batch>>
    <3>1. bytes' \in [Threads -> BOOLEAN] /\ fault' \in BOOLEAN
      BY <1>13, <1>0 DEF IssueStep, Issue, Fault, TypeOK
    <3> QED
      BY <1>13, <1>0, <2>1, <2>3, <3>1 DEF IssueStep, session, TypeOK
  <2> QED
    BY <1>13, <2>2, <2>3 DEF IssueStep, Issue
<1>14. ASSUME NEW t \in Threads, ProcessStep(t) PROVE TypeOK'
  BY <1>14, <1>0, LabelFacts DEF ProcessStep, Process, Answer, Close, Fault,
     Go, session, TypeOK
<1>15. ASSUME NEW t \in Threads, ClearOwner(t) PROVE TypeOK'
  BY <1>15, <1>0, LabelFacts DEF ClearOwner, Go, session, TypeOK
<1>16. ASSUME NEW t \in Threads, ClearPending(t) PROVE TypeOK'
  <2>1. pc' \in [Threads -> Labels]
    BY <1>16, <1>0, LabelFacts DEF ClearPending, Go, session, TypeOK
  <2>2. pending' \in Seq(Buffers)
    BY <1>16, <1>0, EmptySeq DEF ClearPending, Go, session, TypeOK
  <2> QED
    BY <1>16, <1>0, <2>1, <2>2 DEF ClearPending, Go, session, TypeOK
<1>17. ASSUME NEW t \in Threads, ClearFlag(t) PROVE TypeOK'
  BY <1>17, <1>0, LabelFacts DEF ClearFlag, Go, session, TypeOK
<1>18. ASSUME NEW t \in Threads, ClearQueue(t) PROVE TypeOK'
  BY <1>18, <1>0, LabelFacts DEF ClearQueue, Go, session, TypeOK
<1>19. ASSUME NEW t \in Threads, NullOwner(t) PROVE TypeOK'
  BY <1>19, <1>0, LabelFacts DEF NullOwner, Fault, Go, session, TypeOK
<1>20. ASSUME NEW t \in Threads, UseFreed(t) PROVE TypeOK'
  BY <1>20, <1>0, LabelFacts DEF UseFreed, Fault, Go, session, TypeOK
<1>21. CASE Disconnect
  BY <1>21, <1>0, LabelFacts DEF Disconnect, Close, session, TypeOK
<1> QED
  BY <1>1, <1>2, <1>3, <1>4, <1>5, <1>6, <1>7, <1>8, <1>9, <1>10,
     <1>11, <1>12, <1>13, <1>14, <1>15, <1>16, <1>17, <1>18, <1>19,
     <1>20, <1>21
     DEF Next, Step

-----------------------------------------------------------------------------
(* The counter goes on trailing the queue by those buffers and reservations. *)
LEMMA CountInv == IInv /\ [Next]_vars => CountTrailsQueue'
<1> SUFFICES ASSUME IInv, [Next]_vars PROVE CountTrailsQueue'
  OBVIOUS
<1>0. TypeOK /\ CountTrailsQueue
  BY DEF IInv
<1>b. /\ Number(pc, "count") \in Nat /\ Number(pc', "count") \in Nat
      /\ Number(pc, "restore") \in Nat /\ Number(pc', "restore") \in Nat
      /\ count \in Int /\ Len(queue) \in Nat
  BY <1>0, AtFinite DEF Number, TypeOK
<1>1. CASE UNCHANGED vars
  BY <1>1, <1>0, NumberMoves DEF vars, session, CountTrailsQueue
<1>2. ASSUME NEW t \in Threads, SendBegin(t) PROVE CountTrailsQueue'
  BY <1>2, <1>0, NumberMoves DEF SendBegin, session, CountTrailsQueue
<1>3. ASSUME NEW t \in Threads, Complete(t) PROVE CountTrailsQueue'
  BY <1>3, <1>0, NumberMoves DEF Complete, session, CountTrailsQueue
<1>4. ASSUME NEW t \in Threads, ProcessDisconnect(t) PROVE CountTrailsQueue'
  BY <1>4, <1>0, NumberMoves DEF ProcessDisconnect, CountTrailsQueue
<1>5. ASSUME NEW t \in Threads, Link(t) PROVE CountTrailsQueue'
  <2>1. Go(t, "link", "count") /\ count' = count
    BY <1>5 DEF Link
  <2>2. Number(pc', "count") = Number(pc, "count") + 1
    BY <1>0, <2>1, NumberMoves
  <2>3. Number(pc', "restore") = Number(pc, "restore")
    BY <1>0, <2>1, NumberMoves
  <2>4. Len(queue') = Len(queue) + 1
    BY <1>5, <1>0 DEF Link, TypeOK
  <2> QED
    BY <1>0, <1>b, <2>1, <2>2, <2>3, <2>4 DEF CountTrailsQueue
<1>6. ASSUME NEW t \in Threads, AddCount(t) PROVE CountTrailsQueue'
  <2>1. Go(t, "count", "register") /\ count' = count + 1 /\ queue' = queue
    BY <1>6 DEF AddCount
  <2>2. Number(pc', "count") = Number(pc, "count") - 1
    BY <1>0, <2>1, NumberMoves
  <2>3. Number(pc', "restore") = Number(pc, "restore")
    BY <1>0, <2>1, NumberMoves
  <2> QED
    BY <1>0, <1>b, <2>1, <2>2, <2>3 DEF CountTrailsQueue
<1>7. ASSUME NEW t \in Threads, RegisterBegin(t) PROVE CountTrailsQueue'
  BY <1>7, <1>0, NumberMoves DEF RegisterBegin, session, CountTrailsQueue
<1>8. ASSUME NEW t \in Threads, Raise(t) PROVE CountTrailsQueue'
  BY <1>8, <1>0, NumberMoves DEF Raise, session, CountTrailsQueue
<1>9. ASSUME NEW t \in Threads, Take(t) PROVE CountTrailsQueue'
  <2>1. CASE count > 0
    <3>1. PICK m \in {"issue", "take"} : Go(t, "take", m)
      BY <1>9, <2>1 DEF Take
    <3>2. count' = count - 1 /\ queue' = Tail(queue)
      BY <1>9, <2>1 DEF Take
    <3>3. Len(queue') = Len(queue) - 1
      BY <1>0, <2>1, <3>2, CountedIsLinked DEF TypeOK
    <3>4. /\ Number(pc', "count") = Number(pc, "count")
          /\ Number(pc', "restore") = Number(pc, "restore")
      BY <1>0, <3>1, NumberMoves
    <3> QED
      BY <1>0, <1>b, <3>1, <3>2, <3>3, <3>4 DEF CountTrailsQueue
  <2>2. CASE ~(count > 0)
    <3>1. Go(t, "take", "restore") /\ count' = count - 1 /\ queue' = queue
      BY <1>9, <2>2 DEF Take
    <3>2. Number(pc', "count") = Number(pc, "count")
      BY <1>0, <3>1, NumberMoves
    <3>3. Number(pc', "restore") = Number(pc, "restore") + 1
      BY <1>0, <3>1, NumberMoves
    <3> QED
      BY <1>0, <1>b, <3>1, <3>2, <3>3 DEF CountTrailsQueue
  <2> QED
    BY <2>1, <2>2
<1>10. ASSUME NEW t \in Threads, Restore(t) PROVE CountTrailsQueue'
  <2>1. PICK m \in {"lower", "issue"} : Go(t, "restore", m)
    BY <1>10 DEF Restore
  <2>2. count' = count + 1 /\ queue' = queue
    BY <1>10 DEF Restore
  <2>3. Number(pc', "count") = Number(pc, "count")
    BY <1>0, <2>1, NumberMoves
  <2>4. Number(pc', "restore") = Number(pc, "restore") - 1
    BY <1>0, <2>1, NumberMoves
  <2> QED
    BY <1>0, <1>b, <2>1, <2>2, <2>3, <2>4 DEF CountTrailsQueue
<1>11. ASSUME NEW t \in Threads, Lower(t) PROVE CountTrailsQueue'
  BY <1>11, <1>0, NumberMoves DEF Lower, session, CountTrailsQueue
<1>12. ASSUME NEW t \in Threads, Recheck(t) PROVE CountTrailsQueue'
  BY <1>12, <1>0, NumberMoves DEF Recheck, session, CountTrailsQueue
<1>13. ASSUME NEW t \in Threads, IssueStep(t) PROVE CountTrailsQueue'
  <2>1. PICK m \in {"idle", "answer"} : Go(t, "issue", m)
    BY <1>13 DEF IssueStep, Issue
  <2>2. count' = count /\ queue' = queue
    BY <1>13 DEF IssueStep
  <2> QED
    BY <1>0, <2>1, <2>2, NumberMoves DEF CountTrailsQueue
<1>14. ASSUME NEW t \in Threads, ProcessStep(t) PROVE CountTrailsQueue'
  BY <1>14, <1>0, NumberMoves DEF ProcessStep, Process, Answer, Close, Fault,
     session, CountTrailsQueue
<1>15. ASSUME NEW t \in Threads, ClearOwner(t) PROVE CountTrailsQueue'
  BY <1>15, <1>0, NumberMoves DEF ClearOwner, session, CountTrailsQueue
<1>16. ASSUME NEW t \in Threads, ClearPending(t) PROVE CountTrailsQueue'
  BY <1>16, <1>0, NumberMoves DEF ClearPending, session, CountTrailsQueue
<1>17. ASSUME NEW t \in Threads, ClearFlag(t) PROVE CountTrailsQueue'
  BY <1>17, <1>0, NumberMoves DEF ClearFlag, session, CountTrailsQueue
<1>18. ASSUME NEW t \in Threads, ClearQueue(t) PROVE CountTrailsQueue'
  BY <1>18, <1>0, NumberMoves DEF ClearQueue, session, CountTrailsQueue
<1>19. ASSUME NEW t \in Threads, NullOwner(t) PROVE CountTrailsQueue'
  BY <1>19, <1>0, NumberMoves DEF NullOwner, Fault, session, CountTrailsQueue
<1>20. ASSUME NEW t \in Threads, UseFreed(t) PROVE CountTrailsQueue'
  BY <1>20, <1>0, NumberMoves DEF UseFreed, Fault, session, CountTrailsQueue
<1>21. CASE Disconnect
  BY <1>21, <1>0, NumberMoves DEF Disconnect, Close, session, CountTrailsQueue
<1> QED
  BY <1>1, <1>2, <1>3, <1>4, <1>5, <1>6, <1>7, <1>8, <1>9, <1>10,
     <1>11, <1>12, <1>13, <1>14, <1>15, <1>16, <1>17, <1>18, <1>19,
     <1>20, <1>21
     DEF Next, Step

(* No more than MaxSends are ever begun.                                   *)
LEMMA SendsInv == IInv /\ [Next]_vars => SendsBounded'
<1> SUFFICES ASSUME IInv, [Next]_vars PROVE SendsBounded'
  OBVIOUS
<1>0. TypeOK /\ SendsBounded
  BY DEF IInv
<1>b. /\ Number(pc, "link") \in Nat /\ Number(pc', "link") \in Nat
      /\ linked \in Nat /\ MaxSends \in Nat
  BY <1>0, AtFinite, SenderAssumption DEF Number, TypeOK
<1>1. CASE UNCHANGED vars
  BY <1>1, <1>0, NumberMoves DEF vars, session, SendsBounded
<1>2. ASSUME NEW t \in Threads, SendBegin(t) PROVE SendsBounded'
  <2>1. PICK m \in {"link", "clear"} : Go(t, "idle", m)
    BY <1>2 DEF SendBegin
  <2>2. linked + Number(pc, "link") < MaxSends /\ linked' = linked
    <3>1. {u \in Threads : pc[u] = "link"} = At(pc, {"link"})
      BY DEF At
    <3> QED
      BY <1>2, <3>1 DEF SendBegin, Number
  <2>3. Number(pc', "link") <= Number(pc, "link") + 1
    <3>1. m = "link" => Number(pc', "link") = Number(pc, "link") + 1
      BY <1>0, <2>1, NumberMoves
    <3>2. m = "clear" => Number(pc', "link") = Number(pc, "link")
      BY <1>0, <2>1, NumberMoves
    <3> QED
      BY <1>b, <2>1, <3>1, <3>2
  <2> QED
    BY <1>0, <1>b, <2>1, <2>2, <2>3 DEF SendsBounded
<1>3. ASSUME NEW t \in Threads, Complete(t) PROVE SendsBounded'
  BY <1>3, <1>0, NumberMoves DEF Complete, session, SendsBounded
<1>4. ASSUME NEW t \in Threads, ProcessDisconnect(t) PROVE SendsBounded'
  BY <1>4, <1>0, NumberMoves DEF ProcessDisconnect, SendsBounded
<1>5. ASSUME NEW t \in Threads, Link(t) PROVE SendsBounded'
  <2>1. Go(t, "link", "count") /\ linked' = linked + 1
    BY <1>5 DEF Link
  <2>2. Number(pc', "link") = Number(pc, "link") - 1
    BY <1>0, <2>1, NumberMoves
  <2> QED
    BY <1>0, <1>b, <2>1, <2>2 DEF SendsBounded
<1>6. ASSUME NEW t \in Threads, AddCount(t) PROVE SendsBounded'
  BY <1>6, <1>0, NumberMoves DEF AddCount, session, SendsBounded
<1>7. ASSUME NEW t \in Threads, RegisterBegin(t) PROVE SendsBounded'
  BY <1>7, <1>0, NumberMoves DEF RegisterBegin, session, SendsBounded
<1>8. ASSUME NEW t \in Threads, Raise(t) PROVE SendsBounded'
  BY <1>8, <1>0, NumberMoves DEF Raise, session, SendsBounded
<1>9. ASSUME NEW t \in Threads, Take(t) PROVE SendsBounded'
  <2>1. PICK m \in {"issue", "take", "restore"} : Go(t, "take", m)
    BY <1>9 DEF Take
  <2>2. linked' = linked
    BY <1>9 DEF Take
  <2> QED
    BY <1>0, <2>1, <2>2, NumberMoves DEF SendsBounded
<1>10. ASSUME NEW t \in Threads, Restore(t) PROVE SendsBounded'
  BY <1>10, <1>0, NumberMoves DEF Restore, session, SendsBounded
<1>11. ASSUME NEW t \in Threads, Lower(t) PROVE SendsBounded'
  BY <1>11, <1>0, NumberMoves DEF Lower, session, SendsBounded
<1>12. ASSUME NEW t \in Threads, Recheck(t) PROVE SendsBounded'
  BY <1>12, <1>0, NumberMoves DEF Recheck, session, SendsBounded
<1>13. ASSUME NEW t \in Threads, IssueStep(t) PROVE SendsBounded'
  BY <1>13, <1>0, NumberMoves DEF IssueStep, Issue, Fault, session,
     SendsBounded
<1>14. ASSUME NEW t \in Threads, ProcessStep(t) PROVE SendsBounded'
  BY <1>14, <1>0, NumberMoves DEF ProcessStep, Process, Answer, Close, Fault,
     session, SendsBounded
<1>15. ASSUME NEW t \in Threads, ClearOwner(t) PROVE SendsBounded'
  BY <1>15, <1>0, NumberMoves DEF ClearOwner, session, SendsBounded
<1>16. ASSUME NEW t \in Threads, ClearPending(t) PROVE SendsBounded'
  BY <1>16, <1>0, NumberMoves DEF ClearPending, session, SendsBounded
<1>17. ASSUME NEW t \in Threads, ClearFlag(t) PROVE SendsBounded'
  BY <1>17, <1>0, NumberMoves DEF ClearFlag, session, SendsBounded
<1>18. ASSUME NEW t \in Threads, ClearQueue(t) PROVE SendsBounded'
  BY <1>18, <1>0, NumberMoves DEF ClearQueue, session, SendsBounded
<1>19. ASSUME NEW t \in Threads, NullOwner(t) PROVE SendsBounded'
  BY <1>19, <1>0, NumberMoves DEF NullOwner, Fault, session, SendsBounded
<1>20. ASSUME NEW t \in Threads, UseFreed(t) PROVE SendsBounded'
  <2>1. PICK l \in {"link", "take", "clearQueue"} : Go(t, l, "idle")
    BY <1>20 DEF UseFreed
  <2>2. linked' = linked
    BY <1>20 DEF UseFreed
  <2>3. Number(pc', "link") <= Number(pc, "link")
    <3>1. l = "link" => Number(pc', "link") = Number(pc, "link") - 1
      BY <1>0, <2>1, NumberMoves
    <3>2. l # "link" => Number(pc', "link") = Number(pc, "link")
      BY <1>0, <2>1, NumberMoves
    <3> QED
      BY <1>b, <2>1, <3>1, <3>2
  <2> QED
    BY <1>0, <1>b, <2>1, <2>2, <2>3 DEF SendsBounded
<1>21. CASE Disconnect
  BY <1>21, <1>0, NumberMoves DEF Disconnect, Close, session, SendsBounded
<1> QED
  BY <1>1, <1>2, <1>3, <1>4, <1>5, <1>6, <1>7, <1>8, <1>9, <1>10,
     <1>11, <1>12, <1>13, <1>14, <1>15, <1>16, <1>17, <1>18, <1>19,
     <1>20, <1>21
     DEF Next, Step

-----------------------------------------------------------------------------
(* The array never overflows: Register stops gathering when it is full.    *)
LEMMA RoomInv == IInv /\ [Next]_vars => BatchHasRoom'
<1> SUFFICES ASSUME IInv, [Next]_vars PROVE BatchHasRoom'
  OBVIOUS
<1>0. TypeOK /\ BatchHasRoom
  BY DEF IInv
<1>1. CASE UNCHANGED vars
  BY <1>1, <1>0 DEF vars, session, BatchHasRoom, TypeOK
<1>2. ASSUME NEW t \in Threads, SendBegin(t) PROVE BatchHasRoom'
  BY <1>2, <1>0 DEF SendBegin, Go, session, BatchHasRoom, TypeOK
<1>3. ASSUME NEW t \in Threads, Complete(t) PROVE BatchHasRoom'
  BY <1>3, <1>0 DEF Complete, Go, session, BatchHasRoom, TypeOK
<1>4. ASSUME NEW t \in Threads, ProcessDisconnect(t) PROVE BatchHasRoom'
  BY <1>4, <1>0 DEF ProcessDisconnect, Go, BatchHasRoom, TypeOK
<1>5. ASSUME NEW t \in Threads, Link(t) PROVE BatchHasRoom'
  BY <1>5, <1>0 DEF Link, Go, session, BatchHasRoom, TypeOK
<1>6. ASSUME NEW t \in Threads, AddCount(t) PROVE BatchHasRoom'
  BY <1>6, <1>0 DEF AddCount, Go, session, BatchHasRoom, TypeOK
<1>7. ASSUME NEW t \in Threads, RegisterBegin(t) PROVE BatchHasRoom'
  BY <1>7, <1>0 DEF RegisterBegin, Go, session, BatchHasRoom, TypeOK
<1>8. ASSUME NEW t \in Threads, Raise(t) PROVE BatchHasRoom'
  BY <1>8, <1>0, SenderAssumption DEF Raise, Go, session, BatchHasRoom, TypeOK
<1>9. ASSUME NEW t \in Threads, Take(t) PROVE BatchHasRoom'
  <2>1. CASE count > 0 /\ Len(batch[t]) + 1 # MaxBuffers
    <3>1. /\ batch' = [batch EXCEPT ![t] = Append(batch[t], Head(queue))]
          /\ pc' = pc /\ pc[t] = "take"
      BY <1>9, <1>0, <2>1 DEF Take, Go, TypeOK
    <3>2. Len(Append(batch[t], Head(queue))) = Len(batch[t]) + 1 /\ Len(batch[t]) \in Nat
      BY <1>0 DEF TypeOK
    <3>3. Len(batch'[t]) < MaxBuffers
      BY <1>0, <2>1, <3>1, <3>2, SenderAssumption DEF BatchHasRoom, TypeOK
    <3> QED
      BY <1>0, <3>1, <3>3 DEF BatchHasRoom, TypeOK
  <2>2. CASE count > 0 /\ Len(batch[t]) + 1 = MaxBuffers
    BY <1>9, <1>0, <2>2 DEF Take, Go, BatchHasRoom, TypeOK
  <2>3. CASE ~(count > 0)
    BY <1>9, <1>0, <2>3 DEF Take, Go, BatchHasRoom, TypeOK
  <2> QED
    BY <2>1, <2>2, <2>3
<1>10. ASSUME NEW t \in Threads, Restore(t) PROVE BatchHasRoom'
  BY <1>10, <1>0 DEF Restore, Go, session, BatchHasRoom, TypeOK
<1>11. ASSUME NEW t \in Threads, Lower(t) PROVE BatchHasRoom'
  BY <1>11, <1>0 DEF Lower, Go, session, BatchHasRoom, TypeOK
<1>12. ASSUME NEW t \in Threads, Recheck(t) PROVE BatchHasRoom'
  BY <1>12, <1>0 DEF Recheck, Go, session, BatchHasRoom, TypeOK
<1>13. ASSUME NEW t \in Threads, IssueStep(t) PROVE BatchHasRoom'
  BY <1>13, <1>0 DEF IssueStep, Issue, Fault, Go, session, BatchHasRoom, TypeOK
<1>14. ASSUME NEW t \in Threads, ProcessStep(t) PROVE BatchHasRoom'
  BY <1>14, <1>0 DEF ProcessStep, Process, Answer, Close, Fault, Go, session,
     BatchHasRoom, TypeOK
<1>15. ASSUME NEW t \in Threads, ClearOwner(t) PROVE BatchHasRoom'
  BY <1>15, <1>0 DEF ClearOwner, Go, session, BatchHasRoom, TypeOK
<1>16. ASSUME NEW t \in Threads, ClearPending(t) PROVE BatchHasRoom'
  BY <1>16, <1>0 DEF ClearPending, Go, session, BatchHasRoom, TypeOK
<1>17. ASSUME NEW t \in Threads, ClearFlag(t) PROVE BatchHasRoom'
  BY <1>17, <1>0 DEF ClearFlag, Go, session, BatchHasRoom, TypeOK
<1>18. ASSUME NEW t \in Threads, ClearQueue(t) PROVE BatchHasRoom'
  BY <1>18, <1>0 DEF ClearQueue, Go, session, BatchHasRoom, TypeOK
<1>19. ASSUME NEW t \in Threads, NullOwner(t) PROVE BatchHasRoom'
  BY <1>19, <1>0 DEF NullOwner, Fault, Go, session, BatchHasRoom, TypeOK
<1>20. ASSUME NEW t \in Threads, UseFreed(t) PROVE BatchHasRoom'
  BY <1>20, <1>0 DEF UseFreed, Fault, Go, session, BatchHasRoom, TypeOK
<1>21. CASE Disconnect
  BY <1>21, <1>0 DEF Disconnect, Close, session, BatchHasRoom, TypeOK
<1> QED
  BY <1>1, <1>2, <1>3, <1>4, <1>5, <1>6, <1>7, <1>8, <1>9, <1>10,
     <1>11, <1>12, <1>13, <1>14, <1>15, <1>16, <1>17, <1>18, <1>19,
     <1>20, <1>21
     DEF Next, Step

(* Clear resets mpOwner before anything else, and nothing sets it again.   *)
LEMMA OwnerInv == IInv /\ [Next]_vars => OwnerClearedFirst'
<1> SUFFICES ASSUME IInv, [Next]_vars PROVE OwnerClearedFirst'
  OBVIOUS
<1>0. TypeOK /\ OwnerClearedFirst
  BY DEF IInv
<1>1. CASE UNCHANGED vars
  BY <1>1, <1>0 DEF vars, session, OwnerClearedFirst, TypeOK
<1>2. ASSUME NEW t \in Threads, SendBegin(t) PROVE OwnerClearedFirst'
  BY <1>2, <1>0 DEF SendBegin, Go, session, OwnerClearedFirst, TypeOK
<1>3. ASSUME NEW t \in Threads, Complete(t) PROVE OwnerClearedFirst'
  BY <1>3, <1>0 DEF Complete, Go, session, OwnerClearedFirst, TypeOK
<1>4. ASSUME NEW t \in Threads, ProcessDisconnect(t) PROVE OwnerClearedFirst'
  BY <1>4, <1>0 DEF ProcessDisconnect, Go, OwnerClearedFirst, TypeOK
<1>5. ASSUME NEW t \in Threads, Link(t) PROVE OwnerClearedFirst'
  BY <1>5, <1>0 DEF Link, Go, session, OwnerClearedFirst, TypeOK
<1>6. ASSUME NEW t \in Threads, AddCount(t) PROVE OwnerClearedFirst'
  BY <1>6, <1>0 DEF AddCount, Go, session, OwnerClearedFirst, TypeOK
<1>7. ASSUME NEW t \in Threads, RegisterBegin(t) PROVE OwnerClearedFirst'
  BY <1>7, <1>0 DEF RegisterBegin, Go, session, OwnerClearedFirst, TypeOK
<1>8. ASSUME NEW t \in Threads, Raise(t) PROVE OwnerClearedFirst'
  BY <1>8, <1>0 DEF Raise, Go, session, OwnerClearedFirst, TypeOK
<1>9. ASSUME NEW t \in Threads, Take(t) PROVE OwnerClearedFirst'
  BY <1>9, <1>0 DEF Take, Go, session, OwnerClearedFirst, TypeOK
<1>10. ASSUME NEW t \in Threads, Restore(t) PROVE OwnerClearedFirst'
  BY <1>10, <1>0 DEF Restore, Go, session, OwnerClearedFirst, TypeOK
<1>11. ASSUME NEW t \in Threads, Lower(t) PROVE OwnerClearedFirst'
  BY <1>11, <1>0 DEF Lower, Go, session, OwnerClearedFirst, TypeOK
<1>12. ASSUME NEW t \in Threads, Recheck(t) PROVE OwnerClearedFirst'
  BY <1>12, <1>0 DEF Recheck, Go, session, OwnerClearedFirst, TypeOK
<1>13. ASSUME NEW t \in Threads, IssueStep(t) PROVE OwnerClearedFirst'
  BY <1>13, <1>0 DEF IssueStep, Issue, Fault, Go, session, OwnerClearedFirst,
     TypeOK
<1>14. ASSUME NEW t \in Threads, ProcessStep(t) PROVE OwnerClearedFirst'
  BY <1>14, <1>0 DEF ProcessStep, Process, Answer, Close, Fault, Go, session,
     OwnerClearedFirst, TypeOK
<1>15. ASSUME NEW t \in Threads, ClearOwner(t) PROVE OwnerClearedFirst'
  BY <1>15, <1>0 DEF ClearOwner, Go, session, OwnerClearedFirst, TypeOK
<1>16. ASSUME NEW t \in Threads, ClearPending(t) PROVE OwnerClearedFirst'
  BY <1>16, <1>0 DEF ClearPending, Go, session, OwnerClearedFirst, TypeOK
<1>17. ASSUME NEW t \in Threads, ClearFlag(t) PROVE OwnerClearedFirst'
  BY <1>17, <1>0 DEF ClearFlag, Go, session, OwnerClearedFirst, TypeOK
<1>18. ASSUME NEW t \in Threads, ClearQueue(t) PROVE OwnerClearedFirst'
  BY <1>18, <1>0 DEF ClearQueue, Go, session, OwnerClearedFirst, TypeOK
<1>19. ASSUME NEW t \in Threads, NullOwner(t) PROVE OwnerClearedFirst'
  BY <1>19, <1>0 DEF NullOwner, Fault, Go, session, OwnerClearedFirst, TypeOK
<1>20. ASSUME NEW t \in Threads, UseFreed(t) PROVE OwnerClearedFirst'
  BY <1>20, <1>0 DEF UseFreed, Fault, Go, session, OwnerClearedFirst, TypeOK
<1>21. CASE Disconnect
  BY <1>21, <1>0 DEF Disconnect, Close, session, OwnerClearedFirst, TypeOK
<1> QED
  BY <1>1, <1>2, <1>3, <1>4, <1>5, <1>6, <1>7, <1>8, <1>9, <1>10,
     <1>11, <1>12, <1>13, <1>14, <1>15, <1>16, <1>17, <1>18, <1>19,
     <1>20, <1>21
     DEF Next, Step

(* The buffers in hand go to WSASend before the registration ends.         *)
LEMMA HandInv == IInv /\ [Next]_vars => InHandRegisters'
<1> SUFFICES ASSUME IInv, [Next]_vars PROVE InHandRegisters'
  OBVIOUS
<1>0. TypeOK /\ InHandRegisters
  BY DEF IInv
<1>1. CASE UNCHANGED vars
  BY <1>1, <1>0 DEF vars, session, InHandRegisters, Open, Usable, TypeOK
<1>2. ASSUME NEW t \in Threads, SendBegin(t) PROVE InHandRegisters'
  BY <1>2, <1>0 DEF SendBegin, Go, session, InHandRegisters, Open, Usable,
     TypeOK
<1>3. ASSUME NEW t \in Threads, Complete(t) PROVE InHandRegisters'
  BY <1>3, <1>0 DEF Complete, Go, session, InHandRegisters, Open, Usable,
     TypeOK
<1>4. ASSUME NEW t \in Threads, ProcessDisconnect(t) PROVE InHandRegisters'
  BY <1>4, <1>0 DEF ProcessDisconnect, Go, InHandRegisters, Open, Usable,
     TypeOK
<1>5. ASSUME NEW t \in Threads, Link(t) PROVE InHandRegisters'
  BY <1>5, <1>0 DEF Link, Go, session, InHandRegisters, Open, Usable, TypeOK
<1>6. ASSUME NEW t \in Threads, AddCount(t) PROVE InHandRegisters'
  BY <1>6, <1>0 DEF AddCount, Go, session, InHandRegisters, Open, Usable,
     TypeOK
<1>7. ASSUME NEW t \in Threads, RegisterBegin(t) PROVE InHandRegisters'
  BY <1>7, <1>0 DEF RegisterBegin, Go, session, InHandRegisters, Open, Usable,
     TypeOK
<1>8. ASSUME NEW t \in Threads, Raise(t) PROVE InHandRegisters'
  BY <1>8, <1>0 DEF Raise, Go, session, InHandRegisters, Open, Usable, TypeOK
<1>9. ASSUME NEW t \in Threads, Take(t) PROVE InHandRegisters'
  BY <1>9, <1>0 DEF Take, Go, session, InHandRegisters, Open, Usable, TypeOK
<1>10. ASSUME NEW t \in Threads, Restore(t) PROVE InHandRegisters'
  BY <1>10, <1>0 DEF Restore, Go, session, InHandRegisters, Open, Usable,
     TypeOK
<1>11. ASSUME NEW t \in Threads, Lower(t) PROVE InHandRegisters'
  BY <1>11, <1>0 DEF Lower, Go, session, InHandRegisters, Open, Usable, TypeOK
<1>12. ASSUME NEW t \in Threads, Recheck(t) PROVE InHandRegisters'
  BY <1>12, <1>0 DEF Recheck, Go, session, InHandRegisters, Open, Usable,
     TypeOK
<1>13. ASSUME NEW t \in Threads, IssueStep(t) PROVE InHandRegisters'
  BY <1>13, <1>0 DEF IssueStep, Issue, Fault, Go, session, InHandRegisters,
     Open, Usable, TypeOK
<1>14. ASSUME NEW t \in Threads, ProcessStep(t) PROVE InHandRegisters'
  BY <1>14, <1>0 DEF ProcessStep, Process, Answer, Close, Fault, Go, session,
     InHandRegisters, Open, Usable, TypeOK
<1>15. ASSUME NEW t \in Threads, ClearOwner(t) PROVE InHandRegisters'
  BY <1>15, <1>0 DEF ClearOwner, Go, session, InHandRegisters, Open, Usable,
     TypeOK
<1>16. ASSUME NEW t \in Threads, ClearPending(t) PROVE InHandRegisters'
  BY <1>16, <1>0 DEF ClearPending, Go, session, InHandRegisters, Open, Usable,
     TypeOK
<1>17. ASSUME NEW t \in Threads, ClearFlag(t) PROVE InHandRegisters'
  BY <1>17, <1>0 DEF ClearFlag, Go, session, InHandRegisters, Open, Usable,
     TypeOK
<1>18. ASSUME NEW t \in Threads, ClearQueue(t) PROVE InHandRegisters'
  BY <1>18, <1>0 DEF ClearQueue, Go, session, InHandRegisters, Open, Usable,
     TypeOK
<1>19. ASSUME NEW t \in Threads, NullOwner(t) PROVE InHandRegisters'
  BY <1>19, <1>0 DEF NullOwner, Fault, Go, session, InHandRegisters, Open,
     Usable, TypeOK
<1>20. ASSUME NEW t \in Threads, UseFreed(t) PROVE InHandRegisters'
  BY <1>20, <1>0 DEF UseFreed, Fault, Go, session, InHandRegisters, Open,
     Usable, TypeOK
<1>21. CASE Disconnect
  BY <1>21, <1>0 DEF Disconnect, Close, session, InHandRegisters, Open,
     Usable, TypeOK
<1> QED
  BY <1>1, <1>2, <1>3, <1>4, <1>5, <1>6, <1>7, <1>8, <1>9, <1>10,
     <1>11, <1>12, <1>13, <1>14, <1>15, <1>16, <1>17, <1>18, <1>19,
     <1>20, <1>21
     DEF Next, Step

-----------------------------------------------------------------------------
(* The steps at which a thread is registering, and how their number moves. *)
Held == {"take", "restore", "issue", "lower", "process", "answer"}

LEMMA RegisteringMoves ==
  ASSUME NEW t \in Threads, NEW l, NEW m, TypeOK, Go(t, l, m)
  PROVE  LET c == Cardinality(Registering)
             d == Cardinality(Registering')
         IN  /\ c \in Nat /\ d \in Nat
             /\ m \in Held /\ l \notin Held => d = c + 1
             /\ m \notin Held /\ l \in Held => d = c - 1 /\ c >= 1
             /\ (m \in Held <=> l \in Held) => d = c
<1> DEFINE L == Held
<1>1. Registering = At(pc, L) /\ Registering' = At(pc', L)
  BY DEF Registering, At, Held
<1>2. L = Held
  OBVIOUS
<1> HIDE DEF L
<1>3. /\ Cardinality(At(pc, L)) \in Nat /\ Cardinality(At(pc', L)) \in Nat
      /\ m \in L /\ l \notin L => Cardinality(At(pc', L)) = Cardinality(At(pc, L)) + 1
      /\ m \notin L /\ l \in L => Cardinality(At(pc', L)) = Cardinality(At(pc, L)) - 1
      /\ (m \in L <=> l \in L) => Cardinality(At(pc', L)) = Cardinality(At(pc, L))
  BY GoMoves
<1> QED
  BY <1>1, <1>2, <1>3

(* Exactly one registration is in progress while the flag is up.           *)
LEMMA OneSendInv == IInv /\ [Next]_vars => OneSendAtATime'
<1> SUFFICES ASSUME IInv, [Next]_vars PROVE OneSendAtATime'
  OBVIOUS
<1>0. TypeOK /\ OwnerClearedFirst /\ OneSendAtATime
  BY DEF IInv
<1>1. CASE UNCHANGED vars
  BY <1>1, <1>0 DEF vars, session, OneSendAtATime, Open, Usable, Registering
<1>2. ASSUME NEW t \in Threads, SendBegin(t) PROVE OneSendAtATime'
  <2>1. PICK l \in Labels, m \in Labels : Go(t, l, m) /\ (m \in Held <=> l \in Held)
    BY <1>2, LabelFacts DEF SendBegin, Held
  <2>2. Cardinality(Registering') = Cardinality(Registering)
    BY <1>0, <2>1, RegisteringMoves
  <2>3. (Open' => Open) /\ registered' = registered /\ flight' = flight
    BY <1>2 DEF SendBegin, session, Open, Usable
  <2> QED
    BY <1>0, <2>2, <2>3 DEF OneSendAtATime
<1>3. ASSUME NEW t \in Threads, Complete(t) PROVE OneSendAtATime'
  <2>1. (Open' => Open) /\ registered' = registered /\ flight' = Tail(flight)
    BY <1>3 DEF Complete, Open, Usable, session
  <2>2. Len(flight') = Len(flight) - 1 /\ Len(flight) \in Nat
    BY <1>3, <1>0, <2>1 DEF Complete, TypeOK
  <2>3. SUFFICES ASSUME Open PROVE OneSendAtATime'
    BY <2>1 DEF OneSendAtATime
  <2>4. Go(t, "idle", "process")
    BY <1>3, <2>3 DEF Complete, Open, Usable
  <2>5. /\ Cardinality(Registering') = Cardinality(Registering) + 1
        /\ Cardinality(Registering) \in Nat
    BY <1>0, <2>4, RegisteringMoves DEF Held
  <2>6. registered' = registered
    BY <2>1
  <2> QED
    BY <1>0, <2>2, <2>3, <2>5, <2>6 DEF OneSendAtATime
<1>4. ASSUME NEW t \in Threads, ProcessDisconnect(t) PROVE OneSendAtATime'
  <2>1. PICK l \in Labels, m \in Labels : Go(t, l, m) /\ (m \in Held <=> l \in Held)
    BY <1>4, LabelFacts DEF ProcessDisconnect, Held
  <2>2. Cardinality(Registering') = Cardinality(Registering)
    BY <1>0, <2>1, RegisteringMoves
  <2>3. (Open' => Open) /\ registered' = registered /\ flight' = flight
    BY <1>4 DEF ProcessDisconnect, Open, Usable
  <2> QED
    BY <1>0, <2>2, <2>3 DEF OneSendAtATime
<1>5. ASSUME NEW t \in Threads, Link(t) PROVE OneSendAtATime'
  <2>1. PICK l \in Labels, m \in Labels : Go(t, l, m) /\ (m \in Held <=> l \in Held)
    BY <1>5, LabelFacts DEF Link, Held
  <2>2. Cardinality(Registering') = Cardinality(Registering)
    BY <1>0, <2>1, RegisteringMoves
  <2>3. (Open' => Open) /\ registered' = registered /\ flight' = flight
    BY <1>5 DEF Link, session, Open, Usable
  <2> QED
    BY <1>0, <2>2, <2>3 DEF OneSendAtATime
<1>6. ASSUME NEW t \in Threads, AddCount(t) PROVE OneSendAtATime'
  <2>1. PICK l \in Labels, m \in Labels : Go(t, l, m) /\ (m \in Held <=> l \in Held)
    BY <1>6, LabelFacts DEF AddCount, Held
  <2>2. Cardinality(Registering') = Cardinality(Registering)
    BY <1>0, <2>1, RegisteringMoves
  <2>3. (Open' => Open) /\ registered' = registered /\ flight' = flight
    BY <1>6 DEF AddCount, session, Open, Usable
  <2> QED
    BY <1>0, <2>2, <2>3 DEF OneSendAtATime
<1>7. ASSUME NEW t \in Threads, RegisterBegin(t) PROVE OneSendAtATime'
  <2>1. PICK l \in Labels, m \in Labels : Go(t, l, m) /\ (m \in Held <=> l \in Held)
    BY <1>7, LabelFacts DEF RegisterBegin, Held
  <2>2. Cardinality(Registering') = Cardinality(Registering)
    BY <1>0, <2>1, RegisteringMoves
  <2>3. (Open' => Open) /\ registered' = registered /\ flight' = flight
    BY <1>7 DEF RegisterBegin, session, Open, Usable
  <2> QED
    BY <1>0, <2>2, <2>3 DEF OneSendAtATime
<1>8. ASSUME NEW t \in Threads, Raise(t) PROVE OneSendAtATime'
  <2>1. /\ (Open' => Open) /\ flight' = flight /\ registered' = TRUE
        /\ Len(flight) \in Nat
    BY <1>8, <1>0 DEF Raise, Open, Usable, session, TypeOK
  <2>2. CASE registered
    <3>1. Go(t, "raise", "idle")
      BY <1>8, <2>2 DEF Raise
    <3>2. Cardinality(Registering') = Cardinality(Registering)
      BY <1>0, <3>1, RegisteringMoves DEF Held
    <3> QED
      BY <1>0, <2>1, <2>2, <3>2 DEF OneSendAtATime
  <2>3. CASE ~registered
    <3>1. Go(t, "raise", "take")
      BY <1>8, <2>3 DEF Raise
    <3>2. /\ Cardinality(Registering') = Cardinality(Registering) + 1
          /\ Cardinality(Registering) \in Nat
      BY <1>0, <3>1, RegisteringMoves DEF Held
    <3> QED
      BY <1>0, <2>1, <2>3, <3>2 DEF OneSendAtATime
  <2> QED
    BY <2>2, <2>3
<1>9. ASSUME NEW t \in Threads, Take(t) PROVE OneSendAtATime'
  <2>1. PICK l \in Labels, m \in Labels : Go(t, l, m) /\ (m \in Held <=> l \in Held)
    BY <1>9, LabelFacts DEF Take, Held
  <2>2. Cardinality(Registering') = Cardinality(Registering)
    BY <1>0, <2>1, RegisteringMoves
  <2>3. (Open' => Open) /\ registered' = registered /\ flight' = flight
    BY <1>9 DEF Take, session, Open, Usable
  <2> QED
    BY <1>0, <2>2, <2>3 DEF OneSendAtATime
<1>10. ASSUME NEW t \in Threads, Restore(t) PROVE OneSendAtATime'
  <2>1. PICK l \in Labels, m \in Labels : Go(t, l, m) /\ (m \in Held <=> l \in Held)
    BY <1>10, LabelFacts DEF Restore, Held
  <2>2. Cardinality(Registering') = Cardinality(Registering)
    BY <1>0, <2>1, RegisteringMoves
  <2>3. (Open' => Open) /\ registered' = registered /\ flight' = flight
    BY <1>10 DEF Restore, session, Open, Usable
  <2> QED
    BY <1>0, <2>2, <2>3 DEF OneSendAtATime
<1>11. ASSUME NEW t \in Threads, Lower(t) PROVE OneSendAtATime'
  <2>1. /\ (Open' => Open) /\ flight' = flight /\ registered' = FALSE
        /\ Len(flight) \in Nat /\ Go(t, "lower", "recheck")
    BY <1>11, <1>0 DEF Lower, Open, Usable, session, TypeOK
  <2>2. /\ Cardinality(Registering') = Cardinality(Registering) - 1
        /\ Cardinality(Registering) \in Nat /\ Cardinality(Registering) >= 1
    BY <1>0, <2>1, RegisteringMoves DEF Held
  <2> QED
    BY <1>0, <2>1, <2>2 DEF OneSendAtATime
<1>12. ASSUME NEW t \in Threads, Recheck(t) PROVE OneSendAtATime'
  <2>1. PICK l \in Labels, m \in Labels : Go(t, l, m) /\ (m \in Held <=> l \in Held)
    BY <1>12, LabelFacts DEF Recheck, Held
  <2>2. Cardinality(Registering') = Cardinality(Registering)
    BY <1>0, <2>1, RegisteringMoves
  <2>3. (Open' => Open) /\ registered' = registered /\ flight' = flight
    BY <1>12 DEF Recheck, session, Open, Usable
  <2> QED
    BY <1>0, <2>2, <2>3 DEF OneSendAtATime
<1>13. ASSUME NEW t \in Threads, IssueStep(t) PROVE OneSendAtATime'
  <2>1. registered' = registered
    BY <1>13 DEF IssueStep
  <2>2. SUFFICES ASSUME Open' PROVE OneSendAtATime'
    BY DEF OneSendAtATime
  <2>3. Open
    BY <1>13, <2>2, <1>0 DEF IssueStep, Issue, Fault, Open, Usable, session,
       TypeOK
  <2>4. CASE Go(t, "issue", "idle") /\ flight' = Append(flight, batch[t])
    <3>1. /\ Cardinality(Registering') = Cardinality(Registering) - 1
          /\ Cardinality(Registering) \in Nat
      BY <1>0, <2>4, RegisteringMoves DEF Held
    <3>2. Len(flight') = Len(flight) + 1 /\ Len(flight) \in Nat
      BY <1>0, <2>4 DEF TypeOK
    <3> QED
      BY <1>0, <2>1, <2>3, <3>1, <3>2 DEF OneSendAtATime
  <2>5. CASE Go(t, "issue", "answer") /\ flight' = flight
    <3>1. Cardinality(Registering') = Cardinality(Registering)
      BY <1>0, <2>5, RegisteringMoves DEF Held
    <3> QED
      BY <1>0, <2>1, <2>3, <2>5, <3>1 DEF OneSendAtATime
  <2> QED
    BY <1>13, <2>2, <2>3, <2>4, <2>5 DEF IssueStep, Issue, Fault, Open, Usable
<1>14. ASSUME NEW t \in Threads, ProcessStep(t) PROVE OneSendAtATime'
  <2>1. registered' = registered /\ flight' = flight
    BY <1>14 DEF ProcessStep
  <2>2. SUFFICES ASSUME Open' PROVE OneSendAtATime'
    BY DEF OneSendAtATime
  <2>3. Open
    <3>1. owner' = owner /\ owner'
      BY <1>14, <2>2 DEF ProcessStep, Open, Usable
    <3>2. connected' = connected
      BY <1>14, <2>2 DEF ProcessStep, Process, Answer, Close, session, Open,
         Usable
    <3>3. fault' = fault
      BY <1>14, <2>2 DEF ProcessStep, Answer, Fault, Open
    <3> QED
      BY <2>2, <3>1, <3>2, <3>3 DEF Open, Usable
  <2>4. Go(t, "process", "answer") \/ Go(t, "answer", "lower")
    BY <1>14, <2>2, <2>3 DEF ProcessStep, Process, Answer, Close, Fault, Open,
       Usable
  <2>5. Cardinality(Registering') = Cardinality(Registering)
    BY <1>0, <2>4, RegisteringMoves DEF Held
  <2> QED
    BY <1>0, <2>1, <2>3, <2>5 DEF OneSendAtATime
<1>15. ASSUME NEW t \in Threads, ClearOwner(t) PROVE OneSendAtATime'
  <2>1. PICK l \in Labels, m \in Labels : Go(t, l, m) /\ (m \in Held <=> l \in Held)
    BY <1>15, LabelFacts DEF ClearOwner, Held
  <2>2. Cardinality(Registering') = Cardinality(Registering)
    BY <1>0, <2>1, RegisteringMoves
  <2>3. (Open' => Open) /\ registered' = registered /\ flight' = flight
    BY <1>15 DEF ClearOwner, session, Open, Usable
  <2> QED
    BY <1>0, <2>2, <2>3 DEF OneSendAtATime
<1>16. ASSUME NEW t \in Threads, ClearPending(t) PROVE OneSendAtATime'
  <2>1. PICK l \in Labels, m \in Labels : Go(t, l, m) /\ (m \in Held <=> l \in Held)
    BY <1>16, LabelFacts DEF ClearPending, Held
  <2>2. Cardinality(Registering') = Cardinality(Registering)
    BY <1>0, <2>1, RegisteringMoves
  <2>3. (Open' => Open) /\ registered' = registered /\ flight' = flight
    BY <1>16 DEF ClearPending, session, Open, Usable
  <2> QED
    BY <1>0, <2>2, <2>3 DEF OneSendAtATime
<1>17. ASSUME NEW t \in Threads, ClearFlag(t) PROVE OneSendAtATime'
  <2>1. ~owner
    BY <1>17, <1>0 DEF ClearFlag, Go, OwnerClearedFirst
  <2> QED
    BY <1>17, <2>1 DEF ClearFlag, Open, Usable, OneSendAtATime
<1>18. ASSUME NEW t \in Threads, ClearQueue(t) PROVE OneSendAtATime'
  <2>1. PICK l \in Labels, m \in Labels : Go(t, l, m) /\ (m \in Held <=> l \in Held)
    BY <1>18, LabelFacts DEF ClearQueue, Held
  <2>2. Cardinality(Registering') = Cardinality(Registering)
    BY <1>0, <2>1, RegisteringMoves
  <2>3. (Open' => Open) /\ registered' = registered /\ flight' = flight
    BY <1>18 DEF ClearQueue, session, Open, Usable
  <2> QED
    BY <1>0, <2>2, <2>3 DEF OneSendAtATime
<1>19. ASSUME NEW t \in Threads, NullOwner(t) PROVE OneSendAtATime'
  BY <1>19 DEF NullOwner, Fault, Open, OneSendAtATime
<1>20. ASSUME NEW t \in Threads, UseFreed(t) PROVE OneSendAtATime'
  BY <1>20 DEF UseFreed, Fault, Open, OneSendAtATime
<1>21. CASE Disconnect
  BY <1>21 DEF Disconnect, Close, Open, Usable, OneSendAtATime
<1> QED
  BY <1>1, <1>2, <1>3, <1>4, <1>5, <1>6, <1>7, <1>8, <1>9, <1>10,
     <1>11, <1>12, <1>13, <1>14, <1>15, <1>16, <1>17, <1>18, <1>19,
     <1>20, <1>21
     DEF Next, Step

-----------------------------------------------------------------------------
(* The threads that hold buffers, the buffers in hand, and the order of    *)
(* sent, in hand and queued, as operators of the values they depend on.    *)
Holding(b) == {t \in Threads : b[t] # << >>}

InHandOf(b) == IF Holding(b) = {} THEN << >>
               ELSE b[CHOOSE t \in Holding(b) : TRUE]

Ordered(b, sent, q, n) ==
  /\ Cardinality(Holding(b)) <= 1
  /\ sent \o InHandOf(b) \o q = [i \in 1..n |-> i]

LEMMA OrderIs ==
  /\ SentInOrder <=> (Open => Ordered(batch, issued, queue, linked))
  /\ SentInOrder' <=> (Open' => Ordered(batch', issued', queue', linked'))
BY DEF SentInOrder, Ordered, InHandOf, Holding, Gathered

(* A thread that alone holds buffers holds those in hand.                  *)
LEMMA HandIs ==
  ASSUME NEW b, NEW t \in Threads, \A u \in Threads \ {t} : b[u] = << >>
  PROVE  InHandOf(b) = b[t] /\ Cardinality(Holding(b)) <= 1
<1>1. CASE b[t] = << >>
  <2>1. Holding(b) = {}
    BY <1>1 DEF Holding
  <2> QED
    BY <1>1, <2>1, FS_EmptySet DEF InHandOf
<1>2. CASE b[t] # << >>
  <2>1. Holding(b) = {t}
    BY <1>2 DEF Holding
  <2>2. (CHOOSE u \in Holding(b) : TRUE) \in Holding(b)
    BY <2>1
  <2>3. InHandOf(b) = b[CHOOSE u \in Holding(b) : TRUE]
    BY <2>1 DEF InHandOf
  <2>4. InHandOf(b) = b[t]
    BY <2>1, <2>2, <2>3
  <2>5. Cardinality({t}) = 1
    BY FS_Singleton
  <2> QED
    BY <2>1, <2>4, <2>5
<1> QED
  BY <1>1, <1>2

(* While the sender is open, a registering thread alone may hold buffers.  *)
LEMMA HandAlone ==
  ASSUME TypeOK, InHandRegisters, OneSendAtATime, Open,
         NEW t \in Threads, pc[t] \in Held
  PROVE  \A u \in Threads \ {t} : batch[u] = << >>
<1>1. IsFiniteSet(Registering) /\ Cardinality(Registering) \in Nat
  <2>1. Registering = At(pc, Held)
    BY DEF Registering, At, Held
  <2> QED
    BY <2>1, AtFinite
<1>2. t \in Registering
  BY DEF Registering, Held
<1>3. Cardinality(Registering) <= 1
  <2>1. Len(flight) \in Nat
    BY DEF TypeOK
  <2> QED
    BY <1>1, <2>1 DEF OneSendAtATime
<1>4. Cardinality(Registering) = 1
  BY <1>1, <1>2, <1>3, FS_EmptySet
<1>5. PICK x : Registering = {x}
  BY <1>1, <1>4, FS_Singleton
<1>6. \A u \in Threads : batch[u] # << >> => u \in Registering
  BY DEF InHandRegisters, Registering
<1> QED
  BY <1>2, <1>5, <1>6

(* Concatenation under a name of its own, whose laws are used as they are: *)
(* linking, taking and sending keep the order.                             *)
Cat(a, b) == a \o b

LEMMA CatAssociates ==
  ASSUME NEW S, NEW s \in Seq(S), NEW h \in Seq(S), NEW q \in Seq(S)
  PROVE  Cat(s, h) \in Seq(S) /\ Cat(Cat(s, h), q) = Cat(s, Cat(h, q))
BY ConcatProperties, ConcatAssociative DEF Cat

LEMMA TakeOrder ==
  ASSUME NEW S, NEW s \in Seq(S), NEW h \in Seq(S), NEW e \in Seq(S), NEW r \in Seq(S)
  PROVE  Cat(Cat(s, Cat(h, e)), r) = Cat(Cat(s, h), Cat(e, r))
BY CatAssociates

LEMMA LinkOrder ==
  ASSUME NEW S, NEW s \in Seq(S), NEW h \in Seq(S), NEW q \in Seq(S), NEW e \in Seq(S)
  PROVE  Cat(Cat(s, h), Cat(q, e)) = Cat(Cat(Cat(s, h), q), e)
BY CatAssociates

LEMMA IssueOrder ==
  ASSUME NEW S, NEW s \in Seq(S), NEW h \in Seq(S), NEW q \in Seq(S)
  PROVE  (s \o h) \o << >> \o q = s \o h \o q
BY ConcatProperties, ConcatEmptySeq

(* Sent, in hand and queued stay the buffers 1 .. linked, in this order.   *)
LEMMA OrderInv == IInv /\ [Next]_vars => SentInOrder'
<1> SUFFICES ASSUME IInv, [Next]_vars PROVE SentInOrder'
  OBVIOUS
<1>0. /\ TypeOK /\ CountTrailsQueue /\ InHandRegisters
      /\ OneSendAtATime /\ SentInOrder
  BY DEF IInv
<1>1. CASE UNCHANGED vars
  BY <1>1, <1>0, OrderIs DEF vars, session, Open, Usable
<1>2. ASSUME NEW t \in Threads, SendBegin(t) PROVE SentInOrder'
  <2>1. (Open' => Open) /\ UNCHANGED <<batch, issued, queue, linked>>
    BY <1>2 DEF SendBegin, Go, session, Open, Usable
  <2> QED
    BY <1>0, <2>1, OrderIs
<1>3. ASSUME NEW t \in Threads, Complete(t) PROVE SentInOrder'
  <2>1. (Open' => Open) /\ UNCHANGED <<batch, issued, queue, linked>>
    BY <1>3 DEF Complete, Go, session, Open, Usable
  <2> QED
    BY <1>0, <2>1, OrderIs
<1>4. ASSUME NEW t \in Threads, ProcessDisconnect(t) PROVE SentInOrder'
  <2>1. (Open' => Open) /\ UNCHANGED <<batch, issued, queue, linked>>
    BY <1>4 DEF ProcessDisconnect, Go, Open, Usable
  <2> QED
    BY <1>0, <2>1, OrderIs
<1>5. ASSUME NEW t \in Threads, Link(t) PROVE SentInOrder'
  <2>1. /\ (Open' => Open) /\ UNCHANGED <<issued, batch>>
        /\ linked' = linked + 1 /\ queue' = Append(queue, linked + 1)
    BY <1>5 DEF Link, Open, Usable, session
  <2>2. SUFFICES ASSUME Open PROVE Ordered(batch, issued, queue', linked')
    BY <2>1, OrderIs
  <2>3. Ordered(batch, issued, queue, linked)
    BY <1>0, <2>2, OrderIs
  <2>4. InHandOf(batch) \in Seq(Buffers)
    <3>1. CASE Holding(batch) = {}
      BY <3>1 DEF InHandOf
    <3>2. CASE Holding(batch) # {}
      <4>1. (CHOOSE u \in Holding(batch) : TRUE) \in Threads
        BY <3>2 DEF Holding
      <4> QED
        BY <1>0, <3>2, <4>1 DEF InHandOf, TypeOK
    <3> QED
      BY <3>1, <3>2
  <2>5. /\ issued \in Seq(Buffers) /\ queue \in Seq(Buffers) /\ linked \in Nat
        /\ Buffers \subseteq Nat
    BY <1>0, SenderAssumption DEF TypeOK, Buffers
  <2>6. \A s \in Seq(Buffers) : s \in Seq(Nat)
    BY <2>5, SeqMonotonic
  <2>7. issued \o InHandOf(batch) \o Append(queue, linked + 1)
          = [i \in 1..(linked + 1) |-> i]
    <3>1. issued \o InHandOf(batch) \o queue = [i \in 1..linked |-> i]
      BY <2>3 DEF Ordered
    <3>2. /\ issued \in Seq(Nat) /\ queue \in Seq(Nat)
          /\ InHandOf(batch) \in Seq(Nat) /\ linked + 1 \in Nat
      BY <2>4, <2>5, <2>6
    <3> DEFINE e == << linked + 1 >>
    <3>3. e \in Seq(Nat)
      BY <2>5
    <3>4. Append(queue, linked + 1) = queue \o e
      BY <3>2, AppendIsConcat
    <3>5. [i \in 1..linked |-> i] \o e = [i \in 1..(linked + 1) |-> i]
      BY <2>5
    <3> HIDE DEF e
    <3>6. issued \o InHandOf(batch) \o (queue \o e)
            = (issued \o InHandOf(batch) \o queue) \o e
      <4>1. Cat(Cat(issued, InHandOf(batch)), Cat(queue, e))
              = Cat(Cat(Cat(issued, InHandOf(batch)), queue), e)
        BY <3>2, <3>3, LinkOrder
      <4> QED
        BY <4>1 DEF Cat
    <3> QED
      BY <3>1, <3>4, <3>5, <3>6
  <2> QED
    BY <2>1, <2>3, <2>7 DEF Ordered
<1>6. ASSUME NEW t \in Threads, AddCount(t) PROVE SentInOrder'
  <2>1. (Open' => Open) /\ UNCHANGED <<batch, issued, queue, linked>>
    BY <1>6 DEF AddCount, Go, session, Open, Usable
  <2> QED
    BY <1>0, <2>1, OrderIs
<1>7. ASSUME NEW t \in Threads, RegisterBegin(t) PROVE SentInOrder'
  <2>1. (Open' => Open) /\ UNCHANGED <<batch, issued, queue, linked>>
    BY <1>7 DEF RegisterBegin, Go, session, Open, Usable
  <2> QED
    BY <1>0, <2>1, OrderIs
<1>8. ASSUME NEW t \in Threads, Raise(t) PROVE SentInOrder'
  <2>1. (Open' => Open) /\ UNCHANGED <<issued, queue, linked>>
    BY <1>8 DEF Raise, Open, Usable, session
  <2>2. Open => batch' = batch
    BY <1>8, <1>0 DEF Raise, Go, InHandRegisters, TypeOK
  <2> QED
    BY <1>0, <2>1, <2>2, OrderIs
<1>9. ASSUME NEW t \in Threads, Take(t) PROVE SentInOrder'
  <2>1. (Open' => Open) /\ UNCHANGED <<issued, linked>> /\ pc[t] = "take"
    BY <1>9 DEF Take, Go, Open, Usable, session
  <2>2. CASE count > 0
    <3>1. /\ queue' = Tail(queue)
          /\ batch' = [batch EXCEPT ![t] = Append(batch[t], Head(queue))]
      BY <1>9, <2>2 DEF Take
    <3>2. SUFFICES ASSUME Open PROVE Ordered(batch', issued, queue', linked)
      BY <2>1, OrderIs
    <3>3. \A u \in Threads \ {t} : batch[u] = << >>
      BY <1>0, <2>1, <3>2, HandAlone DEF Held
    <3>4. /\ \A u \in Threads \ {t} : batch'[u] = << >>
          /\ batch'[t] = Append(batch[t], Head(queue))
      BY <1>0, <3>1, <3>3 DEF TypeOK
    <3>5. InHandOf(batch) = batch[t]
      BY <3>3, HandIs
    <3>6. InHandOf(batch') = batch'[t] /\ Cardinality(Holding(batch')) <= 1
      BY <3>4, HandIs
    <3>7. issued \o Append(batch[t], Head(queue)) \o Tail(queue)
            = issued \o batch[t] \o queue
      <4>1. queue # << >>
        BY <1>0, <2>2, CountedIsLinked
      <4> DEFINE h == batch[t]
                 e == << Head(queue) >>
                 r == Tail(queue)
      <4>2. issued \in Seq(Buffers) /\ h \in Seq(Buffers)
        BY <1>0 DEF TypeOK
      <4>3. e \in Seq(Buffers) /\ r \in Seq(Buffers) /\ queue = e \o r
        BY <1>0, <4>1 DEF TypeOK
      <4>4. Append(h, Head(queue)) = h \o e
        BY <1>0, <4>1, <4>2, AppendIsConcat, HeadTailProperties DEF TypeOK
      <4> HIDE DEF h, e, r
      <4>5. issued \o (h \o e) \o r = issued \o h \o (e \o r)
        <5>1. Cat(Cat(issued, Cat(h, e)), r) = Cat(Cat(issued, h), Cat(e, r))
          BY <4>2, <4>3, TakeOrder
        <5> QED
          BY <5>1 DEF Cat
      <4> QED
        BY <4>3, <4>4, <4>5 DEF h, r
    <3>8. issued \o batch[t] \o queue = [i \in 1..linked |-> i]
      BY <1>0, <3>2, <3>5, OrderIs DEF Ordered
    <3> QED
      BY <3>1, <3>4, <3>6, <3>7, <3>8 DEF Ordered
  <2>3. CASE ~(count > 0)
    <3>1. UNCHANGED <<queue, batch>>
      BY <1>9, <2>3 DEF Take
    <3> QED
      BY <1>0, <2>1, <3>1, OrderIs
  <2> QED
    BY <2>2, <2>3
<1>10. ASSUME NEW t \in Threads, Restore(t) PROVE SentInOrder'
  <2>1. (Open' => Open) /\ UNCHANGED <<batch, issued, queue, linked>>
    BY <1>10 DEF Restore, Go, session, Open, Usable
  <2> QED
    BY <1>0, <2>1, OrderIs
<1>11. ASSUME NEW t \in Threads, Lower(t) PROVE SentInOrder'
  <2>1. (Open' => Open) /\ UNCHANGED <<batch, issued, queue, linked>>
    BY <1>11 DEF Lower, Go, session, Open, Usable
  <2> QED
    BY <1>0, <2>1, OrderIs
<1>12. ASSUME NEW t \in Threads, Recheck(t) PROVE SentInOrder'
  <2>1. (Open' => Open) /\ UNCHANGED <<batch, issued, queue, linked>>
    BY <1>12 DEF Recheck, Go, session, Open, Usable
  <2> QED
    BY <1>0, <2>1, OrderIs
<1>13. ASSUME NEW t \in Threads, IssueStep(t) PROVE SentInOrder'
  <2>1. UNCHANGED <<queue, linked>> /\ pc[t] = "issue"
    BY <1>13 DEF IssueStep, Issue, Go
  <2>2. SUFFICES ASSUME Open' PROVE Ordered(batch', issued', queue, linked)
    BY <2>1, OrderIs
  <2>3. Open
    BY <1>13, <2>2, <1>0 DEF IssueStep, Issue, Fault, Open, Usable, session,
       TypeOK
  <2>4. Ordered(batch, issued, queue, linked)
    BY <1>0, <2>3, OrderIs
  <2>5. CASE /\ issued' = issued \o batch[t]
             /\ batch' = [batch EXCEPT ![t] = << >>]
    <3>1. \A u \in Threads \ {t} : batch[u] = << >>
      BY <1>0, <2>1, <2>3, HandAlone DEF Held
    <3>2. (\A u \in Threads \ {t} : batch'[u] = << >>) /\ batch'[t] = << >>
      BY <1>0, <2>5, <3>1 DEF TypeOK
    <3>3. InHandOf(batch) = batch[t]
      BY <3>1, HandIs
    <3>4. InHandOf(batch') = << >> /\ Cardinality(Holding(batch')) <= 1
      BY <3>2, HandIs
    <3>5. (issued \o batch[t]) \o << >> \o queue = issued \o batch[t] \o queue
      <4>1. issued \in Seq(Buffers) /\ batch[t] \in Seq(Buffers) /\ queue \in Seq(Buffers)
        BY <1>0 DEF TypeOK
      <4> QED
        BY <4>1, IssueOrder
    <3> QED
      BY <2>4, <2>5, <3>3, <3>4, <3>5 DEF Ordered
  <2>6. CASE UNCHANGED <<issued, batch>>
    BY <2>4, <2>6
  <2> QED
    BY <1>13, <2>5, <2>6 DEF IssueStep, Issue
<1>14. ASSUME NEW t \in Threads, ProcessStep(t) PROVE SentInOrder'
  <2>1. UNCHANGED <<owner, batch, issued, queue, linked>>
    BY <1>14 DEF ProcessStep
  <2>2. SUFFICES ASSUME Open' PROVE SentInOrder'
    BY OrderIs
  <2>3. connected' = connected
    BY <1>14, <2>2 DEF ProcessStep, Process, Answer, Close, session, Open,
       Usable
  <2>4. fault' = fault
    BY <1>14, <2>1, <2>2 DEF ProcessStep, Answer, Fault, Open
  <2> QED
    BY <1>0, <2>1, <2>2, <2>3, <2>4, OrderIs DEF Open, Usable
<1>15. ASSUME NEW t \in Threads, ClearOwner(t) PROVE SentInOrder'
  <2>1. (Open' => Open) /\ UNCHANGED <<batch, issued, queue, linked>>
    BY <1>15 DEF ClearOwner, Go, session, Open, Usable
  <2> QED
    BY <1>0, <2>1, OrderIs
<1>16. ASSUME NEW t \in Threads, ClearPending(t) PROVE SentInOrder'
  <2>1. (Open' => Open) /\ UNCHANGED <<batch, issued, queue, linked>>
    BY <1>16 DEF ClearPending, Go, session, Open, Usable
  <2> QED
    BY <1>0, <2>1, OrderIs
<1>17. ASSUME NEW t \in Threads, ClearFlag(t) PROVE SentInOrder'
  <2>1. (Open' => Open) /\ UNCHANGED <<batch, issued, queue, linked>>
    BY <1>17 DEF ClearFlag, Go, session, Open, Usable
  <2> QED
    BY <1>0, <2>1, OrderIs
<1>18. ASSUME NEW t \in Threads, ClearQueue(t) PROVE SentInOrder'
  <2>1. (Open' => Open) /\ UNCHANGED <<batch, issued, queue, linked>>
    BY <1>18 DEF ClearQueue, Go, session, Open, Usable
  <2> QED
    BY <1>0, <2>1, OrderIs
<1>19. ASSUME NEW t \in Threads, NullOwner(t) PROVE SentInOrder'
  BY <1>19, OrderIs DEF NullOwner, Fault, Open
<1>20. ASSUME NEW t \in Threads, UseFreed(t) PROVE SentInOrder'
  BY <1>20, OrderIs DEF UseFreed, Fault, Open
<1>21. CASE Disconnect
  BY <1>21, OrderIs DEF Disconnect, Close, Open, Usable
<1> QED
  BY <1>1, <1>2, <1>3, <1>4, <1>5, <1>6, <1>7, <1>8, <1>9, <1>10,
     <1>11, <1>12, <1>13, <1>14, <1>15, <1>16, <1>17, <1>18, <1>19,
     <1>20, <1>21
     DEF Next, Step

-----------------------------------------------------------------------------
LEMMA InitInv == Init => IInv
<1> SUFFICES ASSUME Init PROVE IInv
  OBVIOUS
<1>1. TypeOK
  <2>1. << >> \in Seq(Buffers) /\ << >> \in Seq(Seq(Buffers)) /\ Len(<< >>) = 0
    OBVIOUS
  <2>2. pc \in [Threads -> Labels] /\ linked \in 0..MaxSends /\ 0 <= MaxBuffers
    BY SenderAssumption DEF Init, Labels
  <2>3. /\ batch \in [Threads -> Seq(Buffers)]
        /\ \A t \in Threads : Len(batch[t]) <= MaxBuffers
    BY <2>1, <2>2 DEF Init
  <2>4. /\ queue \in Seq(Buffers) /\ pending \in Seq(Buffers)
        /\ issued \in Seq(Buffers) /\ flight \in Seq(Seq(Buffers))
    BY <2>1 DEF Init
  <2> QED
    <3>1. {connected, owner, registered, freed, fault} \subseteq BOOLEAN
      BY DEF Init
    <3>2. bytes \in [Threads -> BOOLEAN] /\ full \subseteq Threads /\ count \in Int
      BY DEF Init
    <3>3. disconnect \in {"none", "posted", "done"} /\ (disconnect = "none") = connected
      BY DEF Init
    <3> QED
      BY <2>2, <2>3, <2>4, <3>1, <3>2, <3>3 DEF TypeOK
<1>2. Number(pc, "count") = 0 /\ Number(pc, "restore") = 0 /\ Number(pc, "link") = 0
  <2>1. \A x : x # "idle" => At(pc, {x}) = {}
    BY DEF Init, At
  <2> QED
    BY <2>1, FS_EmptySet DEF Number
<1>3. Registering = {} /\ Holding(batch) = {}
  BY DEF Init, Registering, Holding
<1>4. CountTrailsQueue /\ SendsBounded
  BY <1>2, SenderAssumption DEF Init, CountTrailsQueue, SendsBounded
<1>5. BatchHasRoom /\ OwnerClearedFirst /\ InHandRegisters
  BY DEF Init, BatchHasRoom, OwnerClearedFirst, InHandRegisters
<1>6. OneSendAtATime
  <2>1. Cardinality(Registering) = 0 /\ Len(flight) = 0
    BY <1>3, FS_EmptySet DEF Init
  <2> QED
    BY <2>1 DEF Init, OneSendAtATime
<1>7. SentInOrder
  <2>1. InHandOf(batch) = << >> /\ Cardinality(Holding(batch)) = 0
    BY <1>3, FS_EmptySet DEF InHandOf
  <2>2. << >> \o << >> \o << >> = [i \in 1..0 |-> i]
    OBVIOUS
  <2>3. issued = << >> /\ queue = << >> /\ linked = 0
    BY DEF Init
  <2> QED
    BY <2>1, <2>2, <2>3, OrderIs DEF Ordered
<1> QED
  BY <1>1, <1>4, <1>5, <1>6, <1>7 DEF IInv

LEMMA Inductive == IInv /\ [Next]_vars => IInv'
BY TypeInv, CountInv, SendsInv, RoomInv, OwnerInv, HandInv, OneSendInv,
   OrderInv
   DEF IInv

(* The invariant holds in every state: what follows are its parts.         *)
LEMMA Invariant == Spec => []IInv
BY InitInv, Inductive, PTL DEF Spec

(* Send, Register and Process keep the values of the session's sender: in  *)
(* particular a buffer dequeued by Take is one that was linked, and the    *)
(* array of WSABUF never holds more than MAX_SEND_WSABUF_SIZE of them.     *)
THEOREM SenderTypes == Spec => []TypeOK
<1>1. IInv => TypeOK
  BY DEF IInv
<1> QED
  BY <1>1, Invariant, PTL

(* Until the sender closes, mbSendRegistered is up exactly while one       *)
(* thread gathers, one WSASend is outstanding or one completion is being   *)
(* processed: never two of them, and never none with the flag up.          *)
THEOREM OneSend == Spec => []OneSendAtATime
<1>1. IInv => OneSendAtATime
  BY DEF IInv
<1> QED
  BY <1>1, Invariant, PTL

(* Until the sender closes, the buffers handed to WSASend, those gathered  *)
(* and those queued are all that were queued, once each and in the order   *)
(* of the queue, whatever threads call Send and process completions.       *)
THEOREM InOrder == Spec => []SentInOrder
<1>1. IInv => SentInOrder
  BY DEF IInv
<1> QED
  BY <1>1, Invariant, PTL
===============================================================================
