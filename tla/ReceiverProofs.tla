---------------------------- MODULE ReceiverProofs ----------------------------
(***************************************************************************)
(* Theorems about Receiver and the ring of NetReceiveBuffer, for any ring, *)
(* any number of packets of any sizes and any cuts of the stream.          *)
(***************************************************************************)
EXTENDS Receiver, WellFoundedInduction, TLAPS

(* The place of the array where position n lies.                           *)
Wrap(n) == IF n < MaxSize THEN n ELSE n - MaxSize

(* The k-th byte that was not read, and the k-th place that is free.       *)
Unread(r, k) == r.cell[Wrap(r.read + k - 1)]
Spare(r, k)  == r.cell[Wrap(r.write + k - 1)]

(* What the peer sends.                                                    *)
EndsInOrder ==
  /\ ends \in [0..Packets -> Nat] /\ ends[0] = 0
  /\ \A p \in 1..Packets : Size(p) \in Sizes

(* What holds whatever was cleared meanwhile; the disconnect handler takes *)
(* the owner before it clears the ring.                                    *)
LengthsFit ==
  /\ pc = "parse" => processLen >= 0
  /\ pc \in {"parse", "check"} => processLen <= bytes
  /\ disconnect \in {"clearing", "done"} => ~owner

(* The bytes that came and were not removed are in the ring; those of a    *)
(* completion that was not accounted yet are behind them.                  *)
RingHolds ==
  /\ arrived <= ends[Packets]
  /\ arrived = consumed + GetUseSize(ring)
  /\ \A k \in 1..GetUseSize(ring) : Unread(ring, k) = Stream[consumed + k]
  /\ pc \in {"issue", "posted"} =>
       wsabufs = [at |-> ring.write, linear |-> GetLinearWriteSize(ring),
                  front |-> GetFreeSize(ring) - GetLinearWriteSize(ring)]
  /\ pc \in {"process", "move"} =>
       /\ bytes <= GetFreeSize(ring)
       /\ arrived + bytes <= ends[Packets]
       /\ \A k \in 1..bytes : Spare(ring, k) = Stream[arrived + k]
  /\ pc \in {"deliver", "parse", "check"} =>
       /\ bytes <= GetUseSize(ring) /\ dataSize = GetUseSize(ring)
       /\ ~late => bytes = GetUseSize(ring)

(* OnReceive stands at the start of a packet.                              *)
ParseAligned ==
  /\ pc \in {"parse", "check"} =>
       /\ data = ring.read
       /\ data + bytes <= MaxSize
       /\ processLen >= 0
  /\ ~late /\ pc = "check" =>
       LET next == Len(delivered) + 1
       IN  next <= Packets => Rest < Size(next)
-----------------------------------------------------------------------------
(* The ring.                                                               *)
Rings(X) == [read : 0..(MaxSize - 1), write : 0..(MaxSize - 1),
             cell : [Places -> X]]

LEMMA WrapIsMod ==
  ASSUME NEW n \in 0..(2 * MaxSize - 1)
  PROVE  n % MaxSize = Wrap(n) /\ Wrap(n) \in 0..(MaxSize - 1)
<1> USE RingAssumption
<1>1. CASE n < MaxSize
  BY <1>1, SMT DEF Wrap
<1>2. CASE n >= MaxSize
  <2>1. n % MaxSize = n - MaxSize
    BY <1>2, SMT
  <2> QED
    BY <1>2, <2>1 DEF Wrap
<1> QED
  BY <1>1, <1>2

LEMMA RingSizes ==
  ASSUME NEW X, NEW r \in Rings(X)
  PROVE  /\ GetUseSize(r) \in 0..(MaxSize - 1)
         /\ GetFreeSize(r) = MaxSize - 1 - GetUseSize(r)
         /\ GetLinearWriteSize(r) \in 0..GetFreeSize(r)
         /\ r.write + GetLinearWriteSize(r) <= MaxSize
         /\ GetLinearWriteSize(r) < GetFreeSize(r) =>
              r.write + GetLinearWriteSize(r) = MaxSize
         /\ GetLinearReadSize(r) \in 0..GetUseSize(r)
         /\ r.read + GetLinearReadSize(r) <= MaxSize
         /\ GetLinearReadSize(r) < GetUseSize(r) =>
              r.read + GetLinearReadSize(r) = MaxSize
         /\ r.read + GetUseSize(r) \in {r.write, r.write + MaxSize}
  BY RingAssumption DEF Rings, GetUseSize, GetFreeSize, GetLinearWriteSize,
     GetLinearReadSize

(* Every unread byte and every free place has a place of its own.          *)
LEMMA PlacesApart ==
  ASSUME NEW X, NEW r \in Rings(X)
  PROVE  /\ \A k \in 1..GetUseSize(r) : \A j \in 1..GetFreeSize(r) :
              Wrap(r.read + k - 1) # Wrap(r.write + j - 1)
         /\ \A j, k \in 1..GetFreeSize(r) :
              Wrap(r.write + j - 1) = Wrap(r.write + k - 1) => j = k
         /\ \A k \in 1..GetUseSize(r) : Wrap(r.read + k - 1) \in 0..(MaxSize - 1)
         /\ \A j \in 1..GetFreeSize(r) : Wrap(r.write + j - 1) \in 0..(MaxSize - 1)
  BY RingAssumption DEF Rings, GetUseSize, GetFreeSize, Wrap

LEMMA ContentsAre ==
  ASSUME NEW X, NEW r \in Rings(X)
  PROVE  /\ Contents(r) \in Seq(X)
         /\ Len(Contents(r)) = GetUseSize(r)
         /\ \A k \in 1..GetUseSize(r) :
              Contents(r)[k] = Unread(r, k) /\ Unread(r, k) \in X
<1>1. GetUseSize(r) \in 0..(MaxSize - 1) /\ GetUseSize(r) \in Nat
  BY RingSizes, RingAssumption
<1>2. \A k \in 1..GetUseSize(r) :
        /\ (r.read + k - 1) % MaxSize = Wrap(r.read + k - 1)
        /\ Wrap(r.read + k - 1) \in Places
  <2> SUFFICES ASSUME NEW k \in 1..GetUseSize(r)
               PROVE  /\ (r.read + k - 1) % MaxSize = Wrap(r.read + k - 1)
                      /\ Wrap(r.read + k - 1) \in Places
    OBVIOUS
  <2>1. r.read + k - 1 \in 0..(2 * MaxSize - 1)
    BY <1>1, RingAssumption DEF Rings
  <2>2. /\ (r.read + k - 1) % MaxSize = Wrap(r.read + k - 1)
        /\ Wrap(r.read + k - 1) \in 0..(MaxSize - 1)
    BY <2>1, WrapIsMod
  <2> QED
    BY <2>2, RingAssumption DEF Places
<1>3. \A k \in 1..GetUseSize(r) : Unread(r, k) \in X
  BY <1>2 DEF Rings, Unread
<1>4. Contents(r) = [k \in 1..GetUseSize(r) |-> Unread(r, k)]
  BY <1>2 DEF Contents, Unread
<1> QED
  BY <1>1, <1>3, <1>4

LEMMA Stored ==
  ASSUME NEW X, NEW r \in Rings(X), NEW at \in Nat, NEW b \in Seq(X)
  PROVE  \E cell \in [Places -> X] :
           /\ Store(r, at, b) = [read |-> r.read, write |-> r.write, cell |-> cell]
           /\ \A k \in 1..Len(b) : at + k - 1 \in Places => cell[at + k - 1] = b[k]
           /\ \A p \in Places : p < at \/ p >= at + Len(b) => cell[p] = r.cell[p]
<1> DEFINE new == [p \in Places |-> IF p \in at..(at + Len(b) - 1)
                                      THEN b[p - at + 1] ELSE r.cell[p]]
<1>1. Store(r, at, b) = [r EXCEPT !.cell = new]
  BY DEF Store, Rings
<1>2. new \in [Places -> X]
  BY RingAssumption DEF Rings, Places
<1>3. /\ \A k \in 1..Len(b) : at + k - 1 \in Places => new[at + k - 1] = b[k]
      /\ \A p \in Places : p < at \/ p >= at + Len(b) => new[p] = r.cell[p]
  BY RingAssumption DEF Places
<1> HIDE DEF new
<1>4. Store(r, at, b) = [read |-> r.read, write |-> r.write, cell |-> new]
  BY <1>1 DEF Rings
<1> QED
  BY <1>2, <1>3, <1>4

LEMMA StoreKeepsType ==
  ASSUME NEW X, NEW r \in Rings(X), NEW at \in Nat, NEW b \in Seq(X)
  PROVE  /\ Store(r, at, b) \in Rings(X)
         /\ Store(r, at, b).read = r.read /\ Store(r, at, b).write = r.write
  BY Stored DEF Rings

LEMMA StorePuts ==
  ASSUME NEW X, NEW r \in Rings(X), NEW at \in Nat, NEW b \in Seq(X)
  PROVE  \A k \in 1..Len(b) :
           at + k - 1 \in Places => Store(r, at, b).cell[at + k - 1] = b[k]
  BY Stored

LEMMA StoreLeaves ==
  ASSUME NEW X, NEW r \in Rings(X), NEW at \in Nat, NEW b \in Seq(X)
  PROVE  \A p \in Places :
           p < at \/ p >= at + Len(b) => Store(r, at, b).cell[p] = r.cell[p]
  BY Stored

LEMMA ScatterKeepsType ==
  ASSUME NEW X, NEW r \in Rings(X), NEW at \in Nat, NEW linear \in Nat,
         NEW b \in Seq(X)
  PROVE  /\ Scatter(r, at, linear, b) \in Rings(X)
         /\ Scatter(r, at, linear, b).read = r.read
         /\ Scatter(r, at, linear, b).write = r.write
<1>1. CASE Len(b) <= linear
  BY <1>1, StoreKeepsType DEF Scatter
<1>2. CASE Len(b) > linear
  <2>1. PICK one \in Seq(X), two \in Seq(X), zero \in Nat :
          /\ one = SubSeq(b, 1, linear) /\ two = SubSeq(b, linear + 1, Len(b))
          /\ zero = 0
    <3>1. SubSeq(b, 1, linear) \in Seq(X) /\ SubSeq(b, linear + 1, Len(b)) \in Seq(X)
      BY <1>2
    <3> QED
      BY <3>1
  <2>2. PICK s : s = Store(r, at, one)
    OBVIOUS
  <2>3. PICK w : w = Store(s, zero, two)
    OBVIOUS
  <2>4. Scatter(r, at, linear, b) = w
    BY <1>2, <2>1, <2>2, <2>3 DEF Scatter
  <2>5. s \in Rings(X) /\ s.read = r.read /\ s.write = r.write
    BY <2>2, StoreKeepsType
  <2>6. w \in Rings(X) /\ w.read = s.read /\ w.write = s.write
    BY <2>3, <2>5, StoreKeepsType
  <2> QED
    BY <2>4, <2>5, <2>6
<1> QED
  BY <1>1, <1>2

LEMMA ScatterWraps ==
  ASSUME NEW X, NEW r \in Rings(X), NEW at \in Nat, NEW linear \in Nat,
         NEW b \in Seq(X), Len(b) > linear, NEW w, w = Scatter(r, at, linear, b)
  PROVE  /\ \A k \in 1..(Len(b) - linear) :
              k - 1 \in Places => w.cell[k - 1] = b[linear + k]
         /\ \A k \in 1..linear :
              at + k - 1 \in Places /\ at + k - 1 >= Len(b) - linear =>
                w.cell[at + k - 1] = b[k]
         /\ \A p \in Places :
              /\ p >= Len(b) - linear
              /\ p < at \/ p >= at + linear
              => w.cell[p] = r.cell[p]
<1>1. PICK one \in Seq(X), two \in Seq(X) :
        /\ one = SubSeq(b, 1, linear) /\ two = SubSeq(b, linear + 1, Len(b))
        /\ Len(one) = linear /\ Len(two) = Len(b) - linear
        /\ \A k \in 1..linear : one[k] = b[k]
        /\ \A k \in 1..(Len(b) - linear) : two[k] = b[linear + k]
  <2>1. /\ SubSeq(b, 1, linear) \in Seq(X) /\ Len(SubSeq(b, 1, linear)) = linear
        /\ \A k \in 1..linear : SubSeq(b, 1, linear)[k] = b[k]
    OBVIOUS
  <2>2. /\ SubSeq(b, linear + 1, Len(b)) \in Seq(X)
        /\ Len(SubSeq(b, linear + 1, Len(b))) = Len(b) - linear
        /\ \A k \in 1..(Len(b) - linear) :
             SubSeq(b, linear + 1, Len(b))[k] = b[linear + k]
    OBVIOUS
  <2> QED
    BY <2>1, <2>2
<1>2. one \in Seq(X) /\ two \in Seq(X)
  BY <1>1
<1>12. PICK s : s = Store(r, at, one)
  OBVIOUS
<1>3. PICK zero : zero = 0 /\ zero \in Nat
  OBVIOUS
<1>13. zero \in Nat
  BY <1>3
<1>4. w = Store(s, zero, two)
  BY <1>1, <1>3, <1>12 DEF Scatter
<1>5. /\ s \in Rings(X) /\ s.read = r.read /\ s.write = r.write
      /\ \A k \in 1..Len(one) :
           at + k - 1 \in Places => s.cell[at + k - 1] = one[k]
      /\ \A p \in Places :
           p < at \/ p >= at + Len(one) => s.cell[p] = r.cell[p]
  <2>1. s \in Rings(X) /\ s.read = r.read /\ s.write = r.write
    BY <1>2, <1>12, StoreKeepsType
  <2>2. \A k \in 1..Len(one) :
          at + k - 1 \in Places => s.cell[at + k - 1] = one[k]
    BY <1>2, <1>12, StorePuts
  <2>3. \A p \in Places :
          p < at \/ p >= at + Len(one) => s.cell[p] = r.cell[p]
    BY <1>2, <1>12, StoreLeaves
  <2> QED
    BY <2>1, <2>2, <2>3
<1>6. /\ w \in Rings(X) /\ w.read = s.read /\ w.write = s.write
      /\ \A k \in 1..Len(two) : zero + k - 1 \in Places => w.cell[zero + k - 1] = two[k]
      /\ \A p \in Places : p < zero \/ p >= zero + Len(two) => w.cell[p] = s.cell[p]
  <2>5. s \in Rings(X)
    BY <1>5
  <2>1. w \in Rings(X) /\ w.read = s.read /\ w.write = s.write
    <3>1. PICK v : v = Store(s, zero, two)
      OBVIOUS
    <3>2. v \in Rings(X) /\ v.read = s.read /\ v.write = s.write
      BY <1>2, <1>13, <2>5, <3>1, StoreKeepsType
    <3> QED
      BY <1>4, <3>1, <3>2
  <2>2. \A k \in 1..Len(two) : zero + k - 1 \in Places => w.cell[zero + k - 1] = two[k]
    BY <1>2, <1>4, <1>13, <2>5, StorePuts
  <2>3. \A p \in Places : p < zero \/ p >= zero + Len(two) => w.cell[p] = s.cell[p]
    BY <1>2, <1>4, <1>13, <2>5, StoreLeaves
  <2> QED
    BY <2>1, <2>2, <2>3
<1>7. \A p \in Places : p \in Nat
  BY RingAssumption DEF Places
<1>8. Len(b) \in Nat
  OBVIOUS
<1>9. \A k \in 1..(Len(b) - linear) : k - 1 \in Places => w.cell[k - 1] = b[linear + k]
  <2> SUFFICES ASSUME NEW k \in 1..(Len(b) - linear), k - 1 \in Places
               PROVE  w.cell[k - 1] = b[linear + k]
    OBVIOUS
  <2>1. k \in 1..Len(two) /\ zero + k - 1 = k - 1
    BY <1>1, <1>8, <1>3
  <2>2. w.cell[zero + k - 1] = two[k]
    BY <1>6, <2>1
  <2> QED
    BY <1>1, <2>1, <2>2
<1>10. \A k \in 1..linear :
         at + k - 1 \in Places /\ at + k - 1 >= Len(b) - linear =>
           w.cell[at + k - 1] = b[k]
  <2> SUFFICES ASSUME NEW k \in 1..linear, at + k - 1 \in Places,
                      at + k - 1 >= Len(b) - linear
               PROVE  w.cell[at + k - 1] = b[k]
    OBVIOUS
  <2>1. PICK p \in Places : p = at + k - 1
    OBVIOUS
  <2>2. k \in 1..Len(one) /\ p >= zero + Len(two)
    BY <1>1, <1>3, <1>8, <2>1
  <2>3. s.cell[at + k - 1] = b[k]
    BY <1>1, <1>5, <2>2
  <2>4. w.cell[p] = s.cell[p]
    BY <1>6, <2>2
  <2> QED
    BY <2>1, <2>3, <2>4
<1>11. \A p \in Places :
         /\ p >= Len(b) - linear
         /\ p < at \/ p >= at + linear
         => w.cell[p] = r.cell[p]
  BY <1>1, <1>5, <1>6, <1>7, <1>8, <1>3
<1> QED
  BY <1>9, <1>10, <1>11


(* The kernel and Write put bytes into free places, in order, and touch no *)
(* other.                                                                  *)
LEMMA ScatterFills ==
  ASSUME NEW X, NEW r \in Rings(X), NEW b \in Seq(X), Len(b) <= GetFreeSize(r)
  PROVE  LET s == Scatter(r, r.write, GetLinearWriteSize(r), b)
         IN  /\ s \in Rings(X) /\ s.read = r.read /\ s.write = r.write
             /\ \A k \in 1..Len(b) : Spare(s, k) = b[k]
             /\ \A k \in 1..GetUseSize(r) : Unread(s, k) = Unread(r, k)
<1>1. PICK at, linear, free, use, s :
        /\ at = r.write /\ linear = GetLinearWriteSize(r)
        /\ free = GetFreeSize(r) /\ use = GetUseSize(r)
        /\ s = Scatter(r, r.write, GetLinearWriteSize(r), b)
  OBVIOUS
<1>2. /\ at \in 0..(MaxSize - 1) /\ linear \in 0..free /\ free \in Nat
      /\ use \in Nat /\ at + linear <= MaxSize
      /\ linear < free => at + linear = MaxSize
      /\ Len(b) \in Nat /\ free < MaxSize /\ Len(b) <= free
  <2>1. r.write \in 0..(MaxSize - 1)
    BY DEF Rings
  <2> QED
    BY <1>1, <2>1, RingSizes, RingAssumption
<1>3. at \in Nat /\ linear \in Nat /\ s = Scatter(r, at, linear, b)
  BY <1>1, <1>2, RingAssumption
<1>4. s \in Rings(X) /\ s.read = r.read /\ s.write = at
  <2>1. PICK v : v = Scatter(r, at, linear, b)
    OBVIOUS
  <2>2. at \in Nat /\ linear \in Nat
    BY <1>3
  <2>3. v \in Rings(X)
    BY <2>1, <2>2, ScatterKeepsType
  <2>4. v.read = r.read
    BY <2>1, <2>2, ScatterKeepsType
  <2>5. v.write = r.write
    BY <2>1, <2>2, ScatterKeepsType
  <2> QED
    BY <1>1, <1>3, <2>1, <2>3, <2>4, <2>5
<1>5. /\ \A k \in 1..use : \A j \in 1..free : Wrap(r.read + k - 1) # Wrap(at + j - 1)
      /\ \A k \in 1..use : Wrap(r.read + k - 1) \in Places
  <2>1. \A k \in 1..use : Wrap(r.read + k - 1) \in 0..(MaxSize - 1)
    BY <1>1, PlacesApart
  <2> QED
    BY <1>1, <2>1, PlacesApart, RingAssumption DEF Places
<1>6. CASE Len(b) <= linear
  <2>1. s = Store(r, at, b)
    BY <1>3, <1>6 DEF Scatter
  <2>2. /\ \A k \in 1..Len(b) :
             at + k - 1 \in Places => s.cell[at + k - 1] = b[k]
        /\ \A p \in Places :
             p < at \/ p >= at + Len(b) => s.cell[p] = r.cell[p]
    BY <1>3, <2>1, StorePuts, StoreLeaves
  <2>3. \A k \in 1..Len(b) : Wrap(at + k - 1) = at + k - 1 /\ at + k - 1 \in Places
    BY <1>2, <1>6, RingAssumption DEF Wrap, Places
  <2>4. \A k \in 1..Len(b) : Spare(s, k) = b[k]
    BY <1>4, <2>2, <2>3 DEF Spare
  <2>5. ASSUME NEW k \in 1..use PROVE Unread(s, k) = Unread(r, k)
    <3>1. PICK p \in Places : p = Wrap(r.read + k - 1)
      BY <1>5
    <3>2. \A j \in 1..Len(b) : p # at + j - 1
      <4>1. \A j \in 1..free : p # Wrap(at + j - 1)
        BY <1>5, <3>1
      <4>2. \A j \in 1..Len(b) : j \in 1..free
        BY <1>2
      <4> QED
        BY <2>3, <4>1, <4>2
    <3>3. p < at \/ p >= at + Len(b)
      <4>1. p \in Nat
        BY RingAssumption DEF Places
      <4>2. CASE p >= at /\ p < at + Len(b)
        <5>1. p - at + 1 \in 1..Len(b) /\ p = at + (p - at + 1) - 1
          BY <1>2, <4>1, <4>2
        <5> QED
          BY <3>2, <5>1
      <4> QED
        BY <1>2, <4>1, <4>2
    <3> QED
      BY <1>4, <2>2, <3>1, <3>3 DEF Unread
  <2> QED
    BY <1>1, <1>4, <2>4, <2>5
<1>7. CASE Len(b) > linear
  <2>1. at + linear = MaxSize /\ Len(b) - linear <= free - linear
    BY <1>2, <1>7
  <2>2. /\ \A k \in 1..(Len(b) - linear) :
             k - 1 \in Places => s.cell[k - 1] = b[linear + k]
        /\ \A k \in 1..linear :
             at + k - 1 \in Places /\ at + k - 1 >= Len(b) - linear =>
               s.cell[at + k - 1] = b[k]
        /\ \A p \in Places :
             /\ p >= Len(b) - linear
             /\ p < at \/ p >= at + linear
             => s.cell[p] = r.cell[p]
    BY <1>3, <1>7, ScatterWraps
  <2>3. Len(b) - linear <= at
    BY <1>2, <2>1
  <2>4. ASSUME NEW k \in 1..Len(b) PROVE Spare(s, k) = b[k]
    <3>1. CASE k <= linear
      <4>1. /\ Wrap(at + k - 1) = at + k - 1 /\ at + k - 1 \in Places
            /\ k \in 1..linear /\ at + k - 1 >= Len(b) - linear
        BY <1>2, <2>1, <2>3, <3>1, RingAssumption DEF Wrap, Places
      <4> QED
        BY <1>4, <2>2, <4>1 DEF Spare
    <3>2. CASE k > linear
      <4>1. PICK j \in 1..(Len(b) - linear) : j = k - linear
        BY <1>2, <3>2
      <4>2. /\ Wrap(at + k - 1) = j - 1 /\ j - 1 \in Places /\ linear + j = k
        BY <1>2, <2>1, <2>3, <4>1, RingAssumption DEF Wrap, Places
      <4> QED
        BY <1>4, <2>2, <4>2 DEF Spare
    <3> QED
      BY <1>2, <3>1, <3>2
  <2>5. ASSUME NEW k \in 1..use PROVE Unread(s, k) = Unread(r, k)
    <3>1. PICK p \in Places : p = Wrap(r.read + k - 1)
      BY <1>5
    <3>2. \A j \in 1..Len(b) : p # Wrap(at + j - 1)
      <4>1. \A j \in 1..free : p # Wrap(at + j - 1)
        BY <1>5, <3>1
      <4>2. \A j \in 1..Len(b) : j \in 1..free
        BY <1>2
      <4> QED
        BY <4>1, <4>2
    <3>3. p \in 0..MaxSize
      BY DEF Places
    <3>4. p < at \/ p >= at + linear
      <4>1. CASE p >= at /\ p < at + linear
        <5>1. PICK j \in 1..Len(b) : j = p - at + 1
          BY <1>2, <1>7, <3>3, <4>1, RingAssumption
        <5>2. p = Wrap(at + j - 1)
          BY <1>2, <2>1, <3>3, <4>1, <5>1, RingAssumption DEF Wrap
        <5> QED
          BY <3>2, <5>2
      <4> QED
        BY <1>2, <3>3, <4>1, RingAssumption
    <3>5. p >= Len(b) - linear
      <4>1. CASE p < Len(b) - linear
        <5>1. PICK j \in 1..Len(b) : j = linear + p + 1
          BY <1>2, <1>7, <3>3, <4>1, RingAssumption
        <5>2. p = Wrap(at + j - 1)
          BY <1>2, <2>1, <3>3, <4>1, <5>1, RingAssumption DEF Wrap
        <5> QED
          BY <3>2, <5>2
      <4> QED
        BY <1>2, <3>3, <4>1, RingAssumption
    <3> QED
      BY <1>4, <2>2, <3>1, <3>4, <3>5 DEF Unread
  <2> QED
    BY <1>1, <1>4, <2>4, <2>5
<1> QED
  BY <1>2, <1>6, <1>7

LEMMA MoveWriteAdds ==
  ASSUME NEW X, NEW r \in Rings(X), NEW n \in 0..GetFreeSize(r)
  PROVE  LET s == MoveWritePos(r, n)
         IN  /\ s \in Rings(X) /\ s.read = r.read
             /\ GetUseSize(s) = GetUseSize(r) + n
             /\ \A k \in 1..GetUseSize(r) : Unread(s, k) = Unread(r, k)
             /\ \A k \in 1..n : Unread(s, GetUseSize(r) + k) = Spare(r, k)
<1> DEFINE s == MoveWritePos(r, n)
<1>1. /\ GetUseSize(r) \in 0..(MaxSize - 1)
      /\ GetFreeSize(r) = MaxSize - 1 - GetUseSize(r)
      /\ r.read + GetUseSize(r) \in {r.write, r.write + MaxSize}
  BY RingSizes
<1>2. (r.write + n) % MaxSize = Wrap(r.write + n) /\ Wrap(r.write + n) \in 0..(MaxSize - 1)
  <2>1. r.write + n \in 0..(2 * MaxSize - 1)
    BY <1>1, RingAssumption DEF Rings
  <2> QED
    BY <2>1, WrapIsMod
<1>3. s = [read |-> r.read, write |-> Wrap(r.write + n), cell |-> r.cell]
  BY <1>2 DEF MoveWritePos, Rings
<1>4. s \in Rings(X)
  BY <1>2, <1>3 DEF Rings
<1>5. GetUseSize(s) = GetUseSize(r) + n
  BY <1>1, <1>3, RingAssumption DEF Rings, GetUseSize, GetFreeSize, Wrap
<1>6. \A k \in 1..n : Wrap(r.read + (GetUseSize(r) + k) - 1) = Wrap(r.write + k - 1)
  BY <1>1, RingAssumption DEF Rings, Wrap, GetUseSize
<1> QED
  BY <1>3, <1>4, <1>5, <1>6 DEF Unread, Spare

LEMMA MoveReadDrops ==
  ASSUME NEW X, NEW r \in Rings(X), NEW n \in 0..GetUseSize(r)
  PROVE  LET s == MoveReadPos(r, n)
         IN  /\ s \in Rings(X) /\ s.write = r.write
             /\ GetUseSize(s) = GetUseSize(r) - n
             /\ \A k \in 1..(GetUseSize(r) - n) : Unread(s, k) = Unread(r, n + k)
<1> DEFINE s == MoveReadPos(r, n)
<1>1. /\ GetUseSize(r) \in 0..(MaxSize - 1)
      /\ r.read + GetUseSize(r) \in {r.write, r.write + MaxSize}
  BY RingSizes
<1>2. (r.read + n) % MaxSize = Wrap(r.read + n) /\ Wrap(r.read + n) \in 0..(MaxSize - 1)
  <2>1. r.read + n \in 0..(2 * MaxSize - 1)
    BY <1>1, RingAssumption DEF Rings
  <2> QED
    BY <2>1, WrapIsMod
<1>3. s = [read |-> Wrap(r.read + n), write |-> r.write, cell |-> r.cell]
  BY <1>2 DEF MoveReadPos, Rings
<1>4. s \in Rings(X)
  BY <1>2, <1>3 DEF Rings
<1>5. GetUseSize(s) = GetUseSize(r) - n
  BY <1>1, <1>3, RingAssumption DEF Rings, GetUseSize, Wrap
<1>6. \A k \in 1..(GetUseSize(r) - n) : Wrap(Wrap(r.read + n) + k - 1) = Wrap(r.read + (n + k) - 1)
  BY <1>1, RingAssumption DEF Rings, Wrap
<1> QED
  BY <1>3, <1>4, <1>5, <1>6 DEF Unread

-----------------------------------------------------------------------------
(* The ring as a queue.                                                    *)
LEMMA SameSequence ==
  ASSUME NEW X, NEW s \in Seq(X), NEW t \in Seq(X), Len(s) = Len(t),
         \A k \in 1..Len(s) : s[k] = t[k]
  PROVE  s = t
  OBVIOUS

LEMMA Joined ==
  ASSUME NEW X, NEW s \in Seq(X), NEW t \in Seq(X)
  PROVE  s \o t \in Seq(X) /\ Len(s \o t) = Len(s) + Len(t)
  OBVIOUS

LEMMA WriteAppends ==
  ASSUME NEW X, NEW r \in Rings(X), NEW new \in Seq(X)
  PROVE  Contents(Write(r, new)) =
           Contents(r) \o SubSeq(new, 1, AtMost(Len(new), MaxSize - 1 - Len(Contents(r))))
<1>1. PICK n : n = AtMost(GetFreeSize(r), Len(new))
  OBVIOUS
<1>2. /\ n \in 0..GetFreeSize(r) /\ n \in 0..Len(new) /\ n \in Nat
      /\ n = AtMost(Len(new), MaxSize - 1 - Len(Contents(r)))
  <2>1. /\ GetFreeSize(r) = MaxSize - 1 - Len(Contents(r))
        /\ Len(Contents(r)) \in 0..(MaxSize - 1)
    BY RingSizes, ContentsAre
  <2>2. Len(new) \in Nat
    OBVIOUS
  <2> QED
    BY <1>1, <2>1, <2>2, RingAssumption DEF AtMost
<1>3. PICK b : b = SubSeq(new, 1, n)
  OBVIOUS
<1>4. b \in Seq(X) /\ Len(b) = n
  BY <1>2, <1>3
<1>5. PICK s : s = Scatter(r, r.write, GetLinearWriteSize(r), b)
  OBVIOUS
<1>6. s \in Rings(X) /\ s.read = r.read /\ s.write = r.write
  BY <1>2, <1>4, <1>5, ScatterFills
<1>7. \A k \in 1..n : Spare(s, k) = b[k]
  BY <1>2, <1>4, <1>5, ScatterFills
<1>8. \A k \in 1..GetUseSize(r) : Unread(s, k) = Unread(r, k)
  BY <1>2, <1>4, <1>5, ScatterFills
<1>9. Write(r, new) = MoveWritePos(s, n)
  <2>1. n + r.write < MaxSize => n <= GetLinearWriteSize(r)
    BY <1>2, RingAssumption DEF Rings, GetFreeSize, GetLinearWriteSize
  <2>2. n + r.write < MaxSize => s = Store(r, r.write, b)
    BY <1>4, <1>5, <2>1 DEF Scatter
  <2> QED
    BY <1>1, <1>3, <1>5, <2>2 DEF Write
<1>10. GetUseSize(s) = GetUseSize(r) /\ GetFreeSize(s) = GetFreeSize(r)
  BY <1>6 DEF GetUseSize, GetFreeSize
<1>11. PICK w : w = MoveWritePos(s, n)
  OBVIOUS
<1>12. n \in 0..GetFreeSize(s)
  BY <1>2, <1>10
<1>13. w \in Rings(X) /\ GetUseSize(w) = GetUseSize(r) + n
  BY <1>6, <1>10, <1>11, <1>12, MoveWriteAdds
<1>14. \A k \in 1..GetUseSize(r) : Unread(w, k) = Unread(r, k)
  <2>1. \A k \in 1..GetUseSize(s) : Unread(w, k) = Unread(s, k)
    BY <1>6, <1>11, <1>12, MoveWriteAdds
  <2> QED
    BY <1>8, <1>10, <2>1
<1>15. \A k \in 1..n : Unread(w, GetUseSize(r) + k) = b[k]
  <2>1. \A k \in 1..n : Unread(w, GetUseSize(s) + k) = Spare(s, k)
    BY <1>6, <1>11, <1>12, MoveWriteAdds
  <2> QED
    BY <1>7, <1>10, <2>1
<1>16. /\ Contents(w) \in Seq(X) /\ Len(Contents(w)) = GetUseSize(r) + n
       /\ \A k \in 1..(GetUseSize(r) + n) : Contents(w)[k] = Unread(w, k)
  <2>1. /\ Contents(w) \in Seq(X) /\ Len(Contents(w)) = GetUseSize(w)
        /\ \A k \in 1..GetUseSize(w) : Contents(w)[k] = Unread(w, k)
    BY <1>13, ContentsAre
  <2> QED
    BY <1>13, <2>1
<1>17. /\ Contents(r) \in Seq(X) /\ Len(Contents(r)) = GetUseSize(r)
       /\ \A k \in 1..GetUseSize(r) : Contents(r)[k] = Unread(r, k)
  BY ContentsAre
<1>18. GetUseSize(r) \in Nat
  BY RingSizes, RingAssumption
<1>19. PICK c \in Seq(X), d \in Seq(X), use \in Nat :
         c = Contents(r) /\ d = Contents(w) /\ use = GetUseSize(r)
  BY <1>16, <1>17, <1>18
<1>20. /\ Len(c) = use /\ Len(d) = use + n
       /\ \A k \in 1..use : d[k] = c[k]
       /\ \A k \in 1..n : d[use + k] = b[k]
  BY <1>2, <1>14, <1>15, <1>16, <1>17, <1>19
<1>21. d = c \o b
  <2>1. c \in Seq(X) /\ d \in Seq(X) /\ use \in Nat
    BY <1>19
  <2>2. c \o b \in Seq(X) /\ Len(c \o b) = use + n
    <3>1. Len(c) = use /\ Len(b) = n /\ b \in Seq(X)
      BY <1>4, <1>20
    <3>2. c \o b \in Seq(X) /\ Len(c \o b) = Len(c) + Len(b)
      BY <2>1, <3>1, Joined
    <3> QED
      BY <3>1, <3>2
  <2>3. ASSUME NEW k \in 1..Len(d) PROVE d[k] = (c \o b)[k]
    <3>1. CASE k <= use
      BY <1>2, <1>4, <1>20, <2>1, <3>1
    <3>2. CASE k > use
      <4>1. PICK j \in 1..n : k = use + j
        <5>1. k - use \in 1..n /\ k = use + (k - use)
          BY <1>2, <1>20, <2>1, <3>2
        <5> QED
          BY <5>1
      <4>2. (c \o b)[k] = b[j]
        BY <1>4, <1>20, <2>1, <4>1
      <4> QED
        BY <1>20, <4>1, <4>2
    <3>3. k <= use \/ k > use
      BY <2>1
    <3> QED
      BY <3>1, <3>2, <3>3
  <2> QED
    BY <1>20, <2>1, <2>2, <2>3, SameSequence
<1> QED
  BY <1>2, <1>3, <1>9, <1>11, <1>19, <1>21

LEMMA PeekIsOldest ==
  ASSUME NEW X, NEW r \in Rings(X), NEW size \in Nat
  PROVE  Peek(r, size) = SubSeq(Contents(r), 1, AtMost(size, Len(Contents(r))))
<1>1. PICK n, linear, use :
        /\ n = AtMost(GetUseSize(r), size) /\ linear = GetLinearReadSize(r)
        /\ use = GetUseSize(r)
  OBVIOUS
<1>2. /\ n \in 0..use /\ use \in 0..(MaxSize - 1) /\ linear \in 0..use
      /\ r.read + linear <= MaxSize
      /\ linear < use => r.read + linear = MaxSize
      /\ n = AtMost(size, use) /\ r.read \in 0..(MaxSize - 1)
  <2>1. r.read \in 0..(MaxSize - 1)
    BY DEF Rings
  <2>2. use \in 0..(MaxSize - 1)
    BY <1>1, RingSizes
  <2> QED
    BY <1>1, <2>1, <2>2, RingSizes, RingAssumption DEF AtMost
<1>3. PICK c \in Seq(X) : c = Contents(r)
  BY ContentsAre
<1>4. c \in Seq(X) /\ Len(c) = use /\ \A k \in 1..use : c[k] = Unread(r, k)
  BY <1>1, <1>3, ContentsAre
<1>5. \A k \in 1..use : Wrap(r.read + k - 1) \in Places
  <2>1. \A k \in 1..GetUseSize(r) : Wrap(r.read + k - 1) \in 0..(MaxSize - 1)
    BY PlacesApart
  <2> QED
    BY <1>1, <2>1, RingAssumption DEF Places
<1>6. SubSeq(c, 1, n) = [k \in 1..n |-> Unread(r, k)]
  BY <1>2, <1>4
<1>7. CASE n + r.read > MaxSize
  <2>1. linear \in Nat /\ n - linear \in Nat /\ r.read + linear = MaxSize /\ n \in Nat
    BY <1>2, <1>7, RingAssumption
  <2>2. Load(r, r.read, linear) = [k \in 1..linear |-> Unread(r, k)]
    <3>1. \A k \in 1..linear : Wrap(r.read + k - 1) = r.read + k - 1
      BY <1>2, <2>1, RingAssumption DEF Wrap
    <3> QED
      BY <3>1 DEF Load, Unread
  <2>3. Load(r, 0, n - linear) = [k \in 1..(n - linear) |-> Unread(r, linear + k)]
    <3>1. \A k \in 1..(n - linear) : Wrap(r.read + (linear + k) - 1) = 0 + k - 1
      BY <1>2, <2>1, RingAssumption DEF Wrap
    <3> QED
      BY <3>1 DEF Load, Unread
  <2>4. PICK a, b : a = Load(r, r.read, linear) /\ b = Load(r, 0, n - linear)
    OBVIOUS
  <2>5. a \in Seq(X) /\ b \in Seq(X) /\ Len(a) = linear /\ Len(b) = n - linear
    <3>1. \A k \in 1..use : Unread(r, k) \in X
      BY <1>1, ContentsAre
    <3>2. \A k \in 1..linear : Unread(r, k) \in X
      BY <1>2, <3>1, RingAssumption
    <3>3. \A k \in 1..(n - linear) : Unread(r, linear + k) \in X
      BY <1>2, <2>1, <3>1, RingAssumption
    <3>4. a = [k \in 1..linear |-> Unread(r, k)]
      BY <2>2, <2>4
    <3>5. b = [k \in 1..(n - linear) |-> Unread(r, linear + k)]
      BY <2>3, <2>4
    <3>6. a \in Seq(X) /\ Len(a) = linear
      BY <2>1, <3>2, <3>4
    <3>7. b \in Seq(X) /\ Len(b) = n - linear
      BY <2>1, <3>3, <3>5
    <3> QED
      BY <3>6, <3>7
  <2>6. /\ \A k \in 1..linear : a[k] = c[k]
        /\ \A k \in 1..(n - linear) : b[k] = c[linear + k]
    <3>1. \A k \in 1..linear : k \in 1..use
      BY <1>2, RingAssumption
    <3>2. \A k \in 1..(n - linear) : linear + k \in 1..use
      BY <1>2, <2>1, RingAssumption
    <3> QED
      BY <1>4, <2>2, <2>3, <2>4, <3>1, <3>2
  <2>7. a \o b = SubSeq(c, 1, n)
    <3>1. SubSeq(c, 1, n) \in Seq(X) /\ Len(SubSeq(c, 1, n)) = n
      BY <1>2, <1>4, <2>1
    <3>2. \A k \in 1..n : SubSeq(c, 1, n)[k] = c[k]
      BY <1>2, <1>4, <2>1
    <3>3. a \o b \in Seq(X) /\ Len(a \o b) = n
      BY <2>1, <2>5
    <3>4. ASSUME NEW k \in 1..n PROVE (a \o b)[k] = c[k]
      <4>1. CASE k <= linear
        <5>1. (a \o b)[k] = a[k] /\ k \in 1..linear
          BY <2>1, <2>5, <4>1
        <5> QED
          BY <2>6, <5>1
      <4>2. CASE k > linear
        <5>1. PICK j \in 1..(n - linear) : k = linear + j
          <6>1. k - linear \in 1..(n - linear) /\ k = linear + (k - linear)
            BY <2>1, <4>2
          <6> QED
            BY <6>1
        <5>2. (a \o b)[k] = b[j]
          BY <2>1, <2>5, <5>1
        <5> QED
          BY <2>6, <5>1, <5>2
      <4>3. k <= linear \/ k > linear
        BY <2>1
      <4> QED
        BY <4>1, <4>2, <4>3
    <3> QED
      BY <3>1, <3>2, <3>3, <3>4, SameSequence
  <2>8. Peek(r, size) = a \o b
    BY <1>1, <1>7, <2>4 DEF Peek
  <2> QED
    BY <1>2, <1>3, <1>4, <2>7, <2>8
<1>8. CASE ~(n + r.read > MaxSize)
  <2>1. Load(r, r.read, n) = [k \in 1..n |-> Unread(r, k)]
    <3>1. \A k \in 1..n : Wrap(r.read + k - 1) = r.read + k - 1
      BY <1>2, <1>8, RingAssumption DEF Wrap
    <3> QED
      BY <3>1 DEF Load, Unread
  <2>2. Peek(r, size) = Load(r, r.read, n)
    BY <1>1, <1>8 DEF Peek
  <2> QED
    BY <1>2, <1>3, <1>4, <1>6, <2>1, <2>2
<1> QED
  BY <1>7, <1>8

LEMMA ReadRemoves ==
  ASSUME NEW X, NEW r \in Rings(X), NEW size \in Nat
  PROVE  SubSeq(Contents(r), 1, AtMost(size, Len(Contents(r)))) \o
           Contents(Read(r, size)) = Contents(r)
<1>1. PICK n, use, w :
        /\ n = AtMost(GetUseSize(r), size) /\ use = GetUseSize(r)
        /\ w = MoveReadPos(r, n)
  OBVIOUS
<1>2. use \in 0..(MaxSize - 1) /\ use \in Nat
  BY <1>1, RingSizes, RingAssumption
<1>3. n \in 0..use /\ n = AtMost(size, use) /\ n \in Nat
  BY <1>1, <1>2, RingAssumption DEF AtMost
<1>4. n \in 0..GetUseSize(r)
  BY <1>1, <1>3
<1>5. /\ w \in Rings(X) /\ GetUseSize(w) = use - n
      /\ \A k \in 1..(use - n) : Unread(w, k) = Unread(r, n + k)
  <2>1. w \in Rings(X) /\ GetUseSize(w) = GetUseSize(r) - n
    BY <1>1, <1>4, MoveReadDrops
  <2>2. \A k \in 1..(GetUseSize(r) - n) : Unread(w, k) = Unread(r, n + k)
    BY <1>1, <1>4, MoveReadDrops
  <2> QED
    BY <1>1, <2>1, <2>2
<1>6. PICK c, d : c = Contents(r) /\ d = Contents(w)
  OBVIOUS
<1>7. c \in Seq(X) /\ Len(c) = use /\ \A k \in 1..use : c[k] = Unread(r, k)
  BY <1>1, <1>6, ContentsAre
<1>8. d \in Seq(X) /\ Len(d) = use - n /\ \A k \in 1..(use - n) : d[k] = Unread(w, k)
  <2>1. d \in Seq(X) /\ Len(d) = GetUseSize(w)
    BY <1>5, <1>6, ContentsAre
  <2>2. \A k \in 1..GetUseSize(w) : d[k] = Unread(w, k)
    BY <1>5, <1>6, ContentsAre
  <2> QED
    BY <1>5, <2>1, <2>2
<1>9. \A k \in 1..(use - n) : d[k] = c[n + k]
  <2>1. \A k \in 1..(use - n) : n + k \in 1..use
    BY <1>2, <1>3
  <2> QED
    BY <1>5, <1>7, <1>8, <2>1
<1>10. SubSeq(c, 1, n) \o d = c
  <2>1. PICK a : a = SubSeq(c, 1, n)
    OBVIOUS
  <2>5. c \in Seq(X) /\ Len(c) = use
    BY <1>7
  <2>2. a \in Seq(X) /\ Len(a) = n /\ \A k \in 1..n : a[k] = c[k]
    BY <1>2, <1>3, <2>1, <2>5
  <2>3. a \o d \in Seq(X) /\ Len(a \o d) = use
    BY <1>2, <1>3, <1>8, <2>2
  <2>4. ASSUME NEW k \in 1..Len(a \o d) PROVE (a \o d)[k] = c[k]
    <3>1. k \in 1..use
      BY <2>3
    <3>2. CASE k <= n
      <4>1. (a \o d)[k] = a[k] /\ k \in 1..n
        BY <1>2, <1>3, <1>8, <2>2, <3>1, <3>2
      <4> QED
        BY <2>2, <4>1
    <3>3. CASE k > n
      <4>1. PICK j \in 1..(use - n) : k = n + j
        <5>1. k - n \in 1..(use - n) /\ k = n + (k - n)
          BY <1>2, <1>3, <3>1, <3>3
        <5> QED
          BY <5>1
      <4>2. (a \o d)[k] = d[j]
        BY <1>2, <1>3, <1>8, <2>2, <4>1
      <4> QED
        BY <1>9, <4>1, <4>2
    <3> QED
      BY <1>3, <3>1, <3>2, <3>3
  <2> QED
    BY <1>7, <2>1, <2>3, <2>4, SameSequence
<1>11. Read(r, size) = w
  BY <1>1 DEF Read
<1> QED
  BY <1>3, <1>6, <1>7, <1>10, <1>11

LEMMA TypeMakesQueue ==
  ASSUME TypeOK, ReceiverAssumption
  PROVE  RingIsAQueue
<1>1. Packets \in Nat /\ MaxSize \in Nat
  BY RingAssumption, ReceiverAssumption
<1>2. ring \in Rings(Nat \X Nat)
  BY <1>1 DEF TypeOK, Rings
<1>3. PICK r \in Rings(Nat \X Nat) : r = ring
  BY <1>2
<1>4. SUFFICES ASSUME NEW n \in 0..MaxSize
               PROVE  LET new == [k \in 1..n |-> <<Packets + 1, k>>]
                          fits == SubSeq(new, 1, AtMost(n, MaxSize - 1 - Len(Contents(r))))
                          oldest == SubSeq(Contents(r), 1, AtMost(n, Len(Contents(r))))
                      IN  /\ Contents(Write(r, new)) = Contents(r) \o fits
                          /\ Peek(r, n) = oldest
                          /\ oldest \o Contents(Read(r, n)) = Contents(r)
  BY <1>3 DEF RingIsAQueue
<1>5. PICK new : new = [k \in 1..n |-> <<Packets + 1, k>>]
  OBVIOUS
<1>6. n \in Nat
  BY <1>1
<1>7. new \in Seq(Nat \X Nat) /\ Len(new) = n
  BY <1>1, <1>5, <1>6
<1>8. Contents(Write(r, new)) =
        Contents(r) \o SubSeq(new, 1, AtMost(n, MaxSize - 1 - Len(Contents(r))))
  BY <1>3, <1>7, WriteAppends
<1>9. Peek(r, n) = SubSeq(Contents(r), 1, AtMost(n, Len(Contents(r))))
  BY <1>3, <1>6, PeekIsOldest
<1>10. SubSeq(Contents(r), 1, AtMost(n, Len(Contents(r)))) \o Contents(Read(r, n)) =
         Contents(r)
  BY <1>3, <1>6, ReadRemoves
<1> QED
  BY <1>5, <1>8, <1>9, <1>10

-----------------------------------------------------------------------------
(* What the peer sends.                                                    *)
LEMMA SetInduction ==
  ASSUME NEW S, 0 \in S, \A n \in Nat : n \in S => n + 1 \in S
  PROVE  Nat \subseteq S
<1> DEFINE R == {p \in Nat \X Nat : p[1] < p[2]}
           T == Nat \ S
<1>1. IsWellFoundedOn(R, Nat)
  BY NatLessThanWellFounded DEF OpToRel
<1>2. SUFFICES ASSUME T # {} PROVE FALSE
  OBVIOUS
<1>3. PICK x \in T : \A y \in T : <<y, x>> \notin R
  <2> HIDE DEF R
  <2> QED
    BY <1>1, <1>2, WFMin
<1>4. x \in Nat \ {0}
  OBVIOUS
<1>5. x - 1 \in T
  BY <1>4
<1>6. <<x - 1, x>> \in R
  BY <1>4
<1> QED
  BY <1>3, <1>5, <1>6

LEMMA SizesArePositive ==
  ASSUME EndsInOrder
  PROVE  /\ \A p \in 1..Packets :
              /\ ends[p] \in Nat /\ ends[p - 1] \in Nat /\ p - 1 \in 0..Packets
              /\ Size(p) \in Nat /\ Size(p) >= HeaderSize /\ Size(p) <= MaxSize
              /\ ends[p] = ends[p - 1] + Size(p) /\ ends[p - 1] < ends[p]
         /\ \A p \in 0..Packets : ends[p] \in Nat
         /\ ends[0] = 0
<1>1. \A p \in 0..Packets : ends[p] \in Nat
  BY DEF EndsInOrder
<1>2. ASSUME NEW p \in 1..Packets
      PROVE  /\ ends[p] \in Nat /\ ends[p - 1] \in Nat /\ p - 1 \in 0..Packets
             /\ Size(p) \in Nat /\ Size(p) >= HeaderSize /\ Size(p) <= MaxSize
             /\ ends[p] = ends[p - 1] + Size(p) /\ ends[p - 1] < ends[p]
  <2>1. p \in 0..Packets /\ p - 1 \in 0..Packets
    BY ReceiverAssumption
  <2>2. Size(p) \in HeaderSize..MaxSize
    BY ReceiverAssumption DEF EndsInOrder
  <2>3. PICK a \in Nat, b \in Nat : a = ends[p] /\ b = ends[p - 1]
    BY <1>1, <2>1
  <2>4. Size(p) = a - b
    BY <2>3 DEF Size
  <2> QED
    BY <2>1, <2>2, <2>3, <2>4, ReceiverAssumption, RingAssumption
<1> QED
  BY <1>1, <1>2 DEF EndsInOrder

LEMMA EndsGrow ==
  ASSUME EndsInOrder
  PROVE  \A p, q \in 0..Packets : p < q => ends[p] < ends[q]
<1>1. PICK S \in SUBSET Nat :
        S = {n \in Nat : n <= Packets => \A p \in 0..Packets : p < n => ends[p] < ends[n]}
  OBVIOUS
<1>2. 0 \in S
  BY <1>1, ReceiverAssumption
<1>3. ASSUME NEW n \in Nat, n \in S PROVE n + 1 \in S
  <2> SUFFICES ASSUME n + 1 <= Packets, NEW p \in 0..Packets, p < n + 1
               PROVE  ends[p] < ends[n + 1]
    BY <1>1
  <2>1. n + 1 \in 1..Packets /\ (n + 1) - 1 = n /\ n <= Packets
    BY ReceiverAssumption
  <2>2. ends[n] < ends[n + 1] /\ ends[n] \in Nat /\ ends[n + 1] \in Nat
    BY <2>1, SizesArePositive
  <2>3. p = n \/ p < n
    BY ReceiverAssumption
  <2>4. p < n => ends[p] < ends[n]
    BY <1>1, <1>3, <2>1
  <2>5. ends[p] \in Nat
    BY SizesArePositive
  <2> QED
    BY <2>2, <2>3, <2>4, <2>5
<1>4. Nat \subseteq S
  BY <1>2, <1>3, SetInduction
<1> SUFFICES ASSUME NEW p \in 0..Packets, NEW q \in 0..Packets, p < q
             PROVE  ends[p] < ends[q]
  OBVIOUS
<1>5. q \in Nat /\ q <= Packets
  BY ReceiverAssumption
<1> QED
  BY <1>1, <1>4, <1>5

(* Every byte is a byte of one packet.                                     *)
LEMMA EveryByteHasAPacket ==
  ASSUME EndsInOrder
  PROVE  \A n \in 1..ends[Packets] : \E p \in 1..Packets : n \in Bytes(p)
<1>1. PICK S \in SUBSET Nat :
        S = {m \in Nat : m <= Packets =>
               \A n \in 1..ends[m] : \E p \in 1..Packets : n \in Bytes(p)}
  OBVIOUS
<1>2. 0 \in S
  <2>1. 1..ends[0] = {}
    BY SizesArePositive
  <2> QED
    BY <1>1, <2>1
<1>3. ASSUME NEW m \in Nat, m \in S PROVE m + 1 \in S
  <2> SUFFICES ASSUME m + 1 <= Packets, NEW n \in 1..ends[m + 1]
               PROVE  \E p \in 1..Packets : n \in Bytes(p)
    BY <1>1
  <2>1. m + 1 \in 1..Packets /\ (m + 1) - 1 = m /\ m <= Packets
    BY ReceiverAssumption
  <2>2. ends[m] \in Nat /\ ends[m + 1] \in Nat
    BY <2>1, SizesArePositive
  <2>3. CASE n <= ends[m]
    <3>1. n \in 1..ends[m]
      BY <2>2, <2>3
    <3> QED
      BY <1>1, <1>3, <2>1, <3>1
  <2>4. CASE n > ends[m]
    <3>1. n \in Bytes(m + 1)
      BY <2>1, <2>2, <2>4 DEF Bytes
    <3> QED
      BY <2>1, <3>1
  <2>5. n <= ends[m] \/ n > ends[m]
    BY <2>2
  <2> QED
    BY <2>3, <2>4, <2>5
<1>4. Nat \subseteq S
  BY <1>2, <1>3, SetInduction
<1> QED
  BY <1>1, <1>4, ReceiverAssumption

LEMMA PacketsApart ==
  ASSUME EndsInOrder, NEW p \in 1..Packets, NEW q \in 1..Packets, NEW n,
         n \in Bytes(p), n \in Bytes(q)
  PROVE  p = q
<1>1. /\ ends[p - 1] \in Nat /\ ends[p] \in Nat /\ ends[q - 1] \in Nat /\ ends[q] \in Nat
      /\ p - 1 \in 0..Packets /\ q - 1 \in 0..Packets
      /\ p \in 0..Packets /\ q \in 0..Packets
  BY SizesArePositive, ReceiverAssumption
<1>2. /\ p < q => p = q - 1 \/ ends[p] < ends[q - 1]
      /\ q < p => q = p - 1 \/ ends[q] < ends[p - 1]
  <2>1. /\ p < q => p = q - 1 \/ p < q - 1
        /\ q < p => q = p - 1 \/ q < p - 1
    BY ReceiverAssumption
  <2> QED
    BY <1>1, <2>1, EndsGrow
<1>3. n \in Nat /\ ends[p - 1] < n /\ n <= ends[p] /\ ends[q - 1] < n /\ n <= ends[q]
  BY <1>1 DEF Bytes
<1>4. ~(p < q) /\ ~(q < p)
  BY <1>1, <1>2, <1>3
<1> QED
  BY <1>4

(* The stream is as long as its packets, and byte k of packet p stands     *)
(* where that packet begins.                                               *)
LEMMA StreamIs ==
  ASSUME EndsInOrder
  PROVE  /\ Stream \in Seq((0..Packets) \X Nat)
         /\ Len(Stream) = ends[Packets]
         /\ ends[Packets] \in Nat
         /\ \A p \in 1..Packets : \A k \in 1..Size(p) :
              Stream[ends[p - 1] + k] = <<p, k>>
<1>1. Packets \in 0..Packets /\ ends[Packets] \in Nat
  BY SizesArePositive, ReceiverAssumption
<1>2. ASSUME NEW n \in 1..ends[Packets], NEW p \in 1..Packets, n \in Bytes(p)
      PROVE  Stream[n] = <<p, n - ends[p - 1]>> /\ n - ends[p - 1] \in Nat
  <2>1. PICK q : q = CHOOSE o \in 1..Packets : n \in Bytes(o)
    OBVIOUS
  <2>2. q \in 1..Packets /\ n \in Bytes(q)
    BY <1>2, <2>1
  <2>3. q = p
    BY <1>2, <2>2, PacketsApart
  <2>4. Stream[n] = <<q, n - ends[q - 1]>>
    BY <2>1 DEF Stream
  <2>5. n - ends[p - 1] \in Nat
    BY <1>2, SizesArePositive DEF Bytes
  <2> QED
    BY <2>3, <2>4, <2>5
<1>3. \A n \in 1..ends[Packets] : Stream[n] \in (0..Packets) \X Nat
  <2> SUFFICES ASSUME NEW n \in 1..ends[Packets]
               PROVE  Stream[n] \in (0..Packets) \X Nat
    OBVIOUS
  <2>1. PICK p \in 1..Packets : n \in Bytes(p)
    BY EveryByteHasAPacket
  <2>2. p \in 0..Packets
    BY ReceiverAssumption
  <2>3. Stream[n] = <<p, n - ends[p - 1]>> /\ n - ends[p - 1] \in Nat
    BY <1>2, <2>1
  <2> QED
    BY <2>2, <2>3
<1>4. DOMAIN Stream = 1..ends[Packets] /\ Stream = [n \in 1..ends[Packets] |-> Stream[n]]
  BY DEF Stream
<1>5. Stream \in Seq((0..Packets) \X Nat) /\ Len(Stream) = ends[Packets]
  <2>1. PICK s, l : s = Stream /\ l = ends[Packets]
    OBVIOUS
  <2>2. l \in Nat /\ s = [n \in 1..l |-> s[n]] /\ \A n \in 1..l : s[n] \in (0..Packets) \X Nat
    BY <1>1, <1>3, <1>4, <2>1
  <2>3. s \in Seq((0..Packets) \X Nat) /\ Len(s) = l
    BY <2>2
  <2> QED
    BY <2>1, <2>3
<1>6. ASSUME NEW p \in 1..Packets, NEW k \in 1..Size(p)
      PROVE  Stream[ends[p - 1] + k] = <<p, k>>
  <2>1. /\ ends[p - 1] \in Nat /\ ends[p] \in Nat /\ Size(p) \in Nat
        /\ ends[p] = ends[p - 1] + Size(p) /\ p \in 0..Packets
    BY SizesArePositive, ReceiverAssumption
  <2>2. PICK n \in Nat : n = ends[p - 1] + k
    BY <2>1
  <2>3. n \in Bytes(p) /\ n - ends[p - 1] = k
    BY <2>1, <2>2 DEF Bytes
  <2>4. p = Packets \/ ends[p] < ends[Packets]
    BY <1>1, <2>1, EndsGrow, ReceiverAssumption
  <2>5. n \in 1..ends[Packets]
    BY <1>1, <2>1, <2>2, <2>4
  <2> QED
    BY <1>2, <2>2, <2>3, <2>5
<1> QED
  BY <1>1, <1>5, <1>6

-----------------------------------------------------------------------------
(* Types.                                                                  *)
Cells == (0..Packets) \X Nat

Base == TypeOK /\ EndsInOrder /\ LengthsFit

LEMMA ClearIsRing ==
  ASSUME NEW X, NEW r \in Rings(X)
  PROVE  /\ Clear(r) \in Rings(X)
         /\ Clear(r).read = 0 /\ Clear(r).write = 0 /\ Clear(r).cell = r.cell
<1>1. Clear(r).read = 0 /\ Clear(r).write = 0 /\ Clear(r).cell = r.cell
  BY DEF Rings, Clear
<1>2. 0 \in 0..(MaxSize - 1)
  BY RingAssumption
<1>3. r \in [read : 0..(MaxSize - 1), write : 0..(MaxSize - 1), cell : [Places -> X]]
  BY DEF Rings
<1>4. Clear(r) \in [read : 0..(MaxSize - 1), write : 0..(MaxSize - 1), cell : [Places -> X]]
  BY <1>2, <1>3 DEF Clear
<1> QED
  BY <1>1, <1>4 DEF Rings

LEMMA EmptyIsRing ==
  /\ EmptyRing(Junk) \in Rings(Cells)
  /\ EmptyRing(Junk).read = 0 /\ EmptyRing(Junk).write = 0
  BY RingAssumption, ReceiverAssumption DEF Rings, EmptyRing, Cells, Junk

LEMMA MovesKeepType ==
  ASSUME NEW X, NEW r \in Rings(X), NEW n \in 0..(MaxSize - 1)
  PROVE  MoveWritePos(r, n) \in Rings(X) /\ MoveReadPos(r, n) \in Rings(X)
<1>1. /\ r.write + n \in 0..(2 * MaxSize - 1) /\ r.read + n \in 0..(2 * MaxSize - 1)
  BY RingAssumption DEF Rings
<1>2. /\ (r.write + n) % MaxSize \in 0..(MaxSize - 1)
      /\ (r.read + n) % MaxSize \in 0..(MaxSize - 1)
  BY <1>1, WrapIsMod
<1> QED
  BY <1>2 DEF Rings, MoveWritePos, MoveReadPos

LEMMA StreamPart ==
  ASSUME EndsInOrder, NEW a \in Nat, NEW n \in Nat, a + n <= ends[Packets]
  PROVE  /\ SubSeq(Stream, a + 1, a + n) \in Seq(Cells)
         /\ Len(SubSeq(Stream, a + 1, a + n)) = n
         /\ \A k \in 1..n : SubSeq(Stream, a + 1, a + n)[k] = Stream[a + k]
<1>1. PICK s, l : s = Stream /\ l = ends[Packets]
  OBVIOUS
<1>2. s \in Seq(Cells) /\ Len(s) = l /\ l \in Nat /\ a + n <= l
  BY <1>1, StreamIs DEF Cells
<1>3. /\ SubSeq(s, a + 1, a + n) \in Seq(Cells)
      /\ Len(SubSeq(s, a + 1, a + n)) = n
      /\ \A k \in 1..n : SubSeq(s, a + 1, a + n)[k] = s[a + k]
  BY <1>2
<1> QED
  BY <1>1, <1>3

LEMMA EndsStay ==
  ASSUME EndsInOrder, [Next]_vars
  PROVE  ends' = ends /\ Stream' = Stream /\ EndsInOrder'
<1>1. ends' = ends
  <2>1. CASE UNCHANGED vars
    BY <2>1 DEF vars
  <2>2. CASE Next
    BY <2>2 DEF Next, RegisterBegin, Measure, Issue, Complete, ProcessBegin,
       MoveWrite,
       Deliver, ParsePacket, EndParse, MoveRead, Kick, NullOwner, Close, ClearOwner,
       ClearRing
  <2> QED
    BY <2>1, <2>2
<1>2. Stream' = Stream
  BY <1>1 DEF Stream, Bytes
<1>3. EndsInOrder'
  BY <1>1 DEF EndsInOrder, Size
<1> QED
  BY <1>1, <1>2, <1>3

(* The header tells a size of at most MaxSize; the bytes of a place name a *)
(* packet or none.                                                         *)
LEMMA HeaderSizesAreSizes ==
  ASSUME TypeOK, EndsInOrder, NEW n \in Int, NEW size \in HeaderSizes(n)
  PROVE  size \in 0..MaxSize
<1>1. CASE \E p \in 1..Packets : Header(n, p)
  <2>1. PICK p \in 1..Packets : Header(n, p)
    BY <1>1
  <2>2. ByteAt(n) = <<p, 1>>
    <3>1. 1 \in 1..HeaderSize /\ n + 1 - 1 = n
      BY ReceiverAssumption
    <3>2. ByteAt(n + 1 - 1) = <<p, 1>>
      BY <2>1, <3>1 DEF Header
    <3> QED
      BY <3>1, <3>2
  <2>3. size = Size(p)
    BY <1>1, <2>2 DEF HeaderSizes
  <2> QED
    BY <2>3, SizesArePositive, RingAssumption
<1>2. CASE ~\E p \in 1..Packets : Header(n, p)
  BY <1>2 DEF HeaderSizes
<1> QED
  BY <1>1, <1>2

LEMMA PacketsAreNamed ==
  ASSUME TypeOK, NEW n \in Int, NEW size
  PROVE  PacketAt(n, size) \in 0..Packets
<1>1. Junk \in Cells
  BY ReceiverAssumption DEF Junk, Cells
<1>2. ByteAt(n) \in Cells
  BY <1>1 DEF ByteAt, TypeOK, Cells
<1>3. ByteAt(n)[1] \in 0..Packets
  BY <1>2 DEF Cells
<1> QED
  BY <1>3, ReceiverAssumption DEF PacketAt

LEMMA BaseInit == Init => Base
<1> SUFFICES ASSUME Init PROVE Base
  OBVIOUS
<1>1. ring \in Rings(Cells)
  BY EmptyIsRing DEF Init
<1>2. TypeOK
  <2>1. delivered \in Seq(0..Packets)
    BY DEF Init
  <2>2. wsabufs \in [at : 0..(MaxSize - 1), linear : 0..MaxSize, front : 0..MaxSize]
    BY RingAssumption DEF Init
  <2>3. /\ wsabufs.at + wsabufs.linear <= MaxSize
        /\ wsabufs.linear + wsabufs.front < MaxSize
    BY RingAssumption DEF Init
  <2>4. /\ bytes \in 0..(MaxSize - 1) /\ dataSize \in 0..(MaxSize - 1)
        /\ data \in 0..(MaxSize - 1) /\ processLen \in -1..(MaxSize - 1)
    BY RingAssumption DEF Init
  <2> QED
    BY <1>1, <2>1, <2>2, <2>3, <2>4 DEF Init, TypeOK, Rings, Cells
<1>3. EndsInOrder
  <2>1. 0..(Packets * MaxSize) \subseteq Nat
    BY RingAssumption, ReceiverAssumption
  <2> QED
    BY <2>1 DEF Init, EndsInOrder
<1>4. LengthsFit
  BY DEF Init, LengthsFit
<1> QED
  BY <1>2, <1>3, <1>4 DEF Base

LEMMA BaseStep == Base /\ [Next]_vars => Base'
<1> SUFFICES ASSUME Base, [Next]_vars PROVE Base'
  OBVIOUS
<1>1. TypeOK /\ EndsInOrder /\ LengthsFit /\ ring \in Rings(Cells)
  BY DEF Base, TypeOK, Rings, Cells
<1>2. EndsInOrder'
  BY <1>1, EndsStay
<1>3. Clear(ring) \in Rings(Cells)
  BY <1>1, ClearIsRing
<1>4. CASE RegisterBegin
  <2>1. ring' \in Rings(Cells)
    BY <1>1, <1>3, <1>4 DEF RegisterBegin, ClearAll
  <2>2. TypeOK'
    BY <1>1, <1>4, <2>1 DEF RegisterBegin, ClearAll, Go, TypeOK, Rings, Cells,
       session,
       local, history
  <2>3. LengthsFit'
    BY <1>1, <1>4 DEF RegisterBegin, ClearAll, Go, LengthsFit, TypeOK,
       session, local
  <2> QED
    BY <1>2, <2>2, <2>3 DEF Base
<1>5. CASE Measure
  <2>1. /\ wsabufs' \in [at : 0..(MaxSize - 1), linear : 0..MaxSize, front : 0..MaxSize]
        /\ wsabufs'.at + wsabufs'.linear <= MaxSize
        /\ wsabufs'.linear + wsabufs'.front < MaxSize
    <3>1. PICK w, l, f : w = ring.write /\ l = GetLinearWriteSize(ring) /\ f = GetFreeSize(ring)
      OBVIOUS
    <3>2. PICK r \in Rings(Cells) : r = ring
      BY <1>1
    <3>3. /\ GetUseSize(r) \in 0..(MaxSize - 1)
          /\ GetFreeSize(r) = MaxSize - 1 - GetUseSize(r)
          /\ GetLinearWriteSize(r) \in 0..GetFreeSize(r)
          /\ r.write + GetLinearWriteSize(r) <= MaxSize
      BY RingSizes
    <3>4. r.write \in 0..(MaxSize - 1)
      BY DEF Rings
    <3>5. /\ w \in 0..(MaxSize - 1) /\ f \in 0..(MaxSize - 1) /\ l \in 0..f
          /\ w + l <= MaxSize
      BY <3>1, <3>2, <3>3, <3>4, RingAssumption
    <3>6. wsabufs' = [at |-> w, linear |-> l, front |-> f - l]
      BY <1>5, <3>1 DEF Measure
    <3> QED
      BY <3>5, <3>6, RingAssumption
  <2>2. TypeOK'
    BY <1>1, <1>5, <2>1 DEF Measure, Go, TypeOK, session, history
  <2>3. LengthsFit'
    BY <1>1, <1>5 DEF Measure, Go, LengthsFit, TypeOK, session
  <2> QED
    BY <1>2, <2>2, <2>3 DEF Base
<1>6. CASE Issue
  <2>1. TypeOK'
    BY <1>1, <1>6 DEF Issue, Go, TypeOK, session, local, history
  <2>2. LengthsFit'
    BY <1>1, <1>6 DEF Issue, Go, LengthsFit, TypeOK, session, local
  <2> QED
    BY <1>2, <2>1, <2>2 DEF Base
<1>7. ASSUME NEW n \in 0..MaxSize, Complete(n) PROVE Base'
  <2>1. n \in Nat /\ arrived \in Nat /\ arrived + n <= ends[Packets]
    BY <1>1, <1>7, RingAssumption DEF Complete, TypeOK
  <2>2. PICK b : b = SubSeq(Stream, arrived + 1, arrived + n)
    OBVIOUS
  <2>3. b \in Seq(Cells)
    <3>1. PICK a \in Nat : a = arrived
      BY <2>1
    <3> QED
      BY <1>1, <2>1, <2>2, <3>1, StreamPart
  <2>4. PICK at, linear : at = wsabufs.at /\ linear = wsabufs.linear
    OBVIOUS
  <2>5. at \in Nat /\ linear \in Nat
    BY <1>1, <2>4, RingAssumption DEF TypeOK
  <2>6. PICK r \in Rings(Cells) : r = ring
    BY <1>1
  <2>7. Scatter(r, at, linear, b) \in Rings(Cells)
    BY <2>3, <2>5, ScatterKeepsType
  <2>8. ring' \in Rings(Cells)
    BY <1>7, <2>2, <2>4, <2>6, <2>7 DEF Complete
  <2>9. TypeOK'
    <3>1. bytes' \in 0..(MaxSize - 1)
      <4>1. bytes' = n /\ n <= wsabufs.linear + wsabufs.front
        BY <1>7 DEF Complete
      <4>2. wsabufs.linear + wsabufs.front \in 0..(MaxSize - 1)
        BY <1>1, RingAssumption DEF TypeOK
      <4> QED
        BY <2>1, <4>1, <4>2, RingAssumption
    <3>2. pc' \in {"process", "idle"}
      BY <1>7 DEF Complete, Go
    <3> QED
      BY <1>1, <1>7, <2>8, <3>1, <3>2 DEF Complete, TypeOK, Rings, Cells,
         session, history
  <2>10. LengthsFit'
    BY <1>1, <1>7 DEF Complete, Go, LengthsFit, TypeOK, session
  <2> QED
    BY <1>2, <2>9, <2>10 DEF Base
<1>8. CASE ProcessBegin
  <2>1. ring' \in Rings(Cells)
    BY <1>1, <1>3, <1>8 DEF ProcessBegin, ClearAll
  <2>2. TypeOK'
    BY <1>1, <1>8, <2>1 DEF ProcessBegin, ClearAll, Go, TypeOK, Rings, Cells,
       session,
       local, history
  <2>3. LengthsFit'
    BY <1>1, <1>8 DEF ProcessBegin, ClearAll, Go, LengthsFit, TypeOK, session,
       local
  <2> QED
    BY <1>2, <2>2, <2>3 DEF Base
<1>9. CASE MoveWrite
  <2>1. PICK r \in Rings(Cells), n \in 0..(MaxSize - 1) : r = ring /\ n = bytes
    BY <1>1 DEF TypeOK
  <2>2. MoveWritePos(r, n) \in Rings(Cells)
    BY MovesKeepType
  <2>3. ring' \in Rings(Cells)
    BY <1>9, <2>1, <2>2 DEF MoveWrite
  <2>4. dataSize' \in 0..(MaxSize - 1)
    <3>1. PICK s \in Rings(Cells) : s = ring'
      BY <2>3
    <3>2. GetUseSize(s) \in 0..(MaxSize - 1)
      BY RingSizes
    <3> QED
      BY <1>9, <3>1, <3>2 DEF MoveWrite
  <2>5. late' \in BOOLEAN
    BY <1>9 DEF MoveWrite
  <2>6. arrived' \in Nat
    BY <1>1, <1>9, RingAssumption DEF MoveWrite, TypeOK
  <2>7. TypeOK'
    BY <1>1, <1>9, <2>3, <2>4, <2>5, <2>6 DEF MoveWrite, Go, TypeOK, Rings,
       Cells, session
  <2>8. LengthsFit'
    BY <1>1, <1>9 DEF MoveWrite, Go, LengthsFit, TypeOK, session
  <2> QED
    BY <1>2, <2>7, <2>8 DEF Base
<1>10. CASE Deliver
  <2>1. wrapped' \in BOOLEAN
    BY <1>10 DEF Deliver
  <2>2. TypeOK'
    BY <1>1, <1>10, <2>1, RingAssumption DEF Deliver, Go, TypeOK, session
  <2>3. LengthsFit'
    BY <1>1, <1>10, RingAssumption DEF Deliver, Go, LengthsFit, TypeOK, session
  <2> QED
    BY <1>2, <2>2, <2>3 DEF Base
<1>11. CASE ParsePacket
  <2>1. PICK size \in HeaderSizes(data + processLen) :
          /\ size >= HeaderSize
          /\ ~Incomplete(Rest, size)
          /\ delivered' = Append(delivered, PacketAt(data + processLen, size))
          /\ processLen' = processLen + size
    BY <1>11 DEF ParsePacket
  <2>2. PICK n \in Int : n = data + processLen
    BY <1>1 DEF TypeOK
  <2>3. size \in 0..MaxSize
    BY <1>1, <2>2, HeaderSizesAreSizes
  <2>4. /\ bytes \in 0..(MaxSize - 1) /\ processLen \in -1..(MaxSize - 1)
        /\ processLen >= 0 /\ pc = "parse" /\ pc' = "parse"
    BY <1>1, <1>11 DEF ParsePacket, Go, LengthsFit, TypeOK
  <2>5. processLen' \in 0..(MaxSize - 1) /\ processLen' <= bytes
    BY <2>1, <2>3, <2>4, RingAssumption DEF Incomplete, Rest
  <2>6. delivered' \in Seq(0..Packets)
    <3>1. PICK p \in 0..Packets : p = PacketAt(data + processLen, size)
      BY <1>1, <2>2, PacketsAreNamed
    <3> QED
      BY <1>1, <2>1, <3>1 DEF TypeOK
  <2>7. TypeOK'
    <3>1. processLen' \in -1..(MaxSize - 1)
      BY <2>5, RingAssumption
    <3> QED
      BY <1>1, <1>11, <2>4, <2>6, <3>1 DEF ParsePacket, TypeOK, session
  <2>8. LengthsFit'
    BY <1>1, <1>11, <2>4, <2>5, RingAssumption DEF ParsePacket, LengthsFit,
       session
  <2> QED
    BY <1>2, <2>7, <2>8 DEF Base
<1>12. CASE EndParse
  <2>1. pc = "parse" /\ pc' = "check" /\ (processLen' = processLen \/ processLen' = -1)
    BY <1>12 DEF EndParse, Go
  <2>2. processLen' \in -1..(MaxSize - 1) /\ processLen' <= bytes
    BY <1>1, <2>1, RingAssumption DEF TypeOK, LengthsFit
  <2>3. TypeOK'
    BY <1>1, <1>12, <2>1, <2>2 DEF EndParse, TypeOK, session, history
  <2>4. LengthsFit'
    BY <1>1, <1>12, <2>1, <2>2 DEF EndParse, LengthsFit, session
  <2> QED
    BY <1>2, <2>3, <2>4 DEF Base
<1>13. CASE MoveRead
  <2>1. CASE processLen < 0 \/ processLen > dataSize
    <3>1. pc = "check" /\ pc' = "kick" /\ UNCHANGED <<ring, consumed>>
      BY <1>13, <2>1 DEF MoveRead, Go
    <3>2. TypeOK'
      BY <1>1, <1>13, <3>1 DEF MoveRead, TypeOK, session, local
    <3>3. LengthsFit'
      BY <1>1, <1>13, <3>1 DEF MoveRead, LengthsFit, session, local
    <3> QED
      BY <1>2, <3>2, <3>3 DEF Base
  <2>2. CASE ~(processLen < 0 \/ processLen > dataSize)
    <3>1. /\ pc = "check" /\ pc' = "register"
          /\ ring' = MoveReadPos(ring, processLen)
          /\ consumed' = consumed + processLen
      BY <1>13, <2>2 DEF MoveRead, Go
    <3>2. processLen \in 0..(MaxSize - 1)
      BY <1>1, <2>2, RingAssumption DEF TypeOK
    <3>3. PICK r \in Rings(Cells), n \in 0..(MaxSize - 1) : r = ring /\ n = processLen
      BY <1>1, <3>2
    <3>4. MoveReadPos(r, n) \in Rings(Cells)
      BY MovesKeepType
    <3>5. ring' \in Rings(Cells)
      BY <3>1, <3>3, <3>4
    <3>6. consumed' \in Nat
      BY <1>1, <3>1, <3>2, RingAssumption DEF TypeOK
    <3>7. TypeOK'
      BY <1>1, <1>13, <3>1, <3>5, <3>6 DEF MoveRead, TypeOK, Rings, Cells,
         session, local
    <3>8. LengthsFit'
      BY <1>1, <1>13, <3>1 DEF MoveRead, LengthsFit, session, local
    <3> QED
      BY <1>2, <3>7, <3>8 DEF Base
  <2> QED
    BY <2>1, <2>2
<1>14. CASE Kick
  <2>1. ring' \in Rings(Cells)
    BY <1>3, <1>14 DEF Kick, ClearAll
  <2>2. TypeOK'
    BY <1>1, <1>14, <2>1 DEF Kick, ClearAll, Disconnect, Go, TypeOK, Rings,
       Cells, local,
       history
  <2>3. LengthsFit'
    BY <1>1, <1>14 DEF Kick, ClearAll, Go, LengthsFit, local
  <2> QED
    BY <1>2, <2>2, <2>3 DEF Base
<1>15. CASE NullOwner
  <2>1. pc' = pc
    BY <1>15 DEF NullOwner, Go
  <2>2. TypeOK'
    BY <1>1, <1>15, <2>1 DEF NullOwner, TypeOK, session, local, history
  <2>3. LengthsFit'
    BY <1>1, <1>15, <2>1 DEF NullOwner, LengthsFit, session, local
  <2> QED
    BY <1>2, <2>2, <2>3 DEF Base
<1>16. CASE Close
  <2>1. TypeOK'
    BY <1>1, <1>16 DEF Close, Disconnect, TypeOK, local, history
  <2>2. LengthsFit'
    BY <1>1, <1>16 DEF Close, Disconnect, LengthsFit, local
  <2> QED
    BY <1>2, <2>1, <2>2 DEF Base
<1>17. CASE ClearOwner
  <2>1. TypeOK'
    BY <1>1, <1>17 DEF ClearOwner, TypeOK, local, history
  <2>2. LengthsFit'
    BY <1>1, <1>17 DEF ClearOwner, LengthsFit, local
  <2> QED
    BY <1>2, <2>1, <2>2 DEF Base
<1>18. CASE ClearRing
  <2>1. ring' \in Rings(Cells)
    BY <1>3, <1>18 DEF ClearRing
  <2>2. TypeOK'
    BY <1>1, <1>18, <2>1 DEF ClearRing, TypeOK, Rings, Cells, local, history
  <2>3. LengthsFit'
    BY <1>1, <1>18 DEF ClearRing, LengthsFit, local
  <2> QED
    BY <1>2, <2>2, <2>3 DEF Base
<1>19. CASE UNCHANGED vars
  BY <1>1, <1>2, <1>19 DEF vars, session, local, history, Base, TypeOK,
     LengthsFit
<1> QED
  BY <1>4, <1>5, <1>6, <1>7, <1>8, <1>9, <1>10, <1>11, <1>12, <1>13, <1>14,
     <1>15, <1>16,
     <1>17, <1>18, <1>19 DEF Next

-----------------------------------------------------------------------------
(* What has come and was not taken is in the ring.                         *)
Held == owner => RingHolds

(* A step that moves no byte.                                              *)
LEMMA HeldSame ==
  ASSUME EndsInOrder, [Next]_vars, Held, owner' => owner,
         UNCHANGED <<ring, wsabufs, bytes, dataSize, arrived, consumed, late>>,
         pc' \in {"issue", "posted"} => pc \in {"issue", "posted"},
         pc' \in {"process", "move"} => pc \in {"process", "move"},
         pc' \in {"deliver", "parse", "check"} => pc \in {"deliver", "parse", "check"}
  PROVE  Held'
<1> SUFFICES ASSUME owner' PROVE RingHolds'
  BY DEF Held
<1>1. RingHolds
  BY DEF Held
<1>2. ends' = ends /\ Stream' = Stream
  BY EndsStay
<1> QED
  BY <1>1, <1>2 DEF RingHolds

LEMMA HeldInit == Init => Held
<1> SUFFICES ASSUME Init PROVE RingHolds
  BY DEF Held
<1>1. EndsInOrder
  BY BaseInit DEF Base
<1>2. GetUseSize(ring) = 0
  BY EmptyIsRing DEF Init, GetUseSize
<1>3. 0 <= ends[Packets]
  BY <1>1, StreamIs
<1> QED
  BY <1>2, <1>3 DEF Init, RingHolds

LEMMA HeldStep == Base /\ Held /\ [Next]_vars => Held'
<1> SUFFICES ASSUME Base, Held, [Next]_vars PROVE Held'
  OBVIOUS
<1>1. TypeOK /\ EndsInOrder /\ LengthsFit /\ ring \in Rings(Cells)
  BY DEF Base, TypeOK, Rings, Cells
<1>2. ends' = ends /\ Stream' = Stream
  BY <1>1, EndsStay
<1>3. PICK r \in Rings(Cells) : r = ring
  BY <1>1
<1>4. CASE RegisterBegin
  <2>1. ~owner' \/ (UNCHANGED <<owner, ring>> /\ pc' = "measure")
    BY <1>4 DEF RegisterBegin, ClearAll, Go
  <2>2. UNCHANGED <<wsabufs, bytes, dataSize, arrived, consumed, late>>
    BY <1>4 DEF RegisterBegin, local, history
  <2>3. CASE ~owner'
    BY <2>3 DEF Held
  <2>4. CASE UNCHANGED <<owner, ring>> /\ pc' = "measure"
    BY <1>1, <2>2, <2>4, HeldSame
  <2> QED
    BY <2>1, <2>3, <2>4
<1>5. CASE Measure
  <2> SUFFICES ASSUME owner' PROVE RingHolds'
    BY DEF Held
  <2>1. /\ UNCHANGED <<ring, arrived, consumed>> /\ pc' \in {"kick", "issue"}
        /\ wsabufs' = [at |-> ring.write, linear |-> GetLinearWriteSize(ring),
                       front |-> GetFreeSize(ring) - GetLinearWriteSize(ring)]
    BY <1>5 DEF Measure, Go, history
  <2>2. RingHolds
    BY <1>5 DEF Held, Measure
  <2> QED
    BY <1>2, <2>1, <2>2 DEF RingHolds
<1>6. CASE Issue
  BY <1>1, <1>6, HeldSame DEF Issue, Go, local, history
<1>7. ASSUME NEW n \in 0..MaxSize, Complete(n) PROVE Held'
  <2> SUFFICES ASSUME owner' PROVE RingHolds'
    BY DEF Held
  <2>1. RingHolds /\ owner /\ pc = "posted" /\ pc' = "process"
    BY <1>7 DEF Held, Complete, Go
  <2>2. /\ wsabufs.at = r.write /\ wsabufs.linear = GetLinearWriteSize(r)
        /\ wsabufs.linear + wsabufs.front = GetFreeSize(r)
    <3>1. wsabufs = [at |-> ring.write, linear |-> GetLinearWriteSize(ring),
                     front |-> GetFreeSize(ring) - GetLinearWriteSize(ring)]
      BY <2>1 DEF RingHolds
    <3>2. GetFreeSize(r) \in Int /\ GetLinearWriteSize(r) \in Int
      BY RingSizes, RingAssumption
    <3> QED
      BY <1>3, <3>1, <3>2
  <2>3. n \in Nat /\ n <= GetFreeSize(r) /\ arrived \in Nat /\ arrived + n <= ends[Packets]
    BY <1>1, <1>7, <2>2, RingAssumption DEF Complete, TypeOK
  <2>4. PICK a, b : a = arrived /\ b = SubSeq(Stream, a + 1, a + n)
    OBVIOUS
  <2>5. /\ b \in Seq(Cells) /\ Len(b) = n
        /\ \A k \in 1..n : b[k] = Stream[arrived + k]
    <3>1. a \in Nat /\ a + n <= ends[Packets]
      BY <2>3, <2>4
    <3> QED
      BY <1>1, <2>3, <2>4, <3>1, StreamPart
  <2>6. PICK s : s = Scatter(r, r.write, GetLinearWriteSize(r), b)
    OBVIOUS
  <2>7. ring' = s
    BY <1>3, <1>7, <2>2, <2>4, <2>6 DEF Complete
  <2>8. s.read = r.read /\ s.write = r.write
    BY <2>3, <2>5, <2>6, ScatterFills
  <2>9. \A k \in 1..n : Spare(s, k) = b[k]
    BY <2>3, <2>5, <2>6, ScatterFills
  <2>10. \A k \in 1..GetUseSize(r) : Unread(s, k) = Unread(r, k)
    BY <2>3, <2>5, <2>6, ScatterFills
  <2>11. GetUseSize(s) = GetUseSize(r) /\ GetFreeSize(s) = GetFreeSize(r)
    BY <2>8 DEF GetUseSize, GetFreeSize
  <2>12. bytes' = n /\ UNCHANGED <<arrived, consumed>>
    BY <1>7 DEF Complete, history
  <2>13. /\ arrived <= ends[Packets] /\ arrived = consumed + GetUseSize(r)
         /\ \A k \in 1..GetUseSize(r) : Unread(r, k) = Stream[consumed + k]
    BY <1>3, <2>1 DEF RingHolds
  <2>14. /\ arrived' <= ends'[Packets] /\ arrived' = consumed' + GetUseSize(ring')
         /\ \A k \in 1..GetUseSize(ring') : Unread(ring', k) = Stream'[consumed' + k]
    BY <1>2, <2>7, <2>10, <2>11, <2>12, <2>13
  <2>15. /\ bytes' <= GetFreeSize(ring')
         /\ arrived' + bytes' <= ends'[Packets]
         /\ \A k \in 1..bytes' : Spare(ring', k) = Stream'[arrived' + k]
    BY <1>2, <2>3, <2>5, <2>7, <2>9, <2>11, <2>12
  <2> QED
    BY <2>1, <2>14, <2>15 DEF RingHolds
<1>8. CASE ProcessBegin
  <2>1. ~owner' \/ (UNCHANGED <<owner, ring>> /\ pc = "process" /\ pc' \in {"kick", "move"})
    BY <1>8 DEF ProcessBegin, ClearAll, Go
  <2>2. UNCHANGED <<wsabufs, bytes, dataSize, arrived, consumed, late>>
    BY <1>8 DEF ProcessBegin, local, history
  <2>3. CASE ~owner'
    BY <2>3 DEF Held
  <2>4. CASE UNCHANGED <<owner, ring>> /\ pc = "process" /\ pc' \in {"kick", "move"}
    BY <1>1, <2>2, <2>4, HeldSame
  <2> QED
    BY <2>1, <2>3, <2>4
<1>9. CASE MoveWrite
  <2> SUFFICES ASSUME owner' PROVE RingHolds'
    BY DEF Held
  <2>1. RingHolds /\ pc = "move" /\ pc' = "deliver"
    BY <1>9 DEF Held, MoveWrite, Go
  <2>2. /\ arrived <= ends[Packets] /\ arrived = consumed + GetUseSize(r)
        /\ \A k \in 1..GetUseSize(r) : Unread(r, k) = Stream[consumed + k]
        /\ bytes <= GetFreeSize(r) /\ arrived + bytes <= ends[Packets]
        /\ \A k \in 1..bytes : Spare(r, k) = Stream[arrived + k]
    BY <1>3, <2>1 DEF RingHolds
  <2>3. PICK n \in Nat, use \in Nat : n = bytes /\ use = GetUseSize(r)
    <3>1. GetUseSize(r) \in Nat /\ bytes \in Nat
      BY <1>1, RingSizes, RingAssumption DEF TypeOK
    <3> QED
      BY <3>1
  <2>4. n \in 0..GetFreeSize(r)
    <3>1. GetFreeSize(r) \in Int
      BY RingSizes, RingAssumption
    <3> QED
      BY <2>2, <2>3, <3>1
  <2>5. PICK s : s = MoveWritePos(r, n)
    OBVIOUS
  <2>6. GetUseSize(s) = use + n
    BY <2>3, <2>4, <2>5, MoveWriteAdds
  <2>7. \A k \in 1..use : Unread(s, k) = Unread(r, k)
    BY <2>3, <2>4, <2>5, MoveWriteAdds
  <2>8. \A k \in 1..n : Unread(s, use + k) = Spare(r, k)
    BY <2>3, <2>4, <2>5, MoveWriteAdds
  <2>9. /\ ring' = s /\ arrived' = arrived + n /\ dataSize' = GetUseSize(s)
        /\ UNCHANGED <<bytes, consumed>> /\ late' = (r.read # r.write)
    BY <1>3, <1>9, <2>3, <2>5 DEF MoveWrite
  <2>10. arrived \in Nat /\ consumed \in Nat
    BY <1>1 DEF TypeOK
  <2>11. /\ arrived' <= ends'[Packets] /\ arrived' = consumed' + GetUseSize(ring')
    BY <1>2, <2>2, <2>3, <2>6, <2>9, <2>10
  <2>12. ASSUME NEW k \in 1..(use + n)
         PROVE  Unread(s, k) = Stream[consumed + k]
    <3>1. CASE k <= use
      <4>1. k \in 1..use
        BY <2>3, <3>1
      <4> QED
        BY <2>2, <2>3, <2>7, <4>1
    <3>2. CASE k > use
      <4>1. PICK j \in 1..n : k = use + j
        <5>1. k - use \in 1..n /\ k = use + (k - use)
          BY <2>3, <3>2
        <5> QED
          BY <5>1
      <4>2. arrived + j = consumed + k
        BY <2>2, <2>3, <2>10, <4>1
      <4> QED
        BY <2>2, <2>3, <2>8, <4>1, <4>2
    <3>3. k <= use \/ k > use
      OBVIOUS
    <3> QED
      BY <3>1, <3>2, <3>3
  <2>13. \A k \in 1..GetUseSize(ring') : Unread(ring', k) = Stream'[consumed' + k]
    BY <1>2, <2>6, <2>9, <2>12
  <2>14. /\ bytes' <= GetUseSize(ring') /\ dataSize' = GetUseSize(ring')
         /\ ~late' => bytes' = GetUseSize(ring')
    <3>1. bytes' <= GetUseSize(ring') /\ dataSize' = GetUseSize(ring')
      BY <2>3, <2>6, <2>9
    <3>2. ~late' => use = 0
      <4>1. ~late' => r.read = r.write
        BY <2>9, Zenon
      <4>2. r.read = r.write => GetUseSize(r) = 0
        BY RingAssumption DEF GetUseSize, Rings
      <4> QED
        BY <2>3, <4>1, <4>2
    <3> QED
      BY <2>3, <2>6, <2>9, <3>1, <3>2
  <2> QED
    BY <2>1, <2>11, <2>13, <2>14 DEF RingHolds
<1>10. CASE Deliver
  BY <1>1, <1>10, HeldSame DEF Deliver, Go
<1>11. CASE ParsePacket
  BY <1>1, <1>11, HeldSame DEF ParsePacket, Go
<1>12. CASE EndParse
  BY <1>1, <1>12, HeldSame DEF EndParse, Go, history
<1>13. CASE MoveRead
  <2>1. CASE processLen < 0 \/ processLen > dataSize
    <3>1. pc' = "kick" /\ UNCHANGED <<ring, consumed, owner, arrived, late>>
      BY <1>13, <2>1 DEF MoveRead, Go
    <3>2. UNCHANGED <<wsabufs, bytes, dataSize>>
      BY <1>13 DEF MoveRead, local
    <3> QED
      BY <1>1, <3>1, <3>2, HeldSame
  <2>2. CASE ~(processLen < 0 \/ processLen > dataSize)
    <3> SUFFICES ASSUME owner' PROVE RingHolds'
      BY DEF Held
    <3>1. /\ RingHolds /\ pc = "check" /\ pc' = "register"
          /\ ring' = MoveReadPos(ring, processLen)
          /\ consumed' = consumed + processLen /\ arrived' = arrived
      BY <1>13, <2>2 DEF Held, MoveRead, Go
    <3>2. /\ arrived <= ends[Packets] /\ arrived = consumed + GetUseSize(r)
          /\ \A k \in 1..GetUseSize(r) : Unread(r, k) = Stream[consumed + k]
          /\ dataSize = GetUseSize(r)
      BY <1>3, <3>1 DEF RingHolds
    <3>3. PICK n \in Nat, use \in Nat : n = processLen /\ use = GetUseSize(r) /\ n <= use
      <4>1. processLen \in Nat /\ GetUseSize(r) \in Nat /\ processLen <= GetUseSize(r)
        BY <1>1, <2>2, <3>2, RingAssumption DEF TypeOK
      <4> QED
        BY <4>1
    <3>4. n \in 0..GetUseSize(r)
      BY <3>3
    <3>5. PICK s : s = MoveReadPos(r, n)
      OBVIOUS
    <3>6. GetUseSize(s) = use - n
      BY <3>3, <3>4, <3>5, MoveReadDrops
    <3>7. \A k \in 1..(use - n) : Unread(s, k) = Unread(r, n + k)
      BY <3>3, <3>4, <3>5, MoveReadDrops
    <3>8. ring' = s /\ consumed' = consumed + n
      BY <1>3, <3>1, <3>3, <3>5
    <3>9. arrived \in Nat /\ consumed \in Nat
      BY <1>1 DEF TypeOK
    <3>10. /\ arrived' <= ends'[Packets] /\ arrived' = consumed' + GetUseSize(ring')
      BY <1>2, <3>1, <3>2, <3>3, <3>6, <3>8, <3>9
    <3>11. ASSUME NEW k \in 1..(use - n)
           PROVE  Unread(s, k) = Stream[(consumed + n) + k]
      <4>1. n + k \in 1..use /\ consumed + (n + k) = (consumed + n) + k
        BY <3>3, <3>9
      <4> QED
        BY <3>2, <3>3, <3>7, <4>1
    <3>12. \A k \in 1..GetUseSize(ring') : Unread(ring', k) = Stream'[consumed' + k]
      BY <1>2, <3>6, <3>8, <3>11
    <3> QED
      BY <3>1, <3>10, <3>12 DEF RingHolds
  <2> QED
    BY <2>1, <2>2
<1>14. CASE Kick
  BY <1>14 DEF Kick, ClearAll, Held
<1>15. CASE NullOwner
  BY <1>15 DEF NullOwner, Held
<1>16. CASE Close
  BY <1>1, <1>16, HeldSame DEF Close, local, history
<1>17. CASE ClearOwner
  BY <1>17 DEF ClearOwner, Held
<1>18. CASE ClearRing
  BY <1>1, <1>18 DEF ClearRing, LengthsFit, Held
<1>19. CASE UNCHANGED vars
  BY <1>1, <1>19, HeldSame DEF vars, local, history
<1> QED
  BY <1>4, <1>5, <1>6, <1>7, <1>8, <1>9, <1>10, <1>11, <1>12, <1>13, <1>14,
     <1>15, <1>16,
     <1>17, <1>18, <1>19 DEF Next

-----------------------------------------------------------------------------
(* Packets come out in order.                                              *)
Ordered == (owner /\ ~wrapped => ParseAligned) /\ InOrder /\ CaughtUp

(* A whole header left in bytes that do not cross the end of the ring is   *)
(* that of the next packet.                                                *)
LEMMA NextPacket ==
  ASSUME Base, RingHolds, ParseAligned, InOrder, owner, ~wrapped, pc = "parse",
         Rest >= HeaderSize
  PROVE  LET p == Len(delivered) + 1
         IN  /\ p \in 1..Packets
             /\ HeaderSizes(data + processLen) = {Size(p)}
             /\ Rest >= Size(p) => PacketAt(data + processLen, Size(p)) = p
<1>1. PICK n : n = Len(delivered)
  OBVIOUS
<1>2. /\ n <= Packets /\ consumed + processLen = ends[n] /\ n \in 0..Packets
  <2>1. n <= Packets /\ consumed + processLen = ends[n]
    BY <1>1, Zenon DEF InOrder, Parsed
  <2>2. n \in Nat
    BY <1>1 DEF Base, TypeOK
  <2> QED
    BY <2>1, <2>2, ReceiverAssumption
<1>3. PICK b \in Nat, l \in Nat, d \in Nat, c \in Nat, a \in Nat, u \in Nat :
        /\ b = bytes /\ l = processLen /\ d = data /\ c = consumed /\ a = arrived
        /\ u = GetUseSize(ring)
  <2>1. bytes \in Nat /\ data \in Nat /\ consumed \in Nat /\ arrived \in Nat
    BY RingAssumption DEF Base, TypeOK
  <2>2. processLen \in Nat
    BY RingAssumption DEF Base, TypeOK, LengthsFit
  <2>3. PICK r \in Rings(Cells) : r = ring
    BY DEF Base, TypeOK, Rings, Cells
  <2>4. GetUseSize(r) \in Nat
    BY RingSizes, RingAssumption
  <2> QED
    BY <2>1, <2>2, <2>3, <2>4
<1>4. /\ l <= b /\ d + b <= MaxSize /\ b <= u /\ a = c + u /\ a <= ends[Packets]
      /\ d = ring.read /\ b - l >= HeaderSize /\ HeaderSize \in Nat \ {0}
      /\ c + l = ends[n] /\ ends[n] \in Nat /\ ends[Packets] \in Nat
  <2>1. l <= b
    BY <1>3 DEF Base, LengthsFit
  <2>2. d + b <= MaxSize /\ d = ring.read
    BY <1>3 DEF ParseAligned
  <2>3. b <= u /\ a = c + u /\ a <= ends[Packets]
    BY <1>3 DEF RingHolds
  <2>4. ends[n] \in Nat /\ ends[Packets] \in Nat
    BY <1>2, SizesArePositive, StreamIs DEF Base
  <2> QED
    BY <1>2, <1>3, <2>1, <2>2, <2>3, <2>4, ReceiverAssumption DEF Rest
<1>5. n # Packets
  BY <1>2, <1>4, ReceiverAssumption
<1>6. PICK p \in 1..Packets : p = n + 1 /\ p - 1 = n
  BY <1>2, <1>5, ReceiverAssumption
<1>7. PICK z \in Nat : z = Size(p) /\ z >= HeaderSize
  BY SizesArePositive DEF Base
(* Byte k from where OnReceive stands is byte k of packet p.               *)
<1>8. ASSUME NEW k \in 1..z, k <= b - l
      PROVE  ByteAt(d + l + k - 1) = <<p, k>>
  <2>1. PICK m \in 1..u : m = l + k
    <3>1. l + k \in 1..u
      BY <1>3, <1>4, <1>8
    <3> QED
      BY <3>1
  <2>2. /\ d + l + k - 1 \in Places /\ d + l + k - 1 = Wrap(ring.read + m - 1)
    BY <1>3, <1>4, <1>8, <2>1, RingAssumption DEF Places, Wrap
  <2>3. ByteAt(d + l + k - 1) = Unread(ring, m)
    BY <2>2 DEF ByteAt, Unread
  <2>4. Unread(ring, m) = Stream[c + m]
    BY <1>3 DEF RingHolds
  <2>5. c + m = ends[p - 1] + k
    BY <1>4, <1>6, <1>8, <2>1
  <2>6. Stream[ends[p - 1] + k] = <<p, k>>
    BY <1>7, StreamIs DEF Base
  <2> QED
    BY <2>3, <2>4, <2>5, <2>6
<1>9. ByteAt(d + l) = <<p, 1>>
  <2>1. 1 \in 1..z /\ 1 <= b - l /\ d + l + 1 - 1 = d + l
    BY <1>3, <1>4, <1>7
  <2>2. ByteAt(d + l + 1 - 1) = <<p, 1>>
    BY <1>8, <2>1
  <2> QED
    BY <2>1, <2>2
<1>10. Header(d + l, p)
  <2>1. \A k \in 1..HeaderSize : k \in 1..z /\ k <= b - l
    BY <1>3, <1>4, <1>7
  <2> QED
    BY <1>8, <2>1 DEF Header
<1>11. HeaderSizes(d + l) = {Size(p)}
  BY <1>9, <1>10 DEF HeaderSizes
<1>12. ASSUME b - l >= z PROVE PacketAt(d + l, Size(p)) = p
  <2>1. \A k \in 1..z : k <= b - l
    BY <1>3, <1>12
  <2>2. \A k \in 1..Size(p) : ByteAt(d + l + k - 1) = <<p, k>>
    BY <1>7, <1>8, <2>1
  <2> QED
    BY <1>9, <2>2 DEF PacketAt
<1>13. Rest >= Size(p) => b - l >= z
  BY <1>3, <1>7 DEF Rest
<1> QED
  BY <1>1, <1>3, <1>6, <1>11, <1>12, <1>13

(* A step that OnReceive has no part in.                                   *)
LEMMA OrderAside ==
  ASSUME EndsInOrder, [Next]_vars, Ordered, owner' => owner,
         UNCHANGED <<delivered, consumed, wrapped>>,
         pc \notin {"parse", "check"}, pc' \notin {"parse", "check", "register"}
  PROVE  Ordered'
<1>1. ends' = ends
  BY EndsStay
<1>2. InOrder'
  BY <1>1 DEF Ordered, InOrder, Parsed
<1> QED
  BY <1>2 DEF Ordered, ParseAligned, CaughtUp

LEMMA OrderSame ==
  ASSUME EndsInOrder, [Next]_vars, Ordered, owner' => owner,
         UNCHANGED <<ring, pc, bytes, data, processLen, delivered, consumed, late, wrapped>>
  PROVE  Ordered'
<1>1. ends' = ends
  BY EndsStay
<1>2. InOrder'
  BY <1>1 DEF Ordered, InOrder, Parsed
<1>3. (owner /\ ~wrapped => ParseAligned)'
  BY <1>1 DEF Ordered, ParseAligned, Rest, Size
<1>4. CaughtUp'
  BY <1>1 DEF Ordered, CaughtUp, Size
<1> QED
  BY <1>2, <1>3, <1>4 DEF Ordered

LEMMA OrderCleared ==
  ASSUME ~owner'
  PROVE  Ordered'
  BY DEF Ordered, InOrder, CaughtUp

LEMMA OrderInit == Init => Ordered
<1> SUFFICES ASSUME Init PROVE Ordered
  OBVIOUS
<1>1. EndsInOrder
  BY BaseInit DEF Base
<1>2. InOrder
  BY ReceiverAssumption DEF Init, InOrder, Parsed
<1>3. CaughtUp
  <2>1. GetUseSize(ring) = 0
    BY EmptyIsRing DEF Init, GetUseSize
  <2>2. 1 <= Packets => 0 < Size(1)
    BY <1>1, SizesArePositive, ReceiverAssumption
  <2>3. Len(delivered) + 1 = 1
    BY DEF Init
  <2> QED
    BY <2>1, <2>2, <2>3 DEF CaughtUp
<1> QED
  BY <1>2, <1>3 DEF Init, Ordered, ParseAligned

LEMMA OrderStep == Base /\ Held /\ Ordered /\ [Next]_vars => Ordered'
<1> SUFFICES ASSUME Base, Held, Ordered, [Next]_vars PROVE Ordered'
  OBVIOUS
<1>1. TypeOK /\ EndsInOrder /\ LengthsFit /\ ring \in Rings(Cells)
  BY DEF Base, TypeOK, Rings, Cells
<1>2. ends' = ends
  BY <1>1, EndsStay
<1>3. PICK r \in Rings(Cells) : r = ring
  BY <1>1
<1>4. CASE RegisterBegin
  <2>1. ~owner' \/ (owner' = owner /\ pc = "register" /\ pc' = "measure")
    BY <1>4 DEF RegisterBegin, ClearAll, Go
  <2>2. UNCHANGED <<delivered, consumed, wrapped>>
    BY <1>4 DEF RegisterBegin, history
  <2>3. (owner' = owner /\ pc = "register" /\ pc' = "measure") => Ordered'
    BY <1>1, <2>2, OrderAside
  <2> QED
    BY <2>1, <2>3, OrderCleared
<1>5. CASE Measure
  BY <1>1, <1>5, OrderAside DEF Measure, Go, history
<1>6. CASE Issue
  BY <1>1, <1>6, OrderAside DEF Issue, Go, history
<1>7. ASSUME NEW n \in 0..MaxSize, Complete(n) PROVE Ordered'
  BY <1>1, <1>7, OrderAside DEF Complete, Go, history
<1>8. CASE ProcessBegin
  <2>1. ~owner' \/ (owner' = owner /\ pc = "process" /\ pc' \in {"kick", "move"})
    BY <1>8 DEF ProcessBegin, ClearAll, Go
  <2>2. UNCHANGED <<delivered, consumed, wrapped>>
    BY <1>8 DEF ProcessBegin, history
  <2>3. (owner' = owner /\ pc = "process" /\ pc' \in {"kick", "move"}) => Ordered'
    BY <1>1, <2>2, OrderAside
  <2> QED
    BY <2>1, <2>3, OrderCleared
<1>9. CASE MoveWrite
  BY <1>1, <1>9, OrderAside DEF MoveWrite, Go
<1>10. CASE Deliver
  <2> SUFFICES ASSUME owner', ~wrapped' PROVE Ordered'
    BY <1>10 DEF Ordered, InOrder, CaughtUp, Deliver, Go
  <2>1. /\ pc = "deliver" /\ pc' = "parse" /\ data' = ring.read /\ processLen' = 0
        /\ UNCHANGED <<ring, bytes, delivered, consumed, owner>>
    BY <1>10 DEF Deliver, Go
  <2>2. ~wrapped /\ ~(ring.read + bytes > MaxSize)
    BY <1>10, Zenon DEF Deliver
  <2>3. data' + bytes' <= MaxSize
    <3>1. ring.read \in Int /\ bytes \in Int
      BY <1>1, <1>3, RingAssumption DEF TypeOK, Rings
    <3> QED
      BY <2>1, <2>2, <3>1, RingAssumption
  <2>4. ParseAligned'
    BY <2>1, <2>3 DEF ParseAligned
  <2>5. InOrder'
    BY <1>2, <2>1, <2>2 DEF Ordered, InOrder, Parsed
  <2> QED
    BY <2>1, <2>4, <2>5 DEF Ordered, CaughtUp
<1>11. CASE ParsePacket
  <2>1. /\ pc = "parse" /\ pc' = "parse" /\ Rest >= HeaderSize
        /\ UNCHANGED <<ring, bytes, data, consumed, owner, late, wrapped>>
    BY <1>11 DEF ParsePacket, Go
  <2> SUFFICES ASSUME owner, ~wrapped PROVE Ordered'
    BY <2>1 DEF Ordered, InOrder, CaughtUp
  <2>2. RingHolds /\ ParseAligned /\ InOrder
    BY DEF Held, Ordered
  <2>3. PICK n \in Nat : n = Len(delivered)
    BY <1>1 DEF TypeOK
  <2>4. PICK p : p = n + 1
    OBVIOUS
  <2>5. /\ p \in 1..Packets /\ HeaderSizes(data + processLen) = {Size(p)}
        /\ Rest >= Size(p) => PacketAt(data + processLen, Size(p)) = p
    BY <2>1, <2>2, <2>3, <2>4, NextPacket
  <2>6. /\ ~Incomplete(Rest, Size(p)) /\ processLen' = processLen + Size(p)
        /\ delivered' = Append(delivered, PacketAt(data + processLen, Size(p)))
    BY <1>11, <2>5 DEF ParsePacket
  <2>7. /\ bytes \in Int /\ processLen \in Int /\ consumed \in Int /\ processLen >= 0
        /\ Size(p) \in Nat /\ ends[p] = ends[p - 1] + Size(p) /\ ends[p - 1] \in Nat
    BY <1>1, <2>1, <2>5, SizesArePositive, RingAssumption DEF TypeOK,
       LengthsFit
  <2>8. delivered' = Append(delivered, p)
    <3>1. Rest >= Size(p)
      BY <2>6, <2>7 DEF Incomplete, Rest
    <3> QED
      BY <2>5, <2>6, <3>1
  <2>9. /\ n <= Packets /\ delivered = [k \in 1..n |-> k] /\ consumed + processLen = ends[n]
    BY <2>1, <2>2, <2>3 DEF InOrder, Parsed
  <2>10. Len(delivered') = p /\ delivered' = [k \in 1..p |-> k]
    <3>1. PICK s \in Seq(0..Packets) : s = delivered
      BY <1>1 DEF TypeOK
    <3>2. s \in Seq(0..Packets) /\ Len(s) = n /\ \A k \in 1..n : s[k] = k
      BY <2>3, <2>9, <3>1
    <3>3. p \in Nat /\ p = n + 1 /\ p \in 0..Packets
      BY <2>3, <2>4, <2>5, ReceiverAssumption
    <3>4. Append(s, p) = [k \in 1..p |-> k] /\ Len(Append(s, p)) = p
      BY <3>2, <3>3
    <3> QED
      BY <2>8, <3>1, <3>4
  <2>11. p <= Packets /\ consumed' + processLen' = ends'[p]
    <3>1. p - 1 = n
      BY <2>3, <2>4
    <3> QED
      BY <1>2, <2>1, <2>5, <2>6, <2>7, <2>9, <3>1, ReceiverAssumption
  <2>12. InOrder'
    BY <2>1, <2>10, <2>11 DEF InOrder, Parsed
  <2>13. ParseAligned'
    <3>1. processLen' >= 0
      BY <2>6, <2>7
    <3> QED
      BY <2>1, <2>2, <3>1 DEF ParseAligned
  <2> QED
    BY <2>1, <2>12, <2>13 DEF Ordered, CaughtUp
<1>12. CASE EndParse
  <2>1. /\ pc = "parse" /\ pc' = "check"
        /\ UNCHANGED <<ring, bytes, data, consumed, owner, delivered, late, wrapped>>
    BY <1>12 DEF EndParse, Go, history
  <2> SUFFICES ASSUME owner, ~wrapped PROVE Ordered'
    BY <2>1 DEF Ordered, InOrder, CaughtUp
  <2>2. RingHolds /\ ParseAligned /\ InOrder
    BY DEF Held, Ordered
  <2>3. PICK n \in Nat : n = Len(delivered)
    BY <1>1 DEF TypeOK
  <2>4. PICK p : p = n + 1
    OBVIOUS
  <2>5. n <= Packets /\ consumed + processLen = ends[n]
    BY <2>1, <2>2, <2>3 DEF InOrder, Parsed
  <2>6. p <= Packets => p \in 1..Packets /\ Size(p) \in Nat /\ Size(p) >= HeaderSize
    BY <1>1, <2>3, <2>4, SizesArePositive, ReceiverAssumption
  <2>7. UNCHANGED processLen /\ (p <= Packets => Rest < Size(p))
    <3>1. Rest \in Int /\ HeaderSize \in Nat
      BY <1>1, RingAssumption, ReceiverAssumption DEF TypeOK, Rest
    <3>2. CASE Rest < HeaderSize
      <4>1. UNCHANGED processLen
        BY <1>12, <3>1, <3>2 DEF EndParse
      <4> QED
        BY <2>6, <3>1, <3>2, <4>1
    <3>3. CASE Rest >= HeaderSize
      <4>1. p \in 1..Packets /\ HeaderSizes(data + processLen) = {Size(p)}
        BY <2>1, <2>2, <2>3, <2>4, <3>3, NextPacket
      <4>2. Size(p) \in Nat /\ Size(p) >= HeaderSize
        BY <1>1, <4>1, SizesArePositive
      <4>3. Incomplete(Rest, Size(p)) /\ UNCHANGED processLen
        BY <1>12, <3>1, <3>3, <4>1, <4>2 DEF EndParse
      <4> QED
        BY <4>3 DEF Incomplete
    <3> QED
      BY <3>1, <3>2, <3>3
  <2>8. processLen >= 0
    BY <1>1, <2>1 DEF LengthsFit
  <2>9. InOrder'
    BY <1>2, <2>1, <2>2, <2>7 DEF InOrder, Parsed
  <2>10. ParseAligned'
    <3>1. data' = ring'.read /\ data' + bytes' <= MaxSize /\ processLen' >= 0
      BY <2>1, <2>2, <2>7, <2>8 DEF ParseAligned
    <3>2. Rest' = Rest /\ Len(delivered') + 1 = p
      BY <2>1, <2>3, <2>4, <2>7 DEF Rest
    <3>3. p <= Packets => Rest' < ends'[p] - ends'[p - 1]
      BY <1>2, <2>7, <3>2 DEF Size
    <3> QED
      BY <2>1, <3>1, <3>2, <3>3 DEF ParseAligned, Size
  <2> QED
    BY <2>1, <2>9, <2>10 DEF Ordered, CaughtUp
<1>13. CASE MoveRead
  <2>1. /\ pc = "check" /\ UNCHANGED <<bytes, data, processLen, owner, delivered, late, wrapped>>
    BY <1>13 DEF MoveRead, Go, local
  <2> SUFFICES ASSUME owner, ~wrapped PROVE Ordered'
    BY <2>1 DEF Ordered, InOrder, CaughtUp
  <2>2. RingHolds /\ ParseAligned /\ InOrder
    BY DEF Held, Ordered
  <2>3. PICK b \in Nat, l \in Nat, u \in Nat :
          b = bytes /\ l = processLen /\ u = GetUseSize(r) /\ l <= b /\ b <= u
    <3>1. bytes \in Nat /\ processLen \in Int /\ GetUseSize(r) \in Nat
      BY <1>1, RingSizes, RingAssumption DEF TypeOK
    <3>2. processLen >= 0 /\ processLen <= bytes /\ bytes <= GetUseSize(r)
      BY <1>1, <1>3, <2>1, <2>2 DEF LengthsFit, ParseAligned, RingHolds
    <3> QED
      BY <3>1, <3>2
  <2>4. ~(processLen < 0 \/ processLen > dataSize)
    BY <1>3, <2>1, <2>2, <2>3 DEF RingHolds
  <2>5. /\ pc' = "register" /\ ring' = MoveReadPos(ring, processLen)
        /\ consumed' = consumed + processLen
    BY <1>13, <2>4 DEF MoveRead, Go
  <2>6. InOrder'
    <3>1. consumed' \in Int /\ consumed + processLen = ends[Len(delivered)]
      BY <1>1, <2>1, <2>2, <2>3, <2>5 DEF InOrder, Parsed, TypeOK
    <3> QED
      BY <1>2, <2>1, <2>2, <2>5, <3>1 DEF InOrder, Parsed
  <2>7. CaughtUp'
    <3> SUFFICES ASSUME ~late, NEW next, next = Len(delivered) + 1, next <= Packets
                 PROVE  GetUseSize(ring') < Size(next)
      BY <1>2, <2>1, <2>5 DEF CaughtUp, Size
    <3>1. Rest < Size(next)
      BY <2>1, <2>2 DEF ParseAligned
    <3>2. b = u
      BY <1>3, <2>1, <2>2, <2>3 DEF RingHolds
    <3>3. l \in 0..GetUseSize(r)
      BY <2>3
    <3>4. GetUseSize(MoveReadPos(r, l)) = GetUseSize(r) - l
      BY <3>3, MoveReadDrops
    <3> QED
      BY <1>3, <2>3, <2>5, <3>1, <3>2, <3>4 DEF Rest
  <2> QED
    BY <2>5, <2>6, <2>7 DEF Ordered, ParseAligned
<1>14. CASE Kick
  BY <1>14, OrderCleared DEF Kick, ClearAll
<1>15. CASE NullOwner
  BY <1>15, OrderCleared DEF NullOwner
<1>16. CASE Close
  BY <1>1, <1>16, OrderSame DEF Close, local, history
<1>17. CASE ClearOwner
  BY <1>17, OrderCleared DEF ClearOwner
<1>18. CASE ClearRing
  BY <1>1, <1>18, OrderCleared DEF ClearRing, LengthsFit
<1>19. CASE UNCHANGED vars
  BY <1>1, <1>19, OrderSame DEF vars, local, history
<1> QED
  BY <1>4, <1>5, <1>6, <1>7, <1>8, <1>9, <1>10, <1>11, <1>12, <1>13, <1>14,
     <1>15, <1>16,
     <1>17, <1>18, <1>19 DEF Next

-----------------------------------------------------------------------------
(* The types of the receiver: its positions stay inside the ring, WSARecv  *)
(* is given no memory past the end of the array and brings no more than    *)
(* there is.                                                               *)
THEOREM ReceiverTypes == Spec => []TypeOK
<1>1. Init => Base
  BY BaseInit
<1>2. Base /\ [Next]_vars => Base'
  BY BaseStep
<1>3. Base => TypeOK
  BY DEF Base
<1> QED
  BY <1>1, <1>2, <1>3, PTL DEF Spec

(* Whatever the receiver has done, its ring is a queue: Write appends,     *)
(* Peek copies the oldest bytes, Read removes them, around the end too.    *)
THEOREM RingKeepsQueue == Spec => []RingIsAQueue
<1>1. TypeOK => RingIsAQueue
  BY TypeMakesQueue, ReceiverAssumption
<1> QED
  BY <1>1, ReceiverTypes, PTL

(* OnReceive, Register and Process, with disconnects between any two of    *)
(* their steps: what the ring holds is what has come and was not taken.    *)
THEOREM NothingOverwritten == Spec => []UnreadIsStream
<1>1. Init => Base /\ Held
  BY BaseInit, HeldInit
<1>2. Base /\ Held /\ [Next]_vars => (Base /\ Held)'
  BY BaseStep, HeldStep
<1>3. Base /\ Held => UnreadIsStream
  <2> SUFFICES ASSUME Base, Held, owner
               PROVE  Contents(ring) = SubSeq(Stream, consumed + 1, arrived)
    BY DEF UnreadIsStream
  <2>1. PICK r \in Rings(Cells) : r = ring
    BY DEF Base, TypeOK, Rings, Cells
  <2>2. PICK c \in Nat, u \in Nat : c = consumed /\ u = GetUseSize(r)
    <3>1. consumed \in Nat /\ GetUseSize(r) \in Nat
      BY RingSizes, RingAssumption DEF Base, TypeOK
    <3> QED
      BY <3>1
  <2>3. /\ arrived = c + u /\ c + u <= ends[Packets]
        /\ \A k \in 1..u : Unread(r, k) = Stream[c + k]
    BY <2>1, <2>2 DEF Held, RingHolds
  <2>4. PICK s : s = SubSeq(Stream, c + 1, c + u)
    OBVIOUS
  <2>5. s \in Seq(Cells) /\ Len(s) = u /\ \A k \in 1..u : s[k] = Stream[c + k]
    BY <2>2, <2>3, <2>4, StreamPart DEF Base
  <2>6. PICK t \in Seq(Cells) : t = Contents(r)
    BY ContentsAre
  <2>7. t \in Seq(Cells) /\ Len(t) = u /\ \A k \in 1..u : t[k] = Unread(r, k)
    BY <2>2, <2>6, ContentsAre
  <2>8. s = t
    BY <2>3, <2>5, <2>7, SameSequence
  <2> QED
    BY <2>1, <2>2, <2>3, <2>4, <2>6, <2>8
<1> QED
  BY <1>1, <1>2, <1>3, PTL DEF Spec

LEMMA ReceiverOrder == Spec => []Ordered
<1>1. Init => Base /\ Held /\ Ordered
  BY BaseInit, HeldInit, OrderInit
<1>2. Base /\ Held /\ Ordered /\ [Next]_vars => (Base /\ Held /\ Ordered)'
  BY BaseStep, HeldStep, OrderStep
<1> QED
  BY <1>1, <1>2, PTL DEF Spec

(* OnReceive hands the packets over whole, once and in order as long as it *)
(* was never led across the end of the ring.                               *)
THEOREM PacketsInOrder == Spec => []InOrder
<1>1. Ordered => InOrder
  BY DEF Ordered
<1> QED
  BY <1>1, ReceiverOrder, PTL

(* Process leaves no whole packet behind in a ring that it found empty.    *)
THEOREM NoneLeftBehind == Spec => []CaughtUp
<1>1. Ordered => CaughtUp
  BY DEF Ordered
<1> QED
  BY <1>1, ReceiverOrder, PTL
===============================================================================
