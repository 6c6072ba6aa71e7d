------------------------------- MODULE MCSender -------------------------------
(* Instances of Sender for TLC, and samples of the buffers it sends.       *)
EXTENDS Sender, TLC

CONSTANTS t1, t2, t3

ThreeThreads == {t1, t2, t3}

Symmetric == Permutations(ThreeThreads)

-----------------------------------------------------------------------------
B == INSTANCE SendBuffers

(* Every size next to the end of a block.                                  *)
Edges == {256 * k + d : k \in 0..256, d \in -1..1} \cap (1..B!MAX_SIZE)

(* The pool of a size against its reference definition: the smallest block *)
(* that holds it; and a send buffer is as large as its block.              *)
ASSUME SmallestBlock ==
  \A size \in Edges :
    LET block == B!BlockSize(B!Pool(size)) IN
    /\ block \in {B!BlockSize(p) : p \in B!Pools} /\ block >= size
    /\ \A p \in B!Pools : B!BlockSize(p) >= size => B!BlockSize(p) >= block
    /\ B!getAllocSize(size) = block

(* The longest message that is framed, the first that is not, for which no *)
(* byte is reserved, the next, which is written behind its buffer, and the *)
(* first that is not serialized.                                           *)
ASSUME LongestFrame ==
  LET last == B!MakeSendBuffer(B!MaxPayload)
      next == B!MakeSendBuffer(B!MaxPayload + 2)
  IN  /\ last.size = 65535 /\ last.end = 65535 /\ B!GetUseSize(last.buffer) = 65535
      /\ next.size = 1 /\ next.end > next.buffer.max
      /\ {p \in B!MaxPayload..65536 : B!MakeCrashes(p)} = {B!MaxPayload + 1, 65536}
===============================================================================
