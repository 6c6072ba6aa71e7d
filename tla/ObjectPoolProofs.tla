--------------------------- MODULE ObjectPoolProofs ---------------------------
(***************************************************************************)
(* Proofs about ObjectPool for any number of threads, nodes and pops.      *)
(***************************************************************************)
EXTENDS ObjectPool, FiniteSetTheorems, TLAPS

(* What a thread inside Alloc still knows when the tag has not moved since *)
(* it read it: no node has been popped, so the node it saw on top is in    *)
(* the chain and its next pointer is the one the thread read.              *)
FreshReads ==
  \A t \in Threads :
    /\ pc[t] \in {"top", "next", "pop"} => expTag[t] <= tag
    /\ pc[t] \in {"next", "pop"} => expTop[t] # Null
    /\ pc[t] \in {"next", "pop"} /\ expTag[t] = tag => InChain(expTop[t])
    /\ pc[t] = "pop" /\ expTag[t] = tag => desTop[t] = next[expTop[t]]

(* A node to be pushed points to the top its thread saw.                   *)
LinkedNodes ==
  \A t \in Threads :
    /\ pc[t] \in {"link", "push"} => node[t] \in Nodes
    /\ pc[t] = "push" => next[node[t]] = desTop[t]

(* The counter trails the chain by the threads that have lowered it and    *)
(* not popped, or pushed and not raised it.                                *)
Busy == At({"tag", "top", "next", "pop", "undo", "count"})

Counting == Len(chain) = count + Cardinality(Busy)

IInv == /\ TypeOK
        /\ ChainIntact
        /\ NodeHasOneOwner
        /\ FreshReads
        /\ LinkedNodes
        /\ Counting

-----------------------------------------------------------------------------
(* Sequences: a node put in front, the first node taken away.              *)
LEMMA Consed ==
  ASSUME NEW S, NEW s \in Seq(S), NEW e \in S
  PROVE  /\ <<e>> \o s \in Seq(S)
         /\ Len(<<e>> \o s) = Len(s) + 1
         /\ (<<e>> \o s)[1] = e
         /\ \A i \in 1..Len(s) : (<<e>> \o s)[i + 1] = s[i]
OBVIOUS

LEMMA Tailed ==
  ASSUME NEW S, NEW s \in Seq(S), s # << >>
  PROVE  /\ Len(s) \in Nat \ {0}
         /\ Tail(s) \in Seq(S)
         /\ Len(Tail(s)) = Len(s) - 1
         /\ \A i \in 1..(Len(s) - 1) : Tail(s)[i] = s[i + 1]
OBVIOUS

LEMMA NonEmpty ==
  ASSUME NEW S, NEW s \in Seq(S)
  PROVE  s # << >> <=> Len(s) >= 1
OBVIOUS

-----------------------------------------------------------------------------
LEMMA InitIInv == Init => IInv
<1> SUFFICES ASSUME Init PROVE IInv
  OBVIOUS
<1> USE PoolAssumption DEF Init
<1>1. Busy = {} /\ Undoing = {}
  BY DEF Busy, Undoing, At
<1>2. Cardinality(Busy) = 0 /\ Cardinality(Undoing) = 0
  BY <1>1, FS_EmptySet
<1>3. TypeOK
  BY <1>2 DEF TypeOK, Labels
<1>4. ChainIntact /\ NodeHasOneOwner
  BY DEF ChainIntact, NodeHasOneOwner, InChain, Freeing, Held
<1>5. FreshReads /\ LinkedNodes
  BY DEF FreshReads, LinkedNodes
<1>6. Counting
  BY <1>2 DEF Counting
<1> QED
  BY <1>3, <1>4, <1>5, <1>6 DEF IInv

(* The sets of threads the counter is about are finite, and a thread that  *)
(* allocates without a reservation is not one that holds one.              *)
LEMMA ThreadSets ==
  /\ IsFiniteSet(Busy) /\ IsFiniteSet(Undoing)
  /\ Cardinality(Busy) \in Nat /\ Cardinality(Undoing) \in Nat
  /\ Undoing \subseteq Busy
<1>1. Busy \subseteq Threads /\ Undoing \subseteq Busy
  BY DEF Busy, Undoing, At
<1> QED
  BY <1>1, PoolAssumption, FS_Subset, FS_CardinalityType

(* A thread that has reserved a node finds one in the chain.               *)
LEMMA ReservationIsBacked ==
  ASSUME TypeOK, Counting, NEW t \in Threads, t \in Reserved
  PROVE  chain # << >>
<1>1. t \in Busy /\ t \notin Undoing
  BY DEF Reserved, Busy, Undoing, At
<1>2. Cardinality(Undoing \cup {t}) = Cardinality(Undoing) + 1
  BY <1>1, ThreadSets, FS_AddElement
<1>3. Cardinality(Undoing \cup {t}) <= Cardinality(Busy)
  BY <1>1, ThreadSets, FS_Subset
<1>4. Len(chain) >= 1
  BY <1>2, <1>3, ThreadSets DEF TypeOK, Counting
<1> QED
  BY <1>4

(* The pop that succeeds takes the first node of the chain and installs    *)
(* the second.                                                             *)
LEMMA PopTakesFirst ==
  ASSUME IInv, NEW t \in Threads, pc[t] = "pop", top = expTop[t], tag = expTag[t]
  PROVE  /\ chain # << >>
         /\ Len(chain) >= 1
         /\ expTop[t] = chain[1]
         /\ desTop[t] = next[chain[1]]
<1>1. expTop[t] # Null /\ desTop[t] = next[expTop[t]]
  BY DEF IInv, FreshReads
<1>2. chain # << >> /\ top = chain[1]
  BY <1>1 DEF IInv, ChainIntact
<1>3. chain \in Seq(Nodes)
  BY DEF IInv, TypeOK
<1> QED
  BY <1>1, <1>2, <1>3

(* What a successful pop and a successful push do to the chain.            *)
LEMMA Popped ==
  ASSUME IInv, NEW t \in Threads, Pop(t), top = expTop[t], tag = expTag[t]
  PROVE  /\ chain' = Tail(chain) /\ chain' \in Seq(Nodes)
         /\ Len(chain) \in Nat \ {0} /\ Len(chain') = Len(chain) - 1
         /\ \A j \in 1..Len(chain') : chain'[j] = chain[j + 1]
         /\ top' = next[chain[1]] /\ next' = next
         /\ holders' = [holders EXCEPT ![chain[1]] = @ + 1] /\ tag' = tag + 1
<1>1. chain \in Seq(Nodes)
  BY DEF IInv, TypeOK
<1>2. pc[t] = "pop" /\ chain' = Tail(chain) /\ top' = desTop[t] /\ next' = next
      /\ holders' = [holders EXCEPT ![expTop[t]] = @ + 1] /\ tag' = tag + 1
  BY DEF Pop
<1>3. chain # << >> /\ expTop[t] = chain[1] /\ desTop[t] = next[chain[1]]
  BY <1>2, PopTakesFirst
<1> QED
  BY <1>1, <1>2, <1>3, Tailed

LEMMA Pushed ==
  ASSUME IInv, NEW t \in Threads, Push(t), top = desTop[t]
  PROVE  /\ chain' = <<node[t]>> \o chain /\ chain' \in Seq(Nodes)
         /\ Len(chain) \in Nat /\ Len(chain') = Len(chain) + 1
         /\ chain'[1] = node[t]
         /\ \A j \in 1..Len(chain) : chain'[j + 1] = chain[j]
         /\ node[t] \in Nodes /\ next[node[t]] = top
         /\ top' = node[t] /\ next' = next
<1>1. chain \in Seq(Nodes)
  BY DEF IInv, TypeOK
<1>2. pc[t] = "push" /\ chain' = <<node[t]>> \o chain /\ top' = node[t] /\ next' = next
  BY DEF Push
<1>3. node[t] \in Nodes /\ next[node[t]] = top
  BY <1>2 DEF IInv, LinkedNodes
<1> QED
  BY <1>1, <1>2, <1>3, Consed

-----------------------------------------------------------------------------
(* The counter.                                                            *)
CountInvariant == Counting /\ count >= -Cardinality(Undoing)

LEMMA CountInv == IInv /\ [Next]_vars => CountInvariant'
<1> SUFFICES ASSUME IInv, [Next]_vars PROVE CountInvariant'
  OBVIOUS
<1> USE DEF IInv
<1> CountInvariant
  BY DEF CountInvariant, TypeOK
<1>1. ASSUME NEW t \in Threads, Reserve(t) PROVE CountInvariant'
  <2>1. Busy' = Busy \cup {t} /\ t \notin Busy
    BY <1>1 DEF Reserve, Go, Busy, At, TypeOK
  <2>2. Cardinality(Busy') = Cardinality(Busy) + 1
    BY <2>1, ThreadSets, FS_AddElement
  <2>3. CASE count > 0
    <3>1. Undoing' = Undoing
      BY <1>1, <2>3 DEF Reserve, Go, Undoing, At, TypeOK
    <3> QED
      BY <1>1, <2>2, <2>3, <3>1, ThreadSets DEF Reserve, CountInvariant,
         Counting, TypeOK
  <2>4. CASE ~(count > 0)
    <3>1. Undoing' = Undoing \cup {t} /\ t \notin Undoing
      BY <1>1, <2>4 DEF Reserve, Go, Undoing, At, TypeOK
    <3>2. Cardinality(Undoing') = Cardinality(Undoing) + 1
      BY <3>1, ThreadSets, FS_AddElement
    <3> QED
      BY <1>1, <2>2, <3>2, ThreadSets DEF Reserve, CountInvariant, Counting,
         TypeOK
  <2> QED
    BY <2>3, <2>4
<1>2. ASSUME NEW t \in Threads, AllocNode(t) PROVE CountInvariant'
  <2>1. /\ Busy' = Busy \ {t} /\ t \in Busy
        /\ Undoing' = Undoing \ {t} /\ t \in Undoing
    BY <1>2 DEF AllocNode, Go, Busy, Undoing, At, TypeOK
  <2>2. /\ Cardinality(Busy') = Cardinality(Busy) - 1
        /\ Cardinality(Undoing') = Cardinality(Undoing) - 1
    BY <2>1, ThreadSets, FS_RemoveElement
  <2> QED
    BY <1>2, <2>2, ThreadSets DEF AllocNode, CountInvariant, Counting, TypeOK
<1>3. ASSUME NEW t \in Threads, ReadTag(t) PROVE CountInvariant'
  <2>1. Busy' = Busy /\ Undoing' = Undoing
    BY <1>3 DEF ReadTag, Go, Busy, Undoing, At, TypeOK
  <2> QED
    BY <1>3, <2>1 DEF ReadTag, CountInvariant, Counting
<1>4. ASSUME NEW t \in Threads, ReadTop(t) PROVE CountInvariant'
  <2>1. Busy' = Busy /\ Undoing' = Undoing
    BY <1>4 DEF ReadTop, Go, Busy, Undoing, At, TypeOK
  <2> QED
    BY <1>4, <2>1 DEF ReadTop, CountInvariant, Counting
<1>5. ASSUME NEW t \in Threads, ReadNext(t) PROVE CountInvariant'
  <2>1. Busy' = Busy /\ Undoing' = Undoing
    BY <1>5 DEF ReadNext, Go, Busy, Undoing, At, TypeOK
  <2> QED
    BY <1>5, <2>1 DEF ReadNext, CountInvariant, Counting
<1>6. ASSUME NEW t \in Threads, Pop(t) PROVE CountInvariant'
  <2>0. Undoing' = Undoing
    BY <1>6 DEF Pop, Go, Undoing, At, TypeOK
  <2>1. CASE top = expTop[t] /\ tag = expTag[t]
    <3>1. chain' = Tail(chain) /\ count' = count /\ Len(chain) >= 1
      BY <1>6, <2>1, PopTakesFirst DEF Pop
    <3>2. Len(chain') = Len(chain) - 1
      BY <3>1 DEF TypeOK
    <3>3. Busy' = Busy \ {t} /\ t \in Busy
      BY <1>6, <2>1 DEF Pop, Go, Busy, At, TypeOK
    <3>4. Cardinality(Busy') = Cardinality(Busy) - 1
      BY <3>3, ThreadSets, FS_RemoveElement
    <3> QED
      BY <2>0, <3>1, <3>2, <3>4, ThreadSets DEF CountInvariant, Counting,
         TypeOK
  <2>2. CASE ~(top = expTop[t] /\ tag = expTag[t])
    <3>1. Busy' = Busy /\ chain' = chain /\ count' = count
      BY <1>6, <2>2 DEF Pop, Go, Busy, At, TypeOK
    <3> QED
      BY <2>0, <3>1 DEF CountInvariant, Counting
  <2> QED
    BY <2>1, <2>2
<1>7. ASSUME NEW t \in Threads, NEW n \in Nodes, BeginFree(t, n) PROVE CountInvariant'
  <2>1. Busy' = Busy /\ Undoing' = Undoing
    BY <1>7 DEF BeginFree, Go, Busy, Undoing, At, TypeOK
  <2> QED
    BY <1>7, <2>1 DEF BeginFree, CountInvariant, Counting
<1>8. ASSUME NEW t \in Threads, Link(t) PROVE CountInvariant'
  <2>1. Busy' = Busy /\ Undoing' = Undoing
    BY <1>8 DEF Link, Go, Busy, Undoing, At, TypeOK
  <2> QED
    BY <1>8, <2>1 DEF Link, CountInvariant, Counting
<1>9. ASSUME NEW t \in Threads, Push(t) PROVE CountInvariant'
  <2>0. Undoing' = Undoing
    BY <1>9 DEF Push, Go, Undoing, At, TypeOK
  <2>1. CASE top = desTop[t]
    <3>1. chain' = <<node[t]>> \o chain /\ count' = count /\ node[t] \in Nodes
      BY <1>9, <2>1 DEF Push, LinkedNodes
    <3>2. Len(chain') = Len(chain) + 1
      BY <3>1 DEF TypeOK
    <3>3. Busy' = Busy \cup {t} /\ t \notin Busy
      BY <1>9, <2>1 DEF Push, Go, Busy, At, TypeOK
    <3>4. Cardinality(Busy') = Cardinality(Busy) + 1
      BY <3>3, ThreadSets, FS_AddElement
    <3> QED
      BY <2>0, <3>1, <3>2, <3>4, ThreadSets DEF CountInvariant, Counting,
         TypeOK
  <2>2. CASE top # desTop[t]
    <3>1. Busy' = Busy /\ chain' = chain /\ count' = count
      BY <1>9, <2>2 DEF Push, Go, Busy, At, TypeOK
    <3> QED
      BY <2>0, <3>1 DEF CountInvariant, Counting
  <2> QED
    BY <2>1, <2>2
<1>10. ASSUME NEW t \in Threads, AddCount(t) PROVE CountInvariant'
  <2>1. /\ Busy' = Busy \ {t} /\ t \in Busy
        /\ Undoing' = Undoing
    BY <1>10 DEF AddCount, Go, Busy, Undoing, At, TypeOK
  <2>2. Cardinality(Busy') = Cardinality(Busy) - 1
    BY <2>1, ThreadSets, FS_RemoveElement
  <2> QED
    BY <1>10, <2>1, <2>2, ThreadSets DEF AddCount, CountInvariant, Counting,
       TypeOK
<1>11. CASE UNCHANGED vars
  <2>1. Busy' = Busy /\ Undoing' = Undoing
    BY <1>11 DEF vars, Busy, Undoing, At, TypeOK
  <2> QED
    BY <1>11, <2>1 DEF vars, CountInvariant, Counting
<1> QED
  BY <1>1, <1>2, <1>3, <1>4, <1>5, <1>6, <1>7, <1>8, <1>9, <1>10, <1>11
     DEF Next, AllocStep, FreeStep
-----------------------------------------------------------------------------
(* Types; the bound on count belongs to the counter.                       *)
Types ==
  /\ top \in Nodes \cup {Null}
  /\ tag \in Nat
  /\ next \in [Nodes -> Nodes \cup {Null}]
  /\ count \in Int
  /\ unused \subseteq Nodes
  /\ pc \in [Threads -> Labels]
  /\ expTag \in [Threads -> Nat]
  /\ expTop \in [Threads -> Nodes \cup {Null}]
  /\ desTop \in [Threads -> Nodes \cup {Null}]
  /\ node \in [Threads -> Nodes \cup {Null}]
  /\ holders \in [Nodes -> Nat]
  /\ chain \in Seq(Nodes)

LEMMA OneMore ==
  ASSUME holders \in [Nodes -> Nat], NEW n \in Nodes
  PROVE  [holders EXCEPT ![n] = @ + 1] \in [Nodes -> Nat]
OBVIOUS

LEMMA TypeInv == IInv /\ [Next]_vars => Types'
<1> SUFFICES ASSUME IInv, [Next]_vars PROVE Types'
  OBVIOUS
<1> USE DEF IInv
<1> Types
  BY DEF Types, TypeOK
<1>1. ASSUME NEW t \in Threads, Reserve(t) PROVE Types'
  <2>1. /\ pc' \in {[pc EXCEPT ![t] = "tag"], [pc EXCEPT ![t] = "undo"]}
        /\ count' = count - 1
        /\ UNCHANGED <<top, tag, next, unused, expTag, expTop, desTop, node, holders, chain>>
    BY <1>1 DEF Reserve, Go
  <2> HIDE DEF IInv
  <2>2. count' \in Int /\ pc' \in [Threads -> Labels]
    BY <2>1 DEF Types, Labels
  <2> QED
    BY <2>1, <2>2 DEF Types
<1>2. ASSUME NEW t \in Threads, AllocNode(t) PROVE Types'
  <2>1. PICK n \in unused : /\ holders' = [holders EXCEPT ![n] = @ + 1]
                            /\ unused' = unused \ {n}
    BY <1>2 DEF AllocNode
  <2>2. holders' \in [Nodes -> Nat]
    BY <2>1, OneMore DEF Types
  <2>3. /\ pc' = [pc EXCEPT ![t] = "idle"]
        /\ count' = count + 1
        /\ UNCHANGED <<top, tag, next, expTag, expTop, desTop, node, chain>>
    BY <1>2 DEF AllocNode, Go
  <2> HIDE DEF IInv
  <2>4. count' \in Int /\ pc' \in [Threads -> Labels]
    BY <2>3 DEF Types, Labels
  <2> QED
    BY <2>1, <2>2, <2>3, <2>4 DEF Types
<1>3. ASSUME NEW t \in Threads, ReadTag(t) PROVE Types'
  BY <1>3 DEF ReadTag, Go, Types, Labels
<1>4. ASSUME NEW t \in Threads, ReadTop(t) PROVE Types'
  BY <1>4 DEF ReadTop, Go, Types, Labels
<1>5. ASSUME NEW t \in Threads, ReadNext(t) PROVE Types'
  BY <1>5 DEF ReadNext, Go, Types, Labels
<1>6. ASSUME NEW t \in Threads, Pop(t) PROVE Types'
  <2>1. chain' \in Seq(Nodes)
    <3>1. CASE top = expTop[t] /\ tag = expTag[t]
      BY <1>6, <3>1, Popped
    <3>2. CASE ~(top = expTop[t] /\ tag = expTag[t])
      BY <1>6, <3>2 DEF Pop, Types
    <3> QED
      BY <3>1, <3>2
  <2>2. holders' \in [Nodes -> Nat]
    <3>1. holders' = holders \/ holders' = [holders EXCEPT ![expTop[t]] = @ + 1]
      BY <1>6 DEF Pop
    <3>2. holders \in [Nodes -> Nat]
      BY DEF Types
    <3>3. expTop[t] \in Nodes
      BY <1>6 DEF Pop, FreshReads, Types
    <3> HIDE DEF IInv
    <3> QED
      BY <3>1, <3>2, <3>3, OneMore
  <2>3. /\ pc' \in {[pc EXCEPT ![t] = "idle"], [pc EXCEPT ![t] = "tag"]}
        /\ top' \in {top, desTop[t]}
        /\ tag' \in {tag, tag + 1}
        /\ UNCHANGED <<next, count, unused, expTag, expTop, desTop, node>>
    BY <1>6 DEF Pop, Go
  <2> HIDE DEF IInv
  <2>4. tag' \in Nat
    BY <2>3 DEF Types
  <2>5. top' \in Nodes \cup {Null} /\ pc' \in [Threads -> Labels]
    BY <2>3 DEF Types, Labels
  <2> QED
    BY <2>1, <2>2, <2>3, <2>4, <2>5 DEF Types
<1>7. ASSUME NEW t \in Threads, NEW n \in Nodes, BeginFree(t, n) PROVE Types'
  BY <1>7 DEF BeginFree, Go, Types, Labels, Held
<1>8. ASSUME NEW t \in Threads, Link(t) PROVE Types'
  BY <1>8 DEF Link, Go, Types, Labels, LinkedNodes
<1>9. ASSUME NEW t \in Threads, Push(t) PROVE Types'
  <2>1. node[t] \in Nodes
    BY <1>9 DEF Push, LinkedNodes
  <2>2. chain \in Seq(Nodes) /\ (chain' = chain \/ chain' = <<node[t]>> \o chain)
    BY <1>9 DEF Push, Types
  <2>3. chain' \in Seq(Nodes)
    BY <2>1, <2>2, Consed
  <2> QED
    BY <1>9, <2>1, <2>3 DEF Push, Go, Types, Labels
<1>10. ASSUME NEW t \in Threads, AddCount(t) PROVE Types'
  BY <1>10 DEF AddCount, Go, Types, Labels
<1>11. CASE UNCHANGED vars
  BY <1>11 DEF Types, vars
<1> QED
  BY <1>1, <1>2, <1>3, <1>4, <1>5, <1>6, <1>7, <1>8, <1>9, <1>10, <1>11
     DEF Next, AllocStep, FreeStep
-----------------------------------------------------------------------------
(* The chain.                                                              *)
LEMMA ChainInv == IInv /\ [Next]_vars => ChainIntact'
<1> SUFFICES ASSUME IInv, [Next]_vars PROVE ChainIntact'
  OBVIOUS
<1> USE DEF IInv
<1>1. ASSUME NEW t \in Threads, Reserve(t) PROVE ChainIntact'
  BY <1>1 DEF Reserve, ChainIntact
<1>2. ASSUME NEW t \in Threads, AllocNode(t) PROVE ChainIntact'
  BY <1>2 DEF AllocNode, ChainIntact
<1>3. ASSUME NEW t \in Threads, ReadTag(t) PROVE ChainIntact'
  BY <1>3 DEF ReadTag, ChainIntact
<1>4. ASSUME NEW t \in Threads, ReadTop(t) PROVE ChainIntact'
  BY <1>4 DEF ReadTop, ChainIntact
<1>5. ASSUME NEW t \in Threads, ReadNext(t) PROVE ChainIntact'
  BY <1>5 DEF ReadNext, ChainIntact
<1>6. ASSUME NEW t \in Threads, Pop(t) PROVE ChainIntact'
  <2>1. CASE top = expTop[t] /\ tag = expTag[t]
    <3>1. /\ chain' \in Seq(Nodes) /\ top' = next[chain[1]] /\ next' = next
          /\ Len(chain) \in Nat \ {0} /\ Len(chain') = Len(chain) - 1
          /\ \A j \in 1..Len(chain') : chain'[j] = chain[j + 1]
      BY <1>6, <2>1, Popped
    <3>2. \A j \in 1..Len(chain) :
            next[chain[j]] = IF j = Len(chain) THEN Null ELSE chain[j + 1]
      BY DEF ChainIntact
    <3> HIDE DEF IInv
    <3>3. top' = IF chain' = << >> THEN Null ELSE chain'[1]
      <4>1. next[chain[1]] = IF 1 = Len(chain) THEN Null ELSE chain[1 + 1]
        BY <3>1, <3>2
      <4>2. chain' # << >> <=> Len(chain) - 1 >= 1
        BY <3>1, NonEmpty
      <4>3. Len(chain) # 1 => chain'[1] = chain[1 + 1]
        BY <3>1
      <4> QED
        BY <3>1, <4>1, <4>2, <4>3
    <3>4. ASSUME NEW j \in 1..Len(chain')
          PROVE  next'[chain'[j]] = IF j = Len(chain') THEN Null ELSE chain'[j + 1]
      <4>1. j + 1 \in 1..Len(chain) /\ chain'[j] = chain[j + 1]
        BY <3>1
      <4>2. next[chain[j + 1]] = IF j + 1 = Len(chain) THEN Null ELSE chain[(j + 1) + 1]
        BY <3>2, <4>1
      <4>3. j # Len(chain') => chain'[j + 1] = chain[(j + 1) + 1]
        BY <3>1
      <4> QED
        BY <3>1, <4>1, <4>2, <4>3
    <3> QED
      BY <3>3, <3>4 DEF ChainIntact
  <2>2. CASE ~(top = expTop[t] /\ tag = expTag[t])
    BY <1>6, <2>2 DEF Pop, ChainIntact
  <2> QED
    BY <2>1, <2>2
<1>7. ASSUME NEW t \in Threads, NEW n \in Nodes, BeginFree(t, n) PROVE ChainIntact'
  BY <1>7 DEF BeginFree, ChainIntact
<1>8. ASSUME NEW t \in Threads, Link(t) PROVE ChainIntact'
  <2>1. /\ \A m \in 1..Len(chain) : chain[m] # node[t] /\ chain[m] \in Nodes
        /\ node[t] \in Nodes
    <3>1. node[t] \in Nodes /\ Freeing(t, node[t])
      BY <1>8 DEF Link, Go, LinkedNodes, Freeing
    <3> QED
      BY <3>1 DEF NodeHasOneOwner, InChain, TypeOK
  <2>2. \A m \in 1..Len(chain) : next'[chain[m]] = next[chain[m]]
    BY <1>8, <2>1 DEF Link, TypeOK
  <2> QED
    BY <1>8, <2>2 DEF Link, ChainIntact
<1>9. ASSUME NEW t \in Threads, Push(t) PROVE ChainIntact'
  <2>1. CASE top = desTop[t]
    <3>1. /\ chain' \in Seq(Nodes) /\ top' = node[t] /\ next' = next
          /\ node[t] \in Nodes /\ next[node[t]] = top
          /\ Len(chain) \in Nat /\ Len(chain') = Len(chain) + 1
          /\ chain'[1] = node[t]
          /\ \A j \in 1..Len(chain) : chain'[j + 1] = chain[j]
      BY <1>9, <2>1, Pushed
    <3>2. /\ top = IF chain = << >> THEN Null ELSE chain[1]
          /\ \A j \in 1..Len(chain) :
               next[chain[j]] = IF j = Len(chain) THEN Null ELSE chain[j + 1]
      BY DEF ChainIntact
    <3>0. chain \in Seq(Nodes)
      BY DEF TypeOK
    <3> HIDE DEF IInv
    <3>3. ASSUME NEW j \in 1..Len(chain')
          PROVE  next'[chain'[j]] = IF j = Len(chain') THEN Null ELSE chain'[j + 1]
      <4>1. CASE j = 1
        <5>1. chain # << >> <=> Len(chain) >= 1
          BY <3>0, NonEmpty
        <5>2. chain # << >> => chain'[1 + 1] = chain[1]
          BY <3>1, <5>1
        <5> QED
          BY <3>1, <3>2, <4>1, <5>1, <5>2
      <4>2. CASE j # 1
        <5>1. PICK m \in 1..Len(chain) : j = m + 1
          <6> j - 1 \in 1..Len(chain) /\ j = (j - 1) + 1
            BY <3>1, <4>2
          <6> QED
            OBVIOUS
        <5>2. next[chain[m]] = IF m = Len(chain) THEN Null ELSE chain[m + 1]
          BY <3>2
        <5>3. m # Len(chain) => chain'[(m + 1) + 1] = chain[m + 1]
          BY <3>1
        <5> QED
          BY <3>1, <5>1, <5>2, <5>3
      <4> QED
        BY <4>1, <4>2
    <3>4. chain' # << >>
      BY <3>1, NonEmpty
    <3> QED
      BY <3>1, <3>3, <3>4 DEF ChainIntact
  <2>2. CASE top # desTop[t]
    BY <1>9, <2>2 DEF Push, ChainIntact
  <2> QED
    BY <2>1, <2>2
<1>10. ASSUME NEW t \in Threads, AddCount(t) PROVE ChainIntact'
  BY <1>10 DEF AddCount, ChainIntact
<1>11. CASE UNCHANGED vars
  BY <1>11 DEF ChainIntact, vars
<1> QED
  BY <1>1, <1>2, <1>3, <1>4, <1>5, <1>6, <1>7, <1>8, <1>9, <1>10, <1>11
     DEF Next, AllocStep, FreeStep

-----------------------------------------------------------------------------
(* Owners.                                                                 *)
Distinct == \A i, j \in 1..Len(chain) : chain[i] = chain[j] => i = j

LEMMA PoppedMembers ==
  ASSUME IInv, NEW t \in Threads, Pop(t), top = expTop[t], tag = expTag[t]
  PROVE  /\ Distinct'
         /\ chain[1] \in Nodes /\ InChain(chain[1])
         /\ \A n : InChain(n)' => InChain(n) /\ n # chain[1]
<1>1. /\ Len(chain) \in Nat \ {0} /\ Len(chain') = Len(chain) - 1
      /\ \A j \in 1..Len(chain') : chain'[j] = chain[j + 1]
  BY Popped
<1>2. Distinct /\ chain \in Seq(Nodes)
  BY DEF IInv, NodeHasOneOwner, Distinct, TypeOK
<1>3. Distinct'
  BY <1>1, <1>2 DEF Distinct
<1>4. 1 \in 1..Len(chain) /\ chain[1] \in Nodes
  BY <1>1, <1>2
<1>5. ASSUME NEW n, InChain(n)' PROVE InChain(n) /\ n # chain[1]
  <2>1. PICK j \in 1..Len(chain') : chain'[j] = n
    BY <1>5 DEF InChain
  <2>2. j + 1 \in 1..Len(chain) /\ j + 1 # 1 /\ chain[j + 1] = n
    BY <1>1, <2>1
  <2> QED
    BY <1>2, <1>4, <2>2 DEF InChain, Distinct
<1> QED
  BY <1>3, <1>4, <1>5 DEF InChain

LEMMA PushedMembers ==
  ASSUME IInv, NEW t \in Threads, Push(t), top = desTop[t]
  PROVE  /\ Distinct'
         /\ node[t] \in Nodes
         /\ \A n : InChain(n)' <=> (n = node[t] \/ InChain(n))
<1>1. /\ Len(chain) \in Nat /\ Len(chain') = Len(chain) + 1
      /\ chain'[1] = node[t]
      /\ \A j \in 1..Len(chain) : chain'[j + 1] = chain[j]
      /\ node[t] \in Nodes
  BY Pushed
<1>2. Distinct
  BY DEF IInv, NodeHasOneOwner, Distinct
<1>3. ~InChain(node[t])
  BY <1>1 DEF IInv, NodeHasOneOwner, Freeing, Push
<1>4. ASSUME NEW j \in 1..Len(chain'), j # 1
      PROVE  \E m \in 1..Len(chain) : j = m + 1 /\ chain'[j] = chain[m]
  <2>1. j - 1 \in 1..Len(chain) /\ j = (j - 1) + 1
    BY <1>1, <1>4
  <2> QED
    BY <1>1, <2>1
<1>5. ASSUME NEW n PROVE InChain(n)' <=> (n = node[t] \/ InChain(n))
  <2>1. InChain(n)' => (n = node[t] \/ InChain(n))
    BY <1>1, <1>4 DEF InChain
  <2>2. n = node[t] => InChain(n)'
    BY <1>1 DEF InChain
  <2>3. InChain(n) => InChain(n)'
    <3> SUFFICES ASSUME NEW m \in 1..Len(chain), chain[m] = n PROVE InChain(n)'
      BY DEF InChain
    <3>1. m + 1 \in 1..Len(chain') /\ chain'[m + 1] = n
      BY <1>1
    <3> QED
      BY <3>1 DEF InChain
  <2> QED
    BY <2>1, <2>2, <2>3
<1>6. Distinct'
  <2> SUFFICES ASSUME NEW i \in 1..Len(chain'), NEW j \in 1..Len(chain'),
                      chain'[i] = chain'[j]
               PROVE  i = j
    BY DEF Distinct
  <2>1. i = 1 => j = 1
    BY <1>1, <1>3, <1>4 DEF InChain
  <2>2. j = 1 => i = 1
    BY <1>1, <1>3, <1>4 DEF InChain
  <2>3. CASE i # 1 /\ j # 1
    <3>1. PICK k \in 1..Len(chain) : i = k + 1 /\ chain'[i] = chain[k]
      BY <1>4, <2>3
    <3>2. PICK m \in 1..Len(chain) : j = m + 1 /\ chain'[j] = chain[m]
      BY <1>4, <2>3
    <3> QED
      BY <1>2, <3>1, <3>2 DEF Distinct
  <2> QED
    BY <2>1, <2>2, <2>3
<1> QED
  BY <1>1, <1>5, <1>6

(* A node is handed out, a node is given back.                             *)
LEMMA Handed ==
  ASSUME TypeOK, NEW n \in Nodes \ Held, holders' = [holders EXCEPT ![n] = @ + 1],
         \A m \in Nodes : holders[m] <= 1
  PROVE  /\ Held' = Held \cup {n}
         /\ \A m \in Nodes : holders'[m] <= 1
         /\ Allocator!Take(n)
<1>1. holders[n] = 0
  BY DEF TypeOK, Held
<1> QED
  BY <1>1 DEF TypeOK, Held, Allocator!Take

LEMMA GivenBack ==
  ASSUME TypeOK, NEW n \in Held, holders' = [holders EXCEPT ![n] = @ - 1],
         \A m \in Nodes : holders[m] <= 1
  PROVE  /\ Held' = Held \ {n}
         /\ \A m \in Nodes : holders'[m] <= 1
         /\ Allocator!Give(n)
<1>1. holders[n] = 1 /\ n \in Nodes
  BY DEF TypeOK, Held
<1> QED
  BY <1>1 DEF TypeOK, Held, Allocator!Give

(* A step that moves no node keeps the owners.                             *)
LEMMA SameOwners ==
  ASSUME NodeHasOneOwner, UNCHANGED <<chain, unused, holders>>,
         \A u \in Threads : \A n \in Nodes : Freeing(u, n)' => Freeing(u, n)
  PROVE  NodeHasOneOwner'
<1>1. \A n : InChain(n)' <=> InChain(n)
  BY DEF InChain
<1>2. Held' = Held
  BY DEF Held
<1> QED
  BY <1>1, <1>2 DEF NodeHasOneOwner

LEMMA OwnerInv == IInv /\ [Next]_vars => NodeHasOneOwner'
<1> SUFFICES ASSUME IInv, [Next]_vars PROVE NodeHasOneOwner'
  OBVIOUS
<1> NodeHasOneOwner /\ TypeOK
  BY DEF IInv
<1>1. ASSUME NEW t \in Threads, Reserve(t) PROVE NodeHasOneOwner'
  <2>1. \A u \in Threads : \A m \in Nodes : Freeing(u, m)' => Freeing(u, m)
    BY <1>1 DEF Reserve, Go, Freeing, TypeOK
  <2> QED
    BY <1>1, <2>1, SameOwners DEF Reserve
<1>2. ASSUME NEW t \in Threads, AllocNode(t) PROVE NodeHasOneOwner'
  <2>1. \A u \in Threads : \A m \in Nodes : Freeing(u, m)' => Freeing(u, m)
    BY <1>2 DEF AllocNode, Go, Freeing, TypeOK
  <2>2. \A m : InChain(m)' <=> InChain(m)
    BY <1>2 DEF AllocNode, InChain
  <2>3. PICK n \in unused : /\ unused' = unused \ {n}
                            /\ holders' = [holders EXCEPT ![n] = @ + 1]
    BY <1>2 DEF AllocNode
  <2>4. chain' = chain
    BY <1>2 DEF AllocNode
  <2>5. n \in Nodes \ Held
    BY DEF NodeHasOneOwner, TypeOK
  <2>6. Held' = Held \cup {n} /\ \A m \in Nodes : holders'[m] <= 1
    BY <2>3, <2>5, Handed DEF NodeHasOneOwner
  <2> QED
    BY <2>1, <2>2, <2>3, <2>4, <2>5, <2>6 DEF NodeHasOneOwner
<1>3. ASSUME NEW t \in Threads, ReadTag(t) PROVE NodeHasOneOwner'
  <2>1. \A u \in Threads : \A m \in Nodes : Freeing(u, m)' => Freeing(u, m)
    BY <1>3 DEF ReadTag, Go, Freeing, TypeOK
  <2> QED
    BY <1>3, <2>1, SameOwners DEF ReadTag
<1>4. ASSUME NEW t \in Threads, ReadTop(t) PROVE NodeHasOneOwner'
  <2>1. \A u \in Threads : \A m \in Nodes : Freeing(u, m)' => Freeing(u, m)
    BY <1>4 DEF ReadTop, Go, Freeing, TypeOK
  <2> QED
    BY <1>4, <2>1, SameOwners DEF ReadTop
<1>5. ASSUME NEW t \in Threads, ReadNext(t) PROVE NodeHasOneOwner'
  <2>1. \A u \in Threads : \A m \in Nodes : Freeing(u, m)' => Freeing(u, m)
    BY <1>5 DEF ReadNext, Go, Freeing, TypeOK
  <2> QED
    BY <1>5, <2>1, SameOwners DEF ReadNext
<1>6. ASSUME NEW t \in Threads, Pop(t) PROVE NodeHasOneOwner'
  <2>1. \A u \in Threads : \A m \in Nodes : Freeing(u, m)' => Freeing(u, m)
    BY <1>6 DEF Pop, Go, Freeing, TypeOK
  <2>2. CASE top = expTop[t] /\ tag = expTag[t]
    <3>1. /\ Distinct' /\ chain[1] \in Nodes /\ InChain(chain[1])
          /\ \A n : InChain(n)' => InChain(n) /\ n # chain[1]
      BY <1>6, <2>2, PoppedMembers
    <3>2. /\ unused' = unused /\ Held' = Held \cup {chain[1]}
          /\ \A m \in Nodes : holders'[m] <= 1
      <4>1. unused' = unused /\ holders' = [holders EXCEPT ![chain[1]] = @ + 1]
        BY <1>6, <2>2, Popped DEF Pop
      <4>2. chain[1] \in Nodes \ Held
        BY <3>1 DEF NodeHasOneOwner
      <4> QED
        BY <4>1, <4>2, Handed DEF NodeHasOneOwner
    <3>3. \A u \in Threads : ~Freeing(u, chain[1])
      BY <3>1 DEF NodeHasOneOwner
    <3>4. unused' \cap Held' = {}
      BY <3>1, <3>2 DEF NodeHasOneOwner
    <3>5. \A n \in unused' \cup Held' : ~InChain(n)'
      BY <3>1, <3>2 DEF NodeHasOneOwner
    <3>6. ASSUME NEW u \in Threads, NEW m \in Nodes, Freeing(u, m)'
          PROVE  /\ m \notin unused' \cup Held' /\ ~InChain(m)'
                 /\ \A v \in Threads : Freeing(v, m)' => v = u
      BY <2>1, <3>1, <3>2, <3>3, <3>6 DEF NodeHasOneOwner
    <3> QED
      BY <3>1, <3>2, <3>4, <3>5, <3>6 DEF NodeHasOneOwner, Distinct
  <2>3. CASE ~(top = expTop[t] /\ tag = expTag[t])
    <3>1. UNCHANGED <<chain, unused, holders>>
      BY <1>6, <2>3 DEF Pop
    <3> QED
      BY <2>1, <3>1, SameOwners
  <2> QED
    BY <2>2, <2>3
<1>7. ASSUME NEW t \in Threads, NEW n \in Nodes, BeginFree(t, n) PROVE NodeHasOneOwner'
  <2>1. /\ n \in Held /\ n \notin unused /\ ~InChain(n)
        /\ Held' = Held \ {n} /\ unused' = unused /\ chain' = chain
        /\ \A m \in Nodes : holders'[m] <= 1
    <3>1. /\ n \in Held /\ holders' = [holders EXCEPT ![n] = @ - 1]
          /\ unused' = unused /\ chain' = chain
      BY <1>7 DEF BeginFree
    <3> QED
      BY <3>1, GivenBack DEF NodeHasOneOwner
  <2>2. \A m : InChain(m)' <=> InChain(m)
    BY <2>1 DEF InChain
  <2>3. \A u \in Threads : \A m \in Nodes :
          Freeing(u, m)' => (Freeing(u, m) \/ (u = t /\ m = n))
    BY <1>7 DEF BeginFree, Go, Freeing, TypeOK
  <2>4. \A m \in Nodes : ~Freeing(t, m)
    BY <1>7 DEF BeginFree, Go, Freeing
  <2>5. \A u \in Threads : ~Freeing(u, n)
    BY <2>1 DEF NodeHasOneOwner
  <2>6. ASSUME NEW u \in Threads, NEW m \in Nodes, Freeing(u, m)'
        PROVE  /\ m \notin unused' \cup Held' /\ ~InChain(m)'
               /\ \A v \in Threads : Freeing(v, m)' => v = u
    BY <2>1, <2>2, <2>3, <2>4, <2>5, <2>6 DEF NodeHasOneOwner
  <2>7. /\ \A k, j \in 1..Len(chain') : chain'[k] = chain'[j] => k = j
        /\ \A m \in Nodes : holders'[m] <= 1
        /\ unused' \cap Held' = {}
        /\ \A m \in unused' \cup Held' : ~InChain(m)'
    BY <2>1, <2>2 DEF NodeHasOneOwner
  <2> QED
    BY <2>6, <2>7 DEF NodeHasOneOwner
<1>8. ASSUME NEW t \in Threads, Link(t) PROVE NodeHasOneOwner'
  <2>1. \A u \in Threads : \A m \in Nodes : Freeing(u, m)' => Freeing(u, m)
    BY <1>8 DEF Link, Go, Freeing, TypeOK
  <2> QED
    BY <1>8, <2>1, SameOwners DEF Link
<1>9. ASSUME NEW t \in Threads, Push(t) PROVE NodeHasOneOwner'
  <2>1. \A u \in Threads : \A m \in Nodes : Freeing(u, m)' => Freeing(u, m)
    BY <1>9 DEF Push, Go, Freeing, TypeOK
  <2>2. CASE top = desTop[t]
    <3>1. /\ Distinct' /\ node[t] \in Nodes
          /\ \A n : InChain(n)' <=> (n = node[t] \/ InChain(n))
      BY <1>9, <2>2, PushedMembers
    <3>2. unused' = unused /\ Held' = Held /\ holders' = holders
      BY <1>9 DEF Push, Held
    <3>3. Freeing(t, node[t])
      BY <1>9 DEF Push, Freeing
    <3>4. \A m \in Nodes : ~Freeing(t, m)'
      BY <1>9, <2>2 DEF Push, Go, Freeing, TypeOK
    <3>5. \A u \in Threads : \A m \in Nodes : Freeing(u, m)' => m # node[t]
      BY <2>1, <3>1, <3>3, <3>4 DEF NodeHasOneOwner
    <3>6. ASSUME NEW u \in Threads, NEW m \in Nodes, Freeing(u, m)'
          PROVE  /\ m \notin unused' \cup Held' /\ ~InChain(m)'
                 /\ \A v \in Threads : Freeing(v, m)' => v = u
      <4>1. Freeing(u, m) /\ m # node[t]
        BY <2>1, <3>5, <3>6
      <4> QED
        BY <2>1, <3>1, <3>2, <4>1 DEF NodeHasOneOwner
    <3>7. \A n \in unused' \cup Held' : ~InChain(n)'
      BY <3>1, <3>2, <3>3 DEF NodeHasOneOwner
    <3>8. unused' \cap Held' = {}
      BY <3>2 DEF NodeHasOneOwner
    <3> QED
      BY <3>1, <3>2, <3>6, <3>7, <3>8 DEF NodeHasOneOwner, Distinct
  <2>3. CASE top # desTop[t]
    <3>1. UNCHANGED <<chain, unused, holders>>
      BY <1>9, <2>3 DEF Push
    <3> QED
      BY <2>1, <3>1, SameOwners
  <2> QED
    BY <2>2, <2>3
<1>10. ASSUME NEW t \in Threads, AddCount(t) PROVE NodeHasOneOwner'
  <2>1. \A u \in Threads : \A m \in Nodes : Freeing(u, m)' => Freeing(u, m)
    BY <1>10 DEF AddCount, Go, Freeing, TypeOK
  <2> QED
    BY <1>10, <2>1, SameOwners DEF AddCount
<1>11. CASE UNCHANGED vars
  BY <1>11, SameOwners DEF Freeing, vars
<1> QED
  BY <1>1, <1>2, <1>3, <1>4, <1>5, <1>6, <1>7, <1>8, <1>9, <1>10, <1>11
     DEF Next, AllocStep, FreeStep

-----------------------------------------------------------------------------
(* Stale pointers.                                                         *)
ReadsOf(t) ==
  /\ pc[t] \in {"top", "next", "pop"} => expTag[t] <= tag
  /\ pc[t] \in {"next", "pop"} => expTop[t] # Null
  /\ pc[t] \in {"next", "pop"} /\ expTag[t] = tag => InChain(expTop[t])
  /\ pc[t] = "pop" /\ expTag[t] = tag => desTop[t] = next[expTop[t]]

LEMMA ReadsInv == IInv /\ [Next]_vars => FreshReads'
<1> SUFFICES ASSUME IInv, [Next]_vars PROVE FreshReads'
  OBVIOUS
<1>0. TypeOK /\ \A u \in Threads : ReadsOf(u)
  BY DEF IInv, FreshReads, ReadsOf
<1> SUFFICES ASSUME NEW u \in Threads PROVE ReadsOf(u)'
  BY DEF FreshReads, ReadsOf
<1>1. ASSUME NEW t \in Threads, Reserve(t) PROVE ReadsOf(u)'
  <2>1. \A m : InChain(m)' <=> InChain(m)
    BY <1>1 DEF Reserve, InChain
  <2> QED
    BY <1>0, <1>1, <2>1 DEF Reserve, Go, ReadsOf, TypeOK
<1>2. ASSUME NEW t \in Threads, AllocNode(t) PROVE ReadsOf(u)'
  <2>1. \A m : InChain(m)' <=> InChain(m)
    BY <1>2 DEF AllocNode, InChain
  <2> QED
    BY <1>0, <1>2, <2>1 DEF AllocNode, Go, ReadsOf, TypeOK
<1>3. ASSUME NEW t \in Threads, ReadTag(t) PROVE ReadsOf(u)'
  <2>1. \A m : InChain(m)' <=> InChain(m)
    BY <1>3 DEF ReadTag, InChain
  <2> QED
    BY <1>0, <1>3, <2>1 DEF ReadTag, Go, ReadsOf, TypeOK
<1>4. ASSUME NEW t \in Threads, ReadTop(t) PROVE ReadsOf(u)'
  <2>1. \A m : InChain(m)' <=> InChain(m)
    BY <1>4 DEF ReadTop, InChain
  <2>2. top # Null /\ InChain(top)
    <3>1. chain # << >> /\ top = chain[1] /\ chain \in Seq(Nodes)
      BY <1>4, ReservationIsBacked DEF IInv, TypeOK, ChainIntact, Reserved,
         At, ReadTop, Go
    <3> QED
      BY <3>1, NonEmpty, PoolAssumption DEF InChain
  <2> QED
    BY <1>0, <1>4, <2>1, <2>2 DEF ReadTop, Go, ReadsOf, TypeOK
<1>5. ASSUME NEW t \in Threads, ReadNext(t) PROVE ReadsOf(u)'
  <2>1. \A m : InChain(m)' <=> InChain(m)
    BY <1>5 DEF ReadNext, InChain
  <2> QED
    BY <1>0, <1>5, <2>1 DEF ReadNext, Go, ReadsOf, TypeOK
<1>6. ASSUME NEW t \in Threads, Pop(t) PROVE ReadsOf(u)'
  <2>1. CASE top = expTop[t] /\ tag = expTag[t]
    <3>1. /\ tag' = tag + 1 /\ pc' = [pc EXCEPT ![t] = "idle"]
          /\ UNCHANGED <<expTag, expTop>>
      BY <1>6, <2>1 DEF Pop, Go
    <3> QED
      BY <1>0, <3>1 DEF ReadsOf, TypeOK
  <2>2. CASE ~(top = expTop[t] /\ tag = expTag[t])
    BY <1>0, <1>6, <2>2 DEF Pop, Go, ReadsOf, TypeOK, InChain
  <2> QED
    BY <2>1, <2>2
<1>7. ASSUME NEW t \in Threads, NEW n \in Nodes, BeginFree(t, n) PROVE ReadsOf(u)'
  <2>1. \A m : InChain(m)' <=> InChain(m)
    BY <1>7 DEF BeginFree, InChain
  <2> QED
    BY <1>0, <1>7, <2>1 DEF BeginFree, Go, ReadsOf, TypeOK
<1>8. ASSUME NEW t \in Threads, Link(t) PROVE ReadsOf(u)'
  <2>1. \A m : InChain(m)' <=> InChain(m)
    BY <1>8 DEF Link, InChain
  <2>2. /\ node[t] \in Nodes /\ ~InChain(node[t])
        /\ next' = [next EXCEPT ![node[t]] = top]
    BY <1>8 DEF Link, Go, IInv, LinkedNodes, NodeHasOneOwner, Freeing
  <2>3. \A m \in Nodes : InChain(m) => next'[m] = next[m]
    BY <2>2 DEF TypeOK
  <2>4. expTop[u] # Null => expTop[u] \in Nodes
    BY <1>0 DEF TypeOK
  <2>5. CASE u = t
    BY <1>0, <1>8, <2>5 DEF Link, Go, ReadsOf, TypeOK
  <2>6. CASE u # t
    <3>1. /\ pc'[u] = pc[u] /\ desTop'[u] = desTop[u]
          /\ UNCHANGED <<expTag, expTop, tag>>
      BY <1>0, <1>8, <2>6 DEF Link, Go, TypeOK
    <3> QED
      BY <1>0, <2>1, <2>3, <2>4, <3>1 DEF ReadsOf
  <2> QED
    BY <2>5, <2>6
<1>9. ASSUME NEW t \in Threads, Push(t) PROVE ReadsOf(u)'
  <2>1. \A m : InChain(m) => InChain(m)'
    <3>1. CASE top = desTop[t]
      BY <1>9, <3>1, PushedMembers
    <3>2. CASE top # desTop[t]
      BY <1>9, <3>2 DEF Push, InChain
    <3> QED
      BY <3>1, <3>2
  <2>2. /\ pc'[t] \in {"count", "link"} /\ pc[t] = "push"
        /\ u # t => pc'[u] = pc[u]
        /\ UNCHANGED <<tag, next, expTag, expTop, desTop>>
    BY <1>0, <1>9 DEF Push, Go, TypeOK
  <2> QED
    BY <1>0, <2>1, <2>2 DEF ReadsOf
<1>10. ASSUME NEW t \in Threads, AddCount(t) PROVE ReadsOf(u)'
  <2>1. \A m : InChain(m)' <=> InChain(m)
    BY <1>10 DEF AddCount, InChain
  <2> QED
    BY <1>0, <1>10, <2>1 DEF AddCount, Go, ReadsOf, TypeOK
<1>11. CASE UNCHANGED vars
  BY <1>0, <1>11 DEF ReadsOf, InChain, vars
<1> QED
  BY <1>1, <1>2, <1>3, <1>4, <1>5, <1>6, <1>7, <1>8, <1>9, <1>10, <1>11
     DEF Next, AllocStep, FreeStep

-----------------------------------------------------------------------------
(* Nodes about to be pushed.                                               *)
LinkOf(t) ==
  /\ pc[t] \in {"link", "push"} => node[t] \in Nodes
  /\ pc[t] = "push" => next[node[t]] = desTop[t]

LEMMA LinkInv == IInv /\ [Next]_vars => LinkedNodes'
<1> SUFFICES ASSUME IInv, [Next]_vars PROVE LinkedNodes'
  OBVIOUS
<1>0. TypeOK /\ \A u \in Threads : LinkOf(u)
  BY DEF IInv, LinkedNodes, LinkOf
<1> SUFFICES ASSUME NEW u \in Threads PROVE LinkOf(u)'
  BY DEF LinkedNodes, LinkOf
<1>1. ASSUME NEW t \in Threads, Reserve(t) PROVE LinkOf(u)'
  BY <1>0, <1>1 DEF Reserve, Go, LinkOf, TypeOK
<1>2. ASSUME NEW t \in Threads, AllocNode(t) PROVE LinkOf(u)'
  BY <1>0, <1>2 DEF AllocNode, Go, LinkOf, TypeOK
<1>3. ASSUME NEW t \in Threads, ReadTag(t) PROVE LinkOf(u)'
  BY <1>0, <1>3 DEF ReadTag, Go, LinkOf, TypeOK
<1>4. ASSUME NEW t \in Threads, ReadTop(t) PROVE LinkOf(u)'
  BY <1>0, <1>4 DEF ReadTop, Go, LinkOf, TypeOK
<1>5. ASSUME NEW t \in Threads, ReadNext(t) PROVE LinkOf(u)'
  BY <1>0, <1>5 DEF ReadNext, Go, LinkOf, TypeOK
<1>6. ASSUME NEW t \in Threads, Pop(t) PROVE LinkOf(u)'
  BY <1>0, <1>6 DEF Pop, Go, LinkOf, TypeOK
<1>7. ASSUME NEW t \in Threads, NEW n \in Nodes, BeginFree(t, n) PROVE LinkOf(u)'
  BY <1>0, <1>7 DEF BeginFree, Go, LinkOf, TypeOK
<1>8. ASSUME NEW t \in Threads, Link(t) PROVE LinkOf(u)'
  <2>1. /\ node[t] \in Nodes /\ pc[t] = "link" /\ pc'[t] = "push"
        /\ next' = [next EXCEPT ![node[t]] = top] /\ node' = node
        /\ desTop' = [desTop EXCEPT ![t] = top]
        /\ u # t => pc'[u] = pc[u] /\ desTop'[u] = desTop[u]
    BY <1>0, <1>8 DEF Link, Go, LinkOf, TypeOK
  <2>2. CASE u = t
    BY <1>0, <2>1, <2>2 DEF LinkOf, TypeOK
  <2>3. CASE u # t
    <3>1. pc[u] = "push" => node[u] \in Nodes /\ node[u] # node[t]
      BY <1>0, <2>1, <2>3 DEF LinkOf, IInv, NodeHasOneOwner, Freeing
    <3>2. pc[u] = "push" => next'[node[u]] = next[node[u]]
      BY <1>0, <2>1, <3>1 DEF TypeOK
    <3> QED
      BY <1>0, <2>1, <2>3, <3>1, <3>2 DEF LinkOf
  <2> QED
    BY <2>2, <2>3
<1>9. ASSUME NEW t \in Threads, Push(t) PROVE LinkOf(u)'
  BY <1>0, <1>9 DEF Push, Go, LinkOf, TypeOK
<1>10. ASSUME NEW t \in Threads, AddCount(t) PROVE LinkOf(u)'
  BY <1>0, <1>10 DEF AddCount, Go, LinkOf, TypeOK
<1>11. CASE UNCHANGED vars
  BY <1>0, <1>11 DEF LinkOf, vars
<1> QED
  BY <1>1, <1>2, <1>3, <1>4, <1>5, <1>6, <1>7, <1>8, <1>9, <1>10, <1>11
     DEF Next, AllocStep, FreeStep

-----------------------------------------------------------------------------
LEMMA Inductive == IInv /\ [Next]_vars => IInv'
<1> SUFFICES ASSUME IInv, [Next]_vars PROVE IInv'
  OBVIOUS
<1>1. TypeOK'
  <2>1. Types' /\ CountInvariant'
    BY TypeInv, CountInv
  <2> QED
    BY <2>1 DEF Types, CountInvariant, TypeOK
<1>2. Counting'
  BY CountInv DEF CountInvariant
<1> QED
  BY <1>1, <1>2, ChainInv, OwnerInv, ReadsInv, LinkInv DEF IInv

LEMMA Invariant == Spec => []IInv
  BY InitIInv, Inductive, PTL DEF Spec

(* Every variable of the pool keeps its type and the counter never falls   *)
(* further below zero than the threads that are giving it back.            *)
THEOREM PoolTypes == Spec => []TypeOK
<1>1. IInv => TypeOK
  BY DEF IInv
<1> QED
  BY <1>1, Invariant, PTL

(* However many threads, nodes and pops: the pointers form exactly the     *)
(* stack of pushed and not yet popped nodes (ObjectPool.h:88-145).         *)
THEOREM NoStalePop == Spec => []ChainIntact
<1>1. IInv => ChainIntact
  BY DEF IInv
<1> QED
  BY <1>1, Invariant, PTL

(* However many threads, nodes and pops: no node is handed out twice.      *)
THEOREM NoDoubleAllocation == Spec => []NodeHasOneOwner
<1>1. IInv => NodeHasOneOwner
  BY DEF IInv
<1> QED
  BY <1>1, Invariant, PTL

(* The top a thread read after its reservation is never null               *)
(* (ObjectPool.h:100 reads through it without a test).                     *)
THEOREM ReservationHolds == Spec => []ReservedFindsNode
<1>1. IInv => ReservedFindsNode
  BY DEF IInv, FreshReads, ReservedFindsNode
<1> QED
  BY <1>1, Invariant, PTL

(* When no thread is inside Alloc or Free, mPoolingCount is the number of  *)
(* pooled nodes.                                                           *)
THEOREM CountIsExact == Spec => []PoolingCountIsExact
<1>1. IInv => PoolingCountIsExact
  <2> SUFFICES ASSUME IInv, \A t \in Threads : pc[t] = "idle"
               PROVE  count = Len(chain)
    BY DEF PoolingCountIsExact
  <2>1. Busy = {}
    BY DEF Busy, At
  <2>2. Cardinality(Busy) = 0
    BY <2>1, FS_EmptySet
  <2> QED
    BY <2>2 DEF IInv, Counting, TypeOK
<1> QED
  BY <1>1, Invariant, PTL

(* Every step of the pool hands out a free node, takes a node back from    *)
(* its holder, or does neither: Alloc is Take and Free is Give.            *)
THEOREM PoolImplementsFreeList == Spec => ImplementsFreeList
<1>1. Init => Allocator!Init
  BY DEF Init, Allocator!Init
<1>2. IInv /\ [Next]_vars => [Allocator!Next]_holders
  <2> SUFFICES ASSUME IInv, [Next]_vars PROVE [Allocator!Next]_holders
    OBVIOUS
  <2>0. TypeOK /\ NodeHasOneOwner
    BY DEF IInv
  <2>1. ASSUME NEW t \in Threads, AllocNode(t) PROVE Allocator!Next
    <3>1. PICK n \in unused : holders' = [holders EXCEPT ![n] = @ + 1]
      BY <2>1 DEF AllocNode
    <3>2. n \in Nodes \ Held
      BY <3>1, <2>0 DEF TypeOK, NodeHasOneOwner
    <3>3. Allocator!Take(n)
      BY <2>0, <3>1, <3>2, Handed DEF NodeHasOneOwner
    <3> QED
      BY <3>2, <3>3 DEF Allocator!Next
  <2>2. ASSUME NEW t \in Threads, Pop(t) PROVE [Allocator!Next]_holders
    <3>1. CASE top = expTop[t] /\ tag = expTag[t]
      <4>1. holders' = [holders EXCEPT ![chain[1]] = @ + 1]
        BY <2>2, <3>1, Popped
      <4>2. chain[1] \in Nodes /\ InChain(chain[1])
        BY <2>2, <3>1, PoppedMembers
      <4>3. chain[1] \in Nodes \ Held
        BY <4>2, <2>0 DEF NodeHasOneOwner
      <4>4. Allocator!Take(chain[1])
        BY <2>0, <4>1, <4>3, Handed DEF NodeHasOneOwner
      <4> QED
        BY <4>2, <4>4 DEF Allocator!Next
    <3>2. CASE ~(top = expTop[t] /\ tag = expTag[t])
      BY <2>2, <3>2 DEF Pop
    <3> QED
      BY <3>1, <3>2
  <2>3. ASSUME NEW t \in Threads, NEW n \in Nodes, BeginFree(t, n) PROVE Allocator!Next
    <3>1. n \in Held /\ holders' = [holders EXCEPT ![n] = @ - 1]
      BY <2>3 DEF BeginFree
    <3>2. Allocator!Give(n)
      BY <2>0, <3>1, GivenBack DEF NodeHasOneOwner
    <3> QED
      BY <3>2 DEF Allocator!Next
  <2>4. ASSUME NEW t \in Threads,
               Reserve(t) \/ ReadTag(t) \/ ReadTop(t) \/ ReadNext(t)
                 \/ Link(t) \/ Push(t) \/ AddCount(t)
        PROVE  UNCHANGED holders
    BY <2>4 DEF Reserve, ReadTag, ReadTop, ReadNext, Link, Push, AddCount
  <2>5. CASE UNCHANGED vars
    BY <2>5 DEF vars
  <2> QED
    BY <2>1, <2>2, <2>3, <2>4, <2>5 DEF Next, AllocStep, FreeStep
<1> QED
  BY <1>1, <1>2, Invariant, PTL DEF Spec, ImplementsFreeList, Allocator!Spec

=============================================================================
