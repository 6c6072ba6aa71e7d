-------------------------- MODULE LockFreeQueueProofs --------------------------
(***************************************************************************)
(* Theorems about LockFreeQueue: as long as no enqueuer links its node to  *)
(* one that was deleted after it had read it, a consumer that reserved an  *)
(* element finds its node, no node is in two hands, and the queue is FIFO. *)
(***************************************************************************)
EXTENDS LockFreeQueue, SequenceTheorems, FiniteSetTheorems, TLAPS

Last == chain[Len(chain)]

(* The nodes of the chain are linked in its order, the last one to nothing.*)
ChainIsLinked ==
  /\ alive => chain # << >>
  /\ \A i, j \in 1..Len(chain) : chain[i] = chain[j] => i = j
  /\ \A i \in 1..(Len(chain) - 1) : next[chain[i]] = chain[i + 1]
  /\ chain # << >> => next[Last] = Null
  /\ \A i \in 2..Len(chain) : data[chain[i]] \in Values

(* The head is the dummy, and the tail at most one node behind the end:    *)
(* who has linked a node had found the tail at the end.                    *)
Behind == /\ Len(chain) > 1
          /\ tail.node = chain[Len(chain) - 1]

EndsOfChain ==
  alive => /\ head.node = chain[1]
           /\ tail.node = Last \/ Behind

(* The tail that an enqueuer has read is still linked, or being deleted,   *)
(* and the tail itself has not gone back since.                            *)
SeenIsPassed ==
  \A t \in Threads : pc[t] = "link" =>
    /\ seen[t] \in Nodes
    /\ t \notin stale =>
         /\ seen[t] \in LinkedNodes \/ \E u \in Unfreed : exp[u].node = seen[t]
         /\ seen[t] = Last => tail.node = Last

(* What moveTail knows: with the tag it has read it has read the tail, and *)
(* its next pointer, as they are.                                          *)
MoveKnowsTail ==
  \A t \in Threads :
    /\ pc[t] \in MoveSteps => ret[t] \in {"tail", "count"}
    /\ pc[t] \in {"mnode", "mnext", "mcas"} => mine[t].tag <= tail.tag
    /\ pc[t] \in {"mnext", "mcas"} =>
         /\ mine[t].node \in Nodes
         /\ mine[t].tag = tail.tag => mine[t].node = tail.node
    /\ pc[t] = "mcas" =>
         /\ mine[t].next \in Nodes
         /\ mine[t].tag = tail.tag => mine[t].next = next[tail.node]

(* A tail behind the end is moved by the enqueuer that has linked the last *)
(* node, before it counts it, unless somebody else moves it.               *)
Pushes(t) == /\ ret[t] = "count"
             /\ \/ pc[t] = "mtag"
                \/ pc[t] \in {"mnode", "mnext", "mcas"} /\ mine[t].tag = tail.tag

TailIsPushed == alive /\ tail.node # Last => \E t \in Threads : Pushes(t)

(* One thread dequeues.  It never gets as far as to call moveTail, the     *)
(* head it has read is the head, and what it has copied is the first node. *)
Consuming(t) == pc[t] \in DequeueSteps

OneConsumer ==
  \A t \in Threads :
    /\ \A u \in Threads : Consuming(t) /\ Consuming(u) => u = t
    /\ pc[t] \in {"next", "copy", "swing"} => exp[t] = head
    /\ pc[t] \in {"copy", "swing"} => des[t].node = chain[2]
    /\ pc[t] = "swing" => out[t] = data[chain[2]]

(* Enqueuers that have linked their node and not counted it, and the       *)
(* consumer between its fetch_sub and the exchange, or the fetch_add.      *)
Uncounted == {t \in Threads : \/ pc[t] = "count"
                              \/ pc[t] \in MoveSteps /\ ret[t] = "count"}
Reserving == {t \in Threads : pc[t] \in DequeueSteps \ {"delete"}}

Counting ==
  alive => Len(chain) - 1 = count + Cardinality(Uncounted) + Cardinality(Reserving)

(* The counter is below zero only while a failed reservation is undone.    *)
NotBelowZero ==
  /\ count >= -1
  /\ (\A t \in Threads : pc[t] # "undo") => count >= 0

(* A node that is handed out is in the chain, or in one pair of hands.     *)
OwnNode ==
  /\ \A t \in Unlinked :
       /\ node[t] \in Nodes /\ node[t] \notin LinkedNodes
       /\ next[node[t]] = Null
       /\ data[node[t]] = val[t]
       /\ \A u \in Unlinked : node[u] = node[t] => u = t
  /\ \A t \in Unfreed :
       /\ exp[t].node \in Nodes /\ exp[t].node \notin LinkedNodes
       /\ next[exp[t].node] # Null
       /\ \A u \in Unlinked : node[u] # exp[t].node

ValueInHand ==
  \A t \in Threads : t \in Unlinked \/ pc[t] = "new" => val[t] \in Values

HeldIsOwned ==
  \A n \in Nodes :
    held[n] = 1 <=> \/ n \in LinkedNodes
                    \/ \E t \in Unlinked : node[t] = n
                    \/ \E t \in Unfreed : exp[t].node = n

(* Clear walks along the chain, after everybody has left.                  *)
ClearIsAlone ==
  /\ alive => walk = Null
  /\ ~alive => /\ \A t \in Threads : pc[t] = "idle"
               /\ walk = IF chain = << >> THEN Null ELSE chain[1]

Sound == /\ ChainIsLinked
         /\ EndsOfChain
         /\ SeenIsPassed
         /\ MoveKnowsTail
         /\ TailIsPushed
         /\ OneConsumer
         /\ Counting
         /\ NotBelowZero
         /\ OwnNode
         /\ ValueInHand
         /\ HeldIsOwned
         /\ ClearIsAlone

IInv == TypeOK /\ (~recycled => Sound)

-----------------------------------------------------------------------------
(* Facts about labels, the chain and the sets of threads.                  *)

LEMMA Steps ==
  /\ EnqueueSteps = {"new", "tail", "link", "count"}
  /\ MoveSteps = {"mtag", "mnode", "mnext", "mcas"}
  /\ DequeueSteps = {"undo", "check", "head", "next", "copy", "swing", "delete"}
  /\ \A l \in EnqueueSteps : l \in Labels
  /\ \A l \in MoveSteps : l \in Labels
  /\ \A l \in DequeueSteps : l \in Labels
  /\ "idle" \in Labels
BY DEF EnqueueSteps, MoveSteps, DequeueSteps, Labels

LEMMA ChainTypes ==
  ASSUME TypeOK
  PROVE  /\ Len(chain) \in Nat
         /\ \A i \in 1..Len(chain) : chain[i] \in Nodes /\ chain[i] # Null
         /\ chain # << >> => Len(chain) >= 1
         /\ LinkedNodes \subseteq Nodes
BY QueueAssumption DEF TypeOK, LinkedNodes

(* The ends of the chain while the queue lives.                            *)
LEMMA ChainEnds ==
  ASSUME TypeOK, ChainIsLinked, EndsOfChain, alive
  PROVE  /\ Len(chain) >= 1 /\ Last \in Nodes /\ Last \in LinkedNodes
         /\ next[Last] = Null
         /\ tail.node \in Nodes /\ tail.node \in LinkedNodes
         /\ tail.node # Last => /\ Len(chain) > 1
                                /\ tail.node = chain[Len(chain) - 1]
                                /\ next[tail.node] = Last
<1>1. Len(chain) \in Nat /\ Len(chain) >= 1
  BY ChainTypes DEF ChainIsLinked
<1>2. Last \in Nodes /\ Last \in LinkedNodes /\ next[Last] = Null
  BY <1>1, ChainTypes DEF Last, LinkedNodes, ChainIsLinked
<1>3. CASE tail.node = Last
  BY <1>1, <1>2, <1>3
<1>4. CASE tail.node # Last
  <2>1. Len(chain) > 1 /\ tail.node = chain[Len(chain) - 1]
    BY <1>4 DEF EndsOfChain, Behind
  <2>2. Len(chain) - 1 \in 1..(Len(chain) - 1) /\ Len(chain) - 1 \in 1..Len(chain)
    BY <1>1, <2>1
  <2>3. next[tail.node] = chain[Len(chain) - 1 + 1]
    BY <2>1, <2>2 DEF ChainIsLinked
  <2>4. next[tail.node] = Last
    BY <1>1, <2>3 DEF Last
  <2> QED
    BY <1>1, <1>2, <2>1, <2>2, <2>4, ChainTypes DEF LinkedNodes
<1> QED
  BY <1>3, <1>4

LEMMA CountedThreads ==
  /\ IsFiniteSet(Uncounted) /\ Cardinality(Uncounted) \in Nat
  /\ IsFiniteSet(Reserving) /\ Cardinality(Reserving) \in Nat
<1>1. Uncounted \subseteq Threads /\ Reserving \subseteq Threads
  BY DEF Uncounted, Reserving
<1> QED
  BY <1>1, QueueAssumption, FS_Subset, FS_CardinalityType

(* Whoever is in a step is there before Clear.                             *)
LEMMA StepIsAlive ==
  ASSUME ClearIsAlone, NEW t \in Threads, pc[t] # "idle", TypeOK
  PROVE  alive
BY DEF ClearIsAlone, TypeOK

LEMMA InitIInv == Init => IInv
<1> SUFFICES ASSUME Init PROVE TypeOK /\ Sound
  BY DEF IInv
<1> USE QueueAssumption DEF Init
<1>1. PICK dummy \in Nodes :
        /\ head = [node |-> dummy, tag |-> 0]
        /\ tail = [node |-> dummy, tag |-> 0]
        /\ held = [n \in Nodes |-> IF n = dummy THEN 1 ELSE 0]
        /\ chain = <<dummy>>
  OBVIOUS
<1>2. Len(chain) = 1 /\ chain[1] = dummy /\ Last = dummy /\ LinkedNodes = {dummy}
  BY <1>1 DEF Last, LinkedNodes
<1>3. Uncounted = {} /\ Reserving = {} /\ Unlinked = {} /\ Unfreed = {}
  BY DEF Uncounted, Reserving, Unlinked, Unfreed, MoveSteps, DequeueSteps
<1>4. TypeOK
  <2>1. head \in Pointer /\ tail \in Pointer /\ chain \in Seq(Nodes)
    BY <1>1 DEF Pointer
  <2>2. Nil \in Pointer
    BY DEF Nil, Pointer
  <2>3. Nowhere \in [node : Nodes \cup {Null}, tag : Nat, next : Nodes \cup {Null}]
    BY DEF Nowhere
  <2>4. held \in [Nodes -> 0..1]
    BY <1>1
  <2>5. taken \in Seq(Values)
    OBVIOUS
  <2>6. stale \subseteq Threads /\ recycled \in BOOLEAN /\ walk \in Nodes \cup {Null}
    OBVIOUS
  <2>7. pc \in [Threads -> Labels]
    BY Steps
  <2> QED
    BY <2>1, <2>2, <2>3, <2>4, <2>5, <2>6, <2>7 DEF TypeOK
<1>5. ChainIsLinked /\ EndsOfChain
  BY <1>1, <1>2 DEF ChainIsLinked, EndsOfChain
<1>6. SeenIsPassed /\ MoveKnowsTail /\ OneConsumer
  BY Steps DEF SeenIsPassed, MoveKnowsTail, OneConsumer, Consuming
<1>7. TailIsPushed
  BY <1>1, <1>2 DEF TailIsPushed
<1>8. Counting /\ NotBelowZero
  BY <1>2, <1>3, FS_EmptySet DEF Counting, NotBelowZero
<1>9. OwnNode /\ ValueInHand /\ HeldIsOwned /\ ClearIsAlone
  BY <1>1, <1>2, <1>3 DEF OwnNode, ValueInHand, HeldIsOwned, ClearIsAlone
<1> QED
  BY <1>4, <1>5, <1>6, <1>7, <1>8, <1>9 DEF Sound

-----------------------------------------------------------------------------
(* What a step that writes no shared memory leaves as it is.               *)

(* A thread that moves stays in the sets it was in, or does not; the       *)
(* others stay.                                                            *)
LEMMA SetsKept ==
  ASSUME NEW t \in Threads,
         \A u \in Threads \ {t} : pc'[u] = pc[u] /\ ret'[u] = ret[u]
  PROVE  /\ (t \in Uncounted <=> (t \in Uncounted)') => Uncounted' = Uncounted
         /\ (t \in Reserving <=> (t \in Reserving)') => Reserving' = Reserving
         /\ (t \in Unlinked <=> (t \in Unlinked)') => Unlinked' = Unlinked
         /\ (t \in Unfreed <=> (t \in Unfreed)') => Unfreed' = Unfreed
<1>1. (t \in Uncounted <=> (t \in Uncounted)') => Uncounted' = Uncounted
  BY DEF Uncounted
<1>2. (t \in Reserving <=> (t \in Reserving)') => Reserving' = Reserving
  BY DEF Reserving
<1>3. (t \in Unlinked <=> (t \in Unlinked)') => Unlinked' = Unlinked
  BY DEF Unlinked
<1>4. (t \in Unfreed <=> (t \in Unfreed)') => Unfreed' = Unfreed
  BY DEF Unfreed
<1> QED
  BY <1>1, <1>2, <1>3, <1>4

(* A step of t that leaves shared memory, and the hands t has things in,   *)
(* as they are.                                                            *)
Quiet(t) ==
  /\ UNCHANGED <<memory, node, taken, chain, recycled, alive, walk>>
  /\ \A u \in Threads \ {t} : /\ pc'[u] = pc[u] /\ ret'[u] = ret[u]
                              /\ val'[u] = val[u] /\ seen'[u] = seen[u]
                              /\ mine'[u] = mine[u] /\ exp'[u] = exp[u]
                              /\ des'[u] = des[u] /\ out'[u] = out[u]
  /\ t \in Uncounted <=> (t \in Uncounted)'
  /\ t \in Reserving <=> (t \in Reserving)'
  /\ t \in Unlinked <=> (t \in Unlinked)'
  /\ t \notin Unfreed /\ ~(t \in Unfreed)'
  /\ pc[t] = "undo" <=> pc'[t] = "undo"
  /\ t \in Unlinked => val'[t] = val[t]

LEMMA QuietKeeps ==
  ASSUME TypeOK, Sound, NEW t \in Threads, Quiet(t)
  PROVE  /\ Uncounted' = Uncounted /\ Reserving' = Reserving
         /\ Unlinked' = Unlinked /\ Unfreed' = Unfreed
         /\ ChainIsLinked' /\ EndsOfChain' /\ Counting' /\ NotBelowZero'
         /\ OwnNode' /\ HeldIsOwned'
<1>1. /\ Uncounted' = Uncounted /\ Reserving' = Reserving
      /\ Unlinked' = Unlinked /\ Unfreed' = Unfreed
  BY SetsKept DEF Quiet
<1>2. UNCHANGED <<head, tail, next, data, count, held, node, chain, alive>>
  BY DEF Quiet, memory
<1>3. Last' = Last /\ LinkedNodes' = LinkedNodes
  BY <1>2 DEF Last, LinkedNodes
<1>4. ChainIsLinked'
  BY <1>2, <1>3 DEF Sound, ChainIsLinked
<1>5. EndsOfChain'
  BY <1>2, <1>3 DEF Sound, EndsOfChain, Behind
<1>6. Counting'
  BY <1>1, <1>2 DEF Sound, Counting
<1>7. NotBelowZero'
  <2>1. (\A u \in Threads : pc'[u] # "undo") => \A u \in Threads : pc[u] # "undo"
    BY DEF Quiet
  <2> QED
    BY <1>2, <2>1 DEF Sound, NotBelowZero
<1>8. \A u \in Unfreed : exp'[u] = exp[u]
  BY DEF Quiet, Unfreed
<1>9. \A u \in Unlinked : val'[u] = val[u]
  BY DEF Quiet, Unlinked
<1>10. OwnNode'
  BY <1>1, <1>2, <1>3, <1>8, <1>9 DEF Sound, OwnNode
<1>11. HeldIsOwned'
  BY <1>1, <1>2, <1>3, <1>8 DEF Sound, HeldIsOwned
<1> QED
  BY <1>1, <1>4, <1>5, <1>6, <1>7, <1>10, <1>11


(* What the other threads have read stays true, and so does what t has,    *)
(* when its step does not take it into the part the conjunct is about.     *)
LEMMA QuietSeen ==
  ASSUME TypeOK, Sound, NEW t \in Threads, Quiet(t),
         \A u \in Threads \ {t} : u \in stale' <=> u \in stale,
         pc'[t] # "link"
  PROVE  SeenIsPassed'
<1>1. UNCHANGED <<tail, chain>>
  BY DEF Quiet, memory
<1>2. Last' = Last /\ LinkedNodes' = LinkedNodes /\ Unfreed' = Unfreed
  BY <1>1, QuietKeeps DEF Last, LinkedNodes
<1>3. \A u \in Unfreed : exp'[u] = exp[u]
  BY DEF Quiet, Unfreed
<1>4. ASSUME NEW u \in Threads, pc'[u] = "link"
      PROVE  /\ seen'[u] \in Nodes
             /\ u \notin stale' =>
                  /\ \/ seen'[u] \in LinkedNodes'
                     \/ \E w \in Unfreed' : exp'[w].node = seen'[u]
                  /\ seen'[u] = Last' => tail'.node = Last'
  <2>1. u # t /\ pc[u] = "link" /\ seen'[u] = seen[u] /\ (u \in stale' <=> u \in stale)
    BY <1>4 DEF Quiet
  <2> QED
    BY <1>1, <1>2, <1>3, <2>1 DEF Sound, SeenIsPassed
<1> QED
  BY <1>4 DEF SeenIsPassed

LEMMA QuietMove ==
  ASSUME TypeOK, Sound, NEW t \in Threads, Quiet(t),
         pc'[t] \notin {"mnode", "mnext", "mcas"},
         pc'[t] \in MoveSteps => ret'[t] \in {"tail", "count"},
         ~Pushes(t)
  PROVE  MoveKnowsTail' /\ TailIsPushed'
<1>1. UNCHANGED <<tail, next, chain, alive>> /\ Last' = Last
  BY DEF Quiet, memory, Last
<1>2. \A u \in Threads \ {t} : pc'[u] = pc[u] /\ ret'[u] = ret[u] /\ mine'[u] = mine[u]
  BY DEF Quiet
<1>3. MoveKnowsTail'
  <2> SUFFICES ASSUME NEW u \in Threads
               PROVE  /\ pc'[u] \in MoveSteps => ret'[u] \in {"tail", "count"}
                      /\ pc'[u] \in {"mnode", "mnext", "mcas"} => mine'[u].tag <= tail'.tag
                      /\ pc'[u] \in {"mnext", "mcas"} =>
                           /\ mine'[u].node \in Nodes
                           /\ mine'[u].tag = tail'.tag => mine'[u].node = tail'.node
                      /\ pc'[u] = "mcas" =>
                           /\ mine'[u].next \in Nodes
                           /\ mine'[u].tag = tail'.tag => mine'[u].next = next'[tail'.node]
    BY DEF MoveKnowsTail
  <2>1. CASE u = t
    BY <2>1, Steps
  <2>2. CASE u # t
    BY <1>1, <1>2, <2>2 DEF Sound, MoveKnowsTail
  <2> QED
    BY <2>1, <2>2
<1>4. TailIsPushed'
  <2> SUFFICES ASSUME alive, tail.node # Last PROVE \E u \in Threads : Pushes(u)'
    BY <1>1 DEF TailIsPushed
  <2>1. PICK u \in Threads : Pushes(u)
    BY DEF Sound, TailIsPushed
  <2>2. u # t
    BY <2>1
  <2>3. Pushes(u)'
    BY <1>1, <1>2, <2>1, <2>2 DEF Pushes
  <2> QED
    BY <2>3
<1> QED
  BY <1>3, <1>4

(* The labels at which the consumer holds what it has read.                *)
LEMMA QuietConsumer ==
  ASSUME TypeOK, Sound, NEW t \in Threads, Quiet(t),
         Consuming(t)' <=> Consuming(t),
         pc'[t] \in {"next", "copy", "swing"} => exp'[t] = head,
         pc'[t] \in {"copy", "swing"} => des'[t].node = chain[2],
         pc'[t] = "swing" => out'[t] = data[chain[2]]
  PROVE  OneConsumer'
<1>1. UNCHANGED <<head, data, chain>>
  BY DEF Quiet, memory
<1>2. \A u \in Threads \ {t} : /\ pc'[u] = pc[u] /\ exp'[u] = exp[u]
                               /\ des'[u] = des[u] /\ out'[u] = out[u]
  BY DEF Quiet
<1>3. \A u \in Threads : Consuming(u)' <=> Consuming(u)
  BY <1>2 DEF Consuming
<1>4. \A u, w \in Threads : Consuming(u)' /\ Consuming(w)' => w = u
  BY <1>3 DEF Sound, OneConsumer
<1>5. ASSUME NEW u \in Threads
      PROVE  /\ pc'[u] \in {"next", "copy", "swing"} => exp'[u] = head'
             /\ pc'[u] \in {"copy", "swing"} => des'[u].node = chain'[2]
             /\ pc'[u] = "swing" => out'[u] = data'[chain'[2]]
  <2>1. CASE u = t
    BY <1>1, <2>1
  <2>2. CASE u # t
    BY <1>1, <1>2, <2>2 DEF Sound, OneConsumer
  <2> QED
    BY <2>1, <2>2
<1> QED
  BY <1>4, <1>5 DEF OneConsumer

LEMMA QuietHands ==
  ASSUME TypeOK, Sound, NEW t \in Threads, Quiet(t), alive,
         t \in Unlinked \/ pc'[t] = "new" => val'[t] \in Values
  PROVE  ValueInHand' /\ ClearIsAlone'
<1>1. Unlinked' = Unlinked
  BY QuietKeeps
<1>2. \A u \in Threads \ {t} : pc'[u] = pc[u] /\ val'[u] = val[u]
  BY DEF Quiet
<1>3. ValueInHand'
  BY <1>1, <1>2 DEF Sound, ValueInHand
<1>4. alive' = alive /\ walk' = walk
  BY DEF Quiet
<1>5. ClearIsAlone'
  BY <1>4 DEF Sound, ClearIsAlone
<1> QED
  BY <1>3, <1>5

-----------------------------------------------------------------------------
(* A consumer that has reserved an element finds the tail ahead of the     *)
(* head: an enqueuer that has not moved the tail past its node is not      *)
(* counted, so the chain holds a node more than the counter tells.         *)
LEMMA HeadIsBehind ==
  ASSUME TypeOK, Sound, NEW t \in Threads, Consuming(t),
         pc[t] \notin {"undo", "delete"}
  PROVE  /\ Len(chain) >= 2 /\ head.node = chain[1] /\ head.node # tail.node
         /\ chain[1] \in Nodes /\ chain[2] \in Nodes /\ chain[1] # chain[2]
         /\ next[head.node] = chain[2]
         /\ chain[2] \in LinkedNodes
         /\ data[chain[2]] \in Values
<1> DEFINE U == Cardinality(Uncounted)
           R == Cardinality(Reserving)
<1>1. alive
  BY Steps, StepIsAlive DEF Sound, Consuming
<1>2. /\ U \in Nat /\ R \in Nat
      /\ IsFiniteSet(Uncounted) /\ IsFiniteSet(Reserving)
  BY CountedThreads
<1>3. t \in Reserving
  BY DEF Reserving, Consuming
<1>4. R >= 1
  BY <1>2, <1>3, FS_EmptySet
<1>5. \A u \in Threads : pc[u] # "undo"
  BY Steps DEF Sound, OneConsumer, Consuming
<1>6. count \in Int /\ count >= 0
  BY <1>5 DEF Sound, NotBelowZero, TypeOK
<1>7. Len(chain) \in Nat /\ Len(chain) - 1 = count + U + R
  BY <1>1, ChainTypes DEF Sound, Counting
<1> HIDE DEF U, R
<1>8. Len(chain) >= 2
  BY <1>2, <1>4, <1>6, <1>7
<1>9. /\ Len(chain) # 1 /\ 1 \in 1..Len(chain) /\ 2 \in 1..Len(chain) /\ 1 \in 1..(Len(chain) - 1)
      /\ 2 \in 2..Len(chain) /\ Len(chain) \in 1..Len(chain)
      /\ Len(chain) - 1 \in 1..Len(chain)
  BY <1>7, <1>8
<1>10. head.node = chain[1]
  BY <1>1 DEF Sound, EndsOfChain
<1>11. chain[1] \in Nodes /\ chain[2] \in Nodes /\ chain[1] # chain[2]
  BY <1>9, ChainTypes DEF Sound, ChainIsLinked
<1>12. next[chain[1]] = chain[2]
  BY <1>9 DEF Sound, ChainIsLinked
<1>13. chain[2] \in LinkedNodes /\ data[chain[2]] \in Values
  BY <1>9 DEF Sound, ChainIsLinked, LinkedNodes
<1>14. chain[1] # tail.node
  <2>1. CASE tail.node = Last
    BY <2>1, <1>9 DEF Last, Sound, ChainIsLinked
  <2>2. CASE tail.node # Last
    <3>1. PICK u \in Threads : Pushes(u)
      BY <1>1, <2>2 DEF Sound, TailIsPushed
    <3>2. u \in Uncounted
      BY <3>1, Steps DEF Pushes, Uncounted
    <3>3. U >= 1
      BY <1>2, <3>2, FS_EmptySet DEF U
    <3>4. count + U + R >= 2
      BY <1>2, <1>4, <1>6, <3>3
    <3>5. Len(chain) - 1 # 1
      BY <1>2, <1>6, <1>7, <3>4
    <3>6. tail.node = chain[Len(chain) - 1]
      BY <1>1, <2>2 DEF Sound, EndsOfChain, Behind
    <3> QED
      BY <3>5, <3>6, <1>9 DEF Sound, ChainIsLinked
  <2> QED
    BY <2>1, <2>2
<1> QED
  BY <1>8, <1>10, <1>11, <1>12, <1>13, <1>14

-----------------------------------------------------------------------------
(* The steps of TryEnqueue.                                                *)

LEMMA TryEnqueueKeeps ==
  ASSUME IInv, ~recycled, NEW t \in Threads, NEW v \in Values, TryEnqueue(t, v)
  PROVE  IInv'
<1> USE DEF TryEnqueue, memory, move, deq, past
<1>0. TypeOK /\ Sound /\ alive
  BY DEF IInv
<1>1. pc[t] = "idle" /\ pc'[t] \in {"idle", "new"}
  BY <1>0 DEF Go, TypeOK
<1>2. \A u \in Threads \ {t} : pc'[u] = pc[u] /\ val'[u] = val[u]
  BY <1>0 DEF Go, TypeOK
<1>3. pc'[t] = "new" => val'[t] = v
  BY <1>0, <1>1 DEF Go, TypeOK
<1>4. Quiet(t)
  BY <1>0, <1>1, <1>2, Steps DEF Quiet, Uncounted, Reserving, Unlinked, Unfreed
<1>5. TypeOK'
  <2>1. pc' \in [Threads -> Labels]
    BY <1>0, Steps DEF Go, TypeOK
  <2>2. val' \in [Threads -> Values \cup {Null}] /\ fresh' \subseteq Values
    BY <1>0 DEF TypeOK
  <2> QED
    BY <1>0, <2>1, <2>2 DEF TypeOK
<1>6. SeenIsPassed'
  BY <1>0, <1>1, <1>4, QuietSeen
<1>7. MoveKnowsTail' /\ TailIsPushed'
  BY <1>0, <1>1, <1>4, QuietMove, Steps DEF Pushes
<1>8. OneConsumer'
  BY <1>0, <1>1, <1>4, QuietConsumer, Steps DEF Consuming
<1>9. ValueInHand' /\ ClearIsAlone'
  BY <1>0, <1>1, <1>3, <1>4, QuietHands, Steps DEF Unlinked
<1> QED
  BY <1>0, <1>4, <1>5, <1>6, <1>7, <1>8, <1>9, QuietKeeps DEF IInv, Sound

LEMMA ReadTailKeeps ==
  ASSUME IInv, ~recycled, NEW t \in Threads, ReadTail(t)
  PROVE  IInv'
<1> USE DEF ReadTail, Go, memory, move, deq, life
<1>0. TypeOK /\ Sound /\ alive
  BY StepIsAlive DEF IInv, Sound
<1>1. pc[t] = "tail" /\ pc'[t] = "link"
  BY <1>0 DEF TypeOK
<1>2. \A u \in Threads \ {t} : pc'[u] = pc[u] /\ seen'[u] = seen[u]
  BY <1>0 DEF TypeOK
<1>3. seen'[t] = tail.node
  BY <1>0 DEF TypeOK
<1>4. Quiet(t)
  BY <1>0, <1>1, <1>2, Steps DEF Quiet, Uncounted, Reserving, Unlinked, Unfreed
<1>5. TypeOK'
  <2>1. pc' \in [Threads -> Labels]
    BY <1>0, Steps DEF TypeOK
  <2>2. seen' \in [Threads -> Nodes \cup {Null}] /\ stale' \subseteq Threads
    BY <1>0 DEF TypeOK, Pointer
  <2> QED
    BY <1>0, <2>1, <2>2 DEF TypeOK
<1>6. SeenIsPassed'
  <2>1. Last' = Last /\ LinkedNodes' = LinkedNodes /\ Unfreed' = Unfreed
    BY <1>0, <1>4, QuietKeeps DEF Last, LinkedNodes
  <2>2. tail.node \in Nodes /\ tail.node \in LinkedNodes
    BY <1>0, ChainEnds DEF Sound
  <2> SUFFICES ASSUME NEW u \in Threads, pc'[u] = "link"
               PROVE  /\ seen'[u] \in Nodes
                      /\ u \notin stale' =>
                           /\ \/ seen'[u] \in LinkedNodes
                              \/ \E w \in Unfreed : exp[w].node = seen'[u]
                           /\ seen'[u] = Last => tail.node = Last
    BY <2>1 DEF SeenIsPassed
  <2>3. CASE u = t
    BY <1>3, <2>2, <2>3
  <2>4. CASE u # t
    <3>1. pc[u] = "link" /\ seen'[u] = seen[u] /\ (u \in stale' <=> u \in stale)
      BY <1>2, <2>4
    <3> QED
      BY <1>0, <3>1 DEF Sound, SeenIsPassed
  <2> QED
    BY <2>3, <2>4
<1>7. MoveKnowsTail' /\ TailIsPushed'
  BY <1>0, <1>1, <1>4, QuietMove, Steps DEF Pushes
<1>8. OneConsumer'
  BY <1>0, <1>1, <1>4, QuietConsumer, Steps DEF Consuming
<1>9. ValueInHand' /\ ClearIsAlone'
  BY <1>0, <1>1, <1>4, QuietHands, Steps DEF Unlinked, Sound, ValueInHand
<1> QED
  BY <1>0, <1>4, <1>5, <1>6, <1>7, <1>8, <1>9, QuietKeeps DEF IInv, Sound

-----------------------------------------------------------------------------
(* The reads of moveTail.                                                  *)

MoveRecord == [node : Nodes \cup {Null}, tag : Nat, next : Nodes \cup {Null}]

LEMMA MoveRecordUpdates ==
  ASSUME NEW r \in MoveRecord
  PROVE  /\ \A k \in Nat : [r EXCEPT !.tag = k] \in MoveRecord
         /\ \A p \in Nodes \cup {Null} : /\ [r EXCEPT !.node = p] \in MoveRecord
                                       /\ [r EXCEPT !.next = p] \in MoveRecord
BY DEF MoveRecord

(* What the steps of moveTail that write nothing have in common.           *)
LEMMA QuietMoving ==
  ASSUME TypeOK, Sound, NEW t \in Threads, pc[t] \in MoveSteps, Quiet(t),
         UNCHANGED <<stale, val>>,
         pc'[t] \in MoveSteps \/ pc'[t] = ret[t]
  PROVE  SeenIsPassed' /\ OneConsumer' /\ ValueInHand' /\ ClearIsAlone'
<1>1. alive
  BY Steps, StepIsAlive DEF Sound
<1>2. ret[t] \in {"tail", "count"}
  BY DEF Sound, MoveKnowsTail
<1>3. pc'[t] \in {"mtag", "mnode", "mnext", "mcas", "tail", "count"}
  BY <1>2, Steps
<1>4. SeenIsPassed'
  BY <1>3, QuietSeen
<1>5. OneConsumer'
  BY <1>3, QuietConsumer, Steps DEF Consuming
<1>6. t \in Unlinked => val[t] \in Values
  BY DEF Sound, ValueInHand
<1>7. ValueInHand' /\ ClearIsAlone'
  BY <1>1, <1>3, <1>6, QuietHands
<1> QED
  BY <1>4, <1>5, <1>7

LEMMA MoveReadTagKeeps ==
  ASSUME IInv, ~recycled, NEW t \in Threads, MoveReadTag(t)
  PROVE  IInv'
<1> USE DEF MoveReadTag, Go, memory, enq, deq, life, past
<1>0. TypeOK /\ Sound
  BY DEF IInv
<1>1. pc[t] = "mtag" /\ pc'[t] = "mnode"
  BY <1>0 DEF TypeOK
<1>2. \A u \in Threads \ {t} : pc'[u] = pc[u] /\ mine'[u] = mine[u]
  BY <1>0 DEF TypeOK
<1>3. mine'[t].tag = tail.tag
  BY <1>0 DEF TypeOK
<1>4. Quiet(t)
  BY <1>0, <1>1, <1>2, Steps DEF Quiet, Uncounted, Reserving, Unlinked, Unfreed
<1>5. TypeOK'
  <2>1. pc' \in [Threads -> Labels]
    BY <1>0, Steps DEF TypeOK
  <2>2. mine' \in [Threads -> [node : Nodes \cup {Null}, tag : Nat,
                               next : Nodes \cup {Null}]]
    <3>1. [mine[t] EXCEPT !.tag = tail.tag] \in MoveRecord
      <4>1. mine[t] \in MoveRecord
        BY <1>0 DEF TypeOK, MoveRecord
      <4>2. tail.tag \in Nat
        BY <1>0 DEF TypeOK, Pointer
      <4> QED
        BY <4>1, <4>2, MoveRecordUpdates
    <3> QED
      BY <1>0, <3>1 DEF TypeOK, MoveRecord
  <2> QED
    BY <1>0, <2>1, <2>2 DEF TypeOK
<1>6. tail.tag \in Nat
  BY <1>0 DEF TypeOK, Pointer
<1>7. MoveKnowsTail'
  <2> SUFFICES ASSUME NEW u \in Threads
               PROVE  /\ pc'[u] \in MoveSteps => ret[u] \in {"tail", "count"}
                      /\ pc'[u] \in {"mnode", "mnext", "mcas"} => mine'[u].tag <= tail.tag
                      /\ pc'[u] \in {"mnext", "mcas"} =>
                           /\ mine'[u].node \in Nodes
                           /\ mine'[u].tag = tail.tag => mine'[u].node = tail.node
                      /\ pc'[u] = "mcas" =>
                           /\ mine'[u].next \in Nodes
                           /\ mine'[u].tag = tail.tag => mine'[u].next = next[tail.node]
    BY DEF MoveKnowsTail
  <2>1. CASE u = t
    BY <1>0, <1>1, <1>3, <1>6, <2>1, Steps DEF Sound, MoveKnowsTail
  <2>2. CASE u # t
    BY <1>0, <1>2, <2>2 DEF Sound, MoveKnowsTail
  <2> QED
    BY <2>1, <2>2
<1>8. TailIsPushed'
  <2> SUFFICES ASSUME alive, tail.node # Last PROVE \E u \in Threads : Pushes(u)'
    BY DEF TailIsPushed, Last
  <2>1. PICK u \in Threads : Pushes(u)
    BY <1>0 DEF Sound, TailIsPushed
  <2>2. Pushes(u)'
    BY <1>1, <1>2, <1>3, <2>1 DEF Pushes
  <2> QED
    BY <2>2
<1> QED
  BY <1>0, <1>1, <1>4, <1>5, <1>7, <1>8, QuietKeeps, QuietMoving, Steps
     DEF IInv, Sound

LEMMA MoveReadNodeKeeps ==
  ASSUME IInv, ~recycled, NEW t \in Threads, MoveReadNode(t)
  PROVE  IInv'
<1> USE DEF MoveReadNode, Go, memory, enq, deq, life, past
<1>0. TypeOK /\ Sound
  BY DEF IInv
<1>1. pc[t] = "mnode" /\ pc'[t] = "mnext"
  BY <1>0 DEF TypeOK
<1>2. \A u \in Threads \ {t} : pc'[u] = pc[u] /\ mine'[u] = mine[u]
  BY <1>0 DEF TypeOK
<1>3. mine'[t].node = tail.node /\ mine'[t].tag = mine[t].tag
  BY <1>0 DEF TypeOK
<1>4. Quiet(t)
  BY <1>0, <1>1, <1>2, Steps DEF Quiet, Uncounted, Reserving, Unlinked, Unfreed
<1>5. TypeOK'
  <2>1. pc' \in [Threads -> Labels]
    BY <1>0, Steps DEF TypeOK
  <2>2. mine' \in [Threads -> [node : Nodes \cup {Null}, tag : Nat,
                               next : Nodes \cup {Null}]]
    <3>1. [mine[t] EXCEPT !.node = tail.node] \in MoveRecord
      <4>1. mine[t] \in MoveRecord
        BY <1>0 DEF TypeOK, MoveRecord
      <4>2. tail.node \in Nodes \cup {Null}
        BY <1>0 DEF TypeOK, Pointer
      <4> QED
        BY <4>1, <4>2, MoveRecordUpdates
    <3> QED
      BY <1>0, <3>1 DEF TypeOK, MoveRecord
  <2> QED
    BY <1>0, <2>1, <2>2 DEF TypeOK
<1>6. tail.node \in Nodes
  BY <1>0, <1>1, ChainEnds, StepIsAlive DEF Sound
<1>7. MoveKnowsTail'
  <2> SUFFICES ASSUME NEW u \in Threads
               PROVE  /\ pc'[u] \in MoveSteps => ret[u] \in {"tail", "count"}
                      /\ pc'[u] \in {"mnode", "mnext", "mcas"} => mine'[u].tag <= tail.tag
                      /\ pc'[u] \in {"mnext", "mcas"} =>
                           /\ mine'[u].node \in Nodes
                           /\ mine'[u].tag = tail.tag => mine'[u].node = tail.node
                      /\ pc'[u] = "mcas" =>
                           /\ mine'[u].next \in Nodes
                           /\ mine'[u].tag = tail.tag => mine'[u].next = next[tail.node]
    BY DEF MoveKnowsTail
  <2>1. CASE u = t
    BY <1>0, <1>1, <1>3, <1>6, <2>1, Steps DEF Sound, MoveKnowsTail
  <2>2. CASE u # t
    BY <1>0, <1>2, <2>2 DEF Sound, MoveKnowsTail
  <2> QED
    BY <2>1, <2>2
<1>8. TailIsPushed'
  <2> SUFFICES ASSUME alive, tail.node # Last PROVE \E u \in Threads : Pushes(u)'
    BY DEF TailIsPushed, Last
  <2>1. PICK u \in Threads : Pushes(u)
    BY <1>0 DEF Sound, TailIsPushed
  <2>2. Pushes(u)'
    BY <1>1, <1>2, <1>3, <2>1 DEF Pushes
  <2> QED
    BY <2>2
<1> QED
  BY <1>0, <1>1, <1>4, <1>5, <1>7, <1>8, QuietKeeps, QuietMoving, Steps
     DEF IInv, Sound

LEMMA MoveReadNextKeeps ==
  ASSUME IInv, ~recycled, NEW t \in Threads, MoveReadNext(t)
  PROVE  IInv'
<1> USE DEF MoveReadNext, MoveReturn, Go, memory, enq, deq, life, past
<1>0. TypeOK /\ Sound
  BY DEF IInv
<1>1. pc[t] = "mnext" /\ ret[t] \in {"tail", "count"} /\ mine[t].node \in Nodes
  BY <1>0, Steps DEF Sound, MoveKnowsTail
<1>2. \A u \in Threads \ {t} : pc'[u] = pc[u] /\ mine'[u] = mine[u] /\ ret'[u] = ret[u]
  BY <1>0 DEF TypeOK
<1>3. UNCHANGED <<head, tail, next, data, count, held, chain, alive, recycled>>
  OBVIOUS
<1>4. CASE next[mine[t].node] = Null
  <2>1. pc'[t] = ret[t] /\ ret'[t] = "idle"
    BY <1>0, <1>4 DEF TypeOK
  <2>2. Quiet(t)
    BY <1>0, <1>1, <1>2, <2>1, Steps DEF Quiet, Uncounted, Reserving,
       Unlinked, Unfreed
  <2>3. TypeOK'
    <3>1. pc' \in [Threads -> Labels]
      BY <1>0, <1>1, <1>4, Steps DEF TypeOK
    <3>2. mine' \in [Threads -> [node : Nodes \cup {Null}, tag : Nat,
                                 next : Nodes \cup {Null}]]
      <4>1. Nowhere \in MoveRecord
        BY DEF Nowhere, MoveRecord
      <4>2. mine' = [mine EXCEPT ![t] = Nowhere]
        BY <1>4
      <4> QED
        BY <1>0, <4>1, <4>2 DEF TypeOK, MoveRecord
    <3>3. ret' \in [Threads -> {"idle", "tail", "count", "swing"}]
      BY <1>0, <1>4 DEF TypeOK
    <3> QED
      BY <1>0, <3>1, <3>2, <3>3 DEF TypeOK
  <2>4. MoveKnowsTail'
    <3> SUFFICES ASSUME NEW u \in Threads
                 PROVE  /\ pc'[u] \in MoveSteps => ret'[u] \in {"tail", "count"}
                        /\ pc'[u] \in {"mnode", "mnext", "mcas"} => mine'[u].tag <= tail.tag
                        /\ pc'[u] \in {"mnext", "mcas"} =>
                             /\ mine'[u].node \in Nodes
                             /\ mine'[u].tag = tail.tag => mine'[u].node = tail.node
                        /\ pc'[u] = "mcas" =>
                             /\ mine'[u].next \in Nodes
                             /\ mine'[u].tag = tail.tag => mine'[u].next = next[tail.node]
      BY <1>3 DEF MoveKnowsTail
    <3>1. CASE u = t
      BY <1>1, <2>1, <3>1, Steps
    <3>2. CASE u # t
      BY <1>0, <1>2, <3>2 DEF Sound, MoveKnowsTail
    <3> QED
      BY <3>1, <3>2
  <2>5. TailIsPushed'
    <3> SUFFICES ASSUME alive, tail.node # Last PROVE \E u \in Threads : Pushes(u)'
      BY <1>3 DEF TailIsPushed, Last
    <3>1. PICK u \in Threads : Pushes(u)
      BY <1>0 DEF Sound, TailIsPushed
    <3>2. next[tail.node] # Null
      BY <1>0, ChainEnds, QueueAssumption DEF Sound
    <3>3. u # t
      BY <1>0, <1>1, <1>4, <3>1, <3>2 DEF Pushes, Sound, MoveKnowsTail
    <3>4. Pushes(u)'
      BY <1>2, <1>3, <3>1, <3>3 DEF Pushes
    <3> QED
      BY <3>4
  <2> QED
    BY <1>0, <1>1, <2>1, <2>2, <2>3, <2>4, <2>5, QuietKeeps, QuietMoving, Steps
    DEF IInv, Sound
<1>5. CASE next[mine[t].node] # Null
  <2>1. pc'[t] = "mcas" /\ ret' = ret
    BY <1>0, <1>5 DEF TypeOK
  <2>2. /\ mine'[t].next = next[mine[t].node]
        /\ mine'[t].node = mine[t].node /\ mine'[t].tag = mine[t].tag
    BY <1>0, <1>5 DEF TypeOK
  <2>3. next[mine[t].node] \in Nodes
    BY <1>0, <1>1, <1>5 DEF TypeOK
  <2>4. Quiet(t)
    BY <1>0, <1>1, <1>2, <2>1, Steps DEF Quiet, Uncounted, Reserving,
       Unlinked, Unfreed
  <2>5. TypeOK'
    <3>1. pc' \in [Threads -> Labels]
      <4>1. pc' = [pc EXCEPT ![t] = "mcas"] /\ "mcas" \in Labels
        BY <1>5, Steps
      <4> QED
        BY <1>0, <4>1 DEF TypeOK
    <3>2. mine' \in [Threads -> [node : Nodes \cup {Null}, tag : Nat,
                                 next : Nodes \cup {Null}]]
      <4>1. [mine[t] EXCEPT !.next = next[mine[t].node]] \in MoveRecord
        <5>1. mine[t] \in MoveRecord
          BY <1>0 DEF TypeOK, MoveRecord
        <5> QED
          BY <2>3, <5>1, MoveRecordUpdates
      <4>2. mine' = [mine EXCEPT ![t].next = next[mine[t].node]]
        BY <1>5
      <4> QED
        BY <1>0, <4>1, <4>2 DEF TypeOK, MoveRecord
    <3> QED
      BY <1>0, <2>1, <3>1, <3>2 DEF TypeOK
  <2>6. MoveKnowsTail'
    <3> SUFFICES ASSUME NEW u \in Threads
                 PROVE  /\ pc'[u] \in MoveSteps => ret[u] \in {"tail", "count"}
                        /\ pc'[u] \in {"mnode", "mnext", "mcas"} => mine'[u].tag <= tail.tag
                        /\ pc'[u] \in {"mnext", "mcas"} =>
                             /\ mine'[u].node \in Nodes
                             /\ mine'[u].tag = tail.tag => mine'[u].node = tail.node
                        /\ pc'[u] = "mcas" =>
                             /\ mine'[u].next \in Nodes
                             /\ mine'[u].tag = tail.tag => mine'[u].next = next[tail.node]
      BY <1>3, <2>1 DEF MoveKnowsTail
    <3>1. CASE u = t
      <4>1. mine[t].tag <= tail.tag /\ (mine[t].tag = tail.tag => mine[t].node = tail.node)
        BY <1>0, <1>1 DEF Sound, MoveKnowsTail
      <4> QED
        BY <1>1, <2>2, <2>3, <3>1, <4>1
    <3>2. CASE u # t
      BY <1>0, <1>2, <3>2 DEF Sound, MoveKnowsTail
    <3> QED
      BY <3>1, <3>2
  <2>7. TailIsPushed'
    <3> SUFFICES ASSUME alive, tail.node # Last PROVE \E u \in Threads : Pushes(u)'
      BY <1>3 DEF TailIsPushed, Last
    <3>1. PICK u \in Threads : Pushes(u)
      BY <1>0 DEF Sound, TailIsPushed
    <3>2. Pushes(u)'
      BY <1>1, <1>2, <1>3, <2>1, <2>2, <3>1 DEF Pushes
    <3> QED
      BY <3>2
  <2> QED
    BY <1>0, <1>1, <2>1, <2>4, <2>5, <2>6, <2>7, QuietKeeps, QuietMoving, Steps
    DEF IInv, Sound
<1> QED
  BY <1>4, <1>5

-----------------------------------------------------------------------------
(* The reads of TryDequeue.                                                *)

(* What the steps of the consumer that write nothing have in common.       *)
LEMMA QuietDequeuing ==
  ASSUME TypeOK, Sound, NEW t \in Threads, Quiet(t), UNCHANGED <<stale, val>>,
         pc[t] \in {"check", "head", "next", "copy"},
         pc'[t] \in {"head", "next", "copy", "swing"}
  PROVE  /\ SeenIsPassed' /\ MoveKnowsTail' /\ TailIsPushed'
         /\ ValueInHand' /\ ClearIsAlone'
<1>1. alive
  BY StepIsAlive DEF Sound
<1>2. SeenIsPassed'
  BY QuietSeen
<1>3. MoveKnowsTail' /\ TailIsPushed'
  BY QuietMove, Steps DEF Pushes
<1>4. ValueInHand' /\ ClearIsAlone'
  BY <1>1, QuietHands, Steps DEF Unlinked
<1> QED
  BY <1>2, <1>3, <1>4

LEMMA CheckKeeps ==
  ASSUME IInv, ~recycled, NEW t \in Threads, Check(t)
  PROVE  IInv'
<1> USE DEF Go, memory, enq, move, deq, life, past
<1>0. TypeOK /\ Sound
  BY DEF IInv
<1>1. pc[t] = "check" /\ Consuming(t)
  BY Steps DEF Check, Consuming
<1>2. head.node # tail.node
  BY <1>0, <1>1, HeadIsBehind
<1>3. pc' = [pc EXCEPT ![t] = "head"] /\ UNCHANGED <<memory, enq, move, deq, life, past>>
  BY <1>2 DEF Check
<1>4. pc'[t] = "head" /\ \A u \in Threads \ {t} : pc'[u] = pc[u]
  BY <1>0, <1>3 DEF TypeOK
<1>5. Quiet(t)
  BY <1>1, <1>3, <1>4, Steps DEF Quiet, Uncounted, Reserving, Unlinked, Unfreed
<1>6. TypeOK'
  <2>1. pc' \in [Threads -> Labels]
    BY <1>0, <1>3, Steps DEF TypeOK
  <2> QED
    BY <1>0, <1>3, <2>1 DEF TypeOK
<1>7. OneConsumer'
  BY <1>0, <1>1, <1>4, <1>5, QuietConsumer, Steps DEF Consuming
<1> QED
  BY <1>0, <1>1, <1>3, <1>4, <1>5, <1>6, <1>7, QuietKeeps, QuietDequeuing
     DEF IInv, Sound

LEMMA ReadHeadKeeps ==
  ASSUME IInv, ~recycled, NEW t \in Threads, ReadHead(t)
  PROVE  IInv'
<1> USE DEF Go, memory, enq, move, life, past
<1>0. TypeOK /\ Sound
  BY DEF IInv
<1>1. pc[t] = "head" /\ Consuming(t)
  BY Steps DEF ReadHead, Consuming
<1>2. head.node # Null
  BY <1>0, <1>1, HeadIsBehind, QueueAssumption
<1>3. /\ pc' = [pc EXCEPT ![t] = "next"]
      /\ exp' = [exp EXCEPT ![t] = head]
      /\ UNCHANGED <<memory, enq, move, des, out, life, past>>
  BY <1>2 DEF ReadHead
<1>4. /\ pc'[t] = "next" /\ exp'[t] = head
      /\ \A u \in Threads \ {t} : pc'[u] = pc[u] /\ exp'[u] = exp[u]
  BY <1>0, <1>3 DEF TypeOK
<1>5. Quiet(t)
  BY <1>1, <1>3, <1>4, Steps DEF Quiet, Uncounted, Reserving, Unlinked, Unfreed
<1>6. TypeOK'
  <2>1. pc' \in [Threads -> Labels]
    BY <1>0, <1>3, Steps DEF TypeOK
  <2>2. exp' \in [Threads -> Pointer]
    BY <1>0, <1>3 DEF TypeOK
  <2> QED
    BY <1>0, <1>3, <2>1, <2>2 DEF TypeOK
<1>7. OneConsumer'
  BY <1>0, <1>1, <1>4, <1>5, QuietConsumer, Steps DEF Consuming
<1> QED
  BY <1>0, <1>1, <1>3, <1>4, <1>5, <1>6, <1>7, QuietKeeps, QuietDequeuing
     DEF IInv, Sound

LEMMA ReadNextKeeps ==
  ASSUME IInv, ~recycled, NEW t \in Threads, ReadNext(t)
  PROVE  IInv'
<1> USE DEF Go, memory, enq, move, life, past
<1>0. TypeOK /\ Sound
  BY DEF IInv
<1>1. pc[t] = "next" /\ Consuming(t)
  BY Steps DEF ReadNext, Consuming
<1>2. exp[t] = head /\ next[exp[t].node] = chain[2] /\ chain[2] \in Nodes
  BY <1>0, <1>1, HeadIsBehind DEF Sound, OneConsumer
<1>3. /\ pc' = [pc EXCEPT ![t] = "copy"]
      /\ des' = [des EXCEPT ![t] = [node |-> chain[2], tag |-> exp[t].tag + 1]]
      /\ UNCHANGED <<memory, enq, move, exp, out, life, past>>
  BY <1>2, QueueAssumption DEF ReadNext
<1>4. /\ pc'[t] = "copy" /\ des'[t] = [node |-> chain[2], tag |-> exp[t].tag + 1]
      /\ \A u \in Threads \ {t} : pc'[u] = pc[u] /\ des'[u] = des[u]
  BY <1>0, <1>3 DEF TypeOK
<1>5. Quiet(t)
  BY <1>1, <1>3, <1>4, Steps DEF Quiet, Uncounted, Reserving, Unlinked, Unfreed
<1>6. TypeOK'
  <2>1. pc' \in [Threads -> Labels]
    BY <1>0, <1>3, Steps DEF TypeOK
  <2>2. [node |-> chain[2], tag |-> exp[t].tag + 1] \in Pointer
    BY <1>0, <1>2 DEF TypeOK, Pointer
  <2>3. des' \in [Threads -> Pointer]
    BY <1>0, <1>3, <2>2 DEF TypeOK
  <2> QED
    BY <1>0, <1>3, <2>1, <2>3 DEF TypeOK
<1>7. OneConsumer'
  BY <1>0, <1>1, <1>2, <1>3, <1>4, <1>5, QuietConsumer, Steps DEF Consuming
<1> QED
  BY <1>0, <1>1, <1>3, <1>4, <1>5, <1>6, <1>7, QuietKeeps, QuietDequeuing
     DEF IInv, Sound

LEMMA CopyKeeps ==
  ASSUME IInv, ~recycled, NEW t \in Threads, Copy(t)
  PROVE  IInv'
<1> USE DEF Go, memory, enq, move, life, past
<1>0. TypeOK /\ Sound
  BY DEF IInv
<1>1. pc[t] = "copy" /\ Consuming(t)
  BY Steps DEF Copy, Consuming
<1>2. exp[t] = head /\ des[t].node = chain[2] /\ data[chain[2]] \in Values
  BY <1>0, <1>1, HeadIsBehind DEF Sound, OneConsumer
<1>3. /\ pc' = [pc EXCEPT ![t] = "swing"]
      /\ out' = [out EXCEPT ![t] = data[chain[2]]]
      /\ UNCHANGED <<memory, enq, move, exp, des, life, past>>
  BY <1>2 DEF Copy
<1>4. /\ pc'[t] = "swing" /\ out'[t] = data[chain[2]]
      /\ \A u \in Threads \ {t} : pc'[u] = pc[u] /\ out'[u] = out[u]
  BY <1>0, <1>3 DEF TypeOK
<1>5. Quiet(t)
  BY <1>1, <1>3, <1>4, Steps DEF Quiet, Uncounted, Reserving, Unlinked, Unfreed
<1>6. TypeOK'
  <2>1. pc' \in [Threads -> Labels]
    BY <1>0, <1>3, Steps DEF TypeOK
  <2>2. out' \in [Threads -> Values \cup {Null}]
    BY <1>0, <1>2, <1>3 DEF TypeOK
  <2> QED
    BY <1>0, <1>3, <2>1, <2>2 DEF TypeOK
<1>7. OneConsumer'
  BY <1>0, <1>1, <1>2, <1>3, <1>4, <1>5, QuietConsumer, Steps DEF Consuming
<1> QED
  BY <1>0, <1>1, <1>3, <1>4, <1>5, <1>6, <1>7, QuietKeeps, QuietDequeuing
     DEF IInv, Sound

-----------------------------------------------------------------------------
(* The steps on the counter.                                               *)

(* Such a step moves one thread between labels at which it has no node in  *)
(* its hands and nothing in its registers.                                 *)
EmptyHanded(l) == l \in {"idle", "count", "undo", "check"}

Counts(t) ==
  /\ UNCHANGED <<head, tail, next, data, held, move, deq, alive, walk, chain, recycled>>
  /\ EmptyHanded(pc[t]) /\ EmptyHanded(pc'[t])
  /\ \A u \in Threads \ {t} : /\ pc'[u] = pc[u] /\ val'[u] = val[u]
                              /\ node'[u] = node[u] /\ seen'[u] = seen[u]
                              /\ u \in stale' <=> u \in stale
  /\ Consuming(t)' /\ ~Consuming(t) => \A u \in Threads : ~Consuming(u)

LEMMA CountsKeeps ==
  ASSUME TypeOK, Sound, alive, NEW t \in Threads, Counts(t)
  PROVE  /\ ChainIsLinked' /\ EndsOfChain' /\ SeenIsPassed' /\ MoveKnowsTail'
         /\ TailIsPushed' /\ OneConsumer' /\ OwnNode' /\ ValueInHand'
         /\ HeldIsOwned' /\ ClearIsAlone'
<1>1. UNCHANGED <<head, tail, next, data, held, mine, ret, exp, des, out, alive, walk, chain>>
  BY DEF Counts, move, deq
<1>2. \A u \in Threads \ {t} : /\ pc'[u] = pc[u] /\ val'[u] = val[u]
                               /\ node'[u] = node[u] /\ seen'[u] = seen[u]
                               /\ u \in stale' <=> u \in stale
  BY DEF Counts
<1>3. /\ pc[t] \notin {"new", "tail", "link", "mtag", "mnode", "mnext", "mcas",
                       "head", "next", "copy", "swing", "delete"}
      /\ pc'[t] \notin {"new", "tail", "link", "mtag", "mnode", "mnext", "mcas",
                        "head", "next", "copy", "swing", "delete"}
  BY DEF Counts, EmptyHanded
<1>4. Last' = Last /\ LinkedNodes' = LinkedNodes
  BY <1>1 DEF Last, LinkedNodes
<1>5. Unlinked' = Unlinked /\ Unfreed' = Unfreed
  BY <1>1, <1>2, <1>3, Steps DEF Unlinked, Unfreed
<1>6. t \notin Unlinked /\ t \notin Unfreed
  BY <1>3, Steps DEF Unlinked, Unfreed
<1>7. ChainIsLinked' /\ EndsOfChain' /\ ClearIsAlone'
  BY <1>1, <1>4 DEF Sound, ChainIsLinked, EndsOfChain, Behind, ClearIsAlone
<1>8. SeenIsPassed'
  <2> SUFFICES ASSUME NEW u \in Threads, pc'[u] = "link"
               PROVE  /\ seen'[u] \in Nodes
                      /\ u \notin stale' =>
                           /\ \/ seen'[u] \in LinkedNodes
                              \/ \E w \in Unfreed : exp[w].node = seen'[u]
                           /\ seen'[u] = Last => tail.node = Last
    BY <1>1, <1>4, <1>5 DEF SeenIsPassed
  <2>1. u # t
    BY <1>3
  <2> QED
    BY <1>2, <2>1 DEF Sound, SeenIsPassed
<1>9. MoveKnowsTail'
  <2> SUFFICES ASSUME NEW u \in Threads
               PROVE  /\ pc'[u] \in MoveSteps => ret[u] \in {"tail", "count"}
                      /\ pc'[u] \in {"mnode", "mnext", "mcas"} => mine[u].tag <= tail.tag
                      /\ pc'[u] \in {"mnext", "mcas"} =>
                           /\ mine[u].node \in Nodes
                           /\ mine[u].tag = tail.tag => mine[u].node = tail.node
                      /\ pc'[u] = "mcas" =>
                           /\ mine[u].next \in Nodes
                           /\ mine[u].tag = tail.tag => mine[u].next = next[tail.node]
    BY <1>1 DEF MoveKnowsTail
  <2>1. CASE u = t
    BY <1>3, <2>1, Steps
  <2>2. CASE u # t
    BY <1>2, <2>2 DEF Sound, MoveKnowsTail
  <2> QED
    BY <2>1, <2>2
<1>10. TailIsPushed'
  <2> SUFFICES ASSUME tail.node # Last PROVE \E u \in Threads : Pushes(u)'
    BY <1>1, <1>4 DEF TailIsPushed
  <2>1. PICK u \in Threads : Pushes(u)
    BY DEF Sound, TailIsPushed
  <2>2. u # t
    BY <1>3, <2>1 DEF Pushes
  <2>3. Pushes(u)'
    BY <1>1, <1>2, <2>1, <2>2 DEF Pushes
  <2> QED
    BY <2>3
<1>11. OneConsumer'
  <2>1. \A u \in Threads \ {t} : Consuming(u)' <=> Consuming(u)
    BY <1>2 DEF Consuming
  <2>2. Consuming(t)' /\ ~Consuming(t) => \A u \in Threads : ~Consuming(u)
    BY DEF Counts
  <2>3. \A u, w \in Threads : Consuming(u) /\ Consuming(w) => w = u
    BY DEF Sound, OneConsumer
  <2>4. \A u, w \in Threads : Consuming(u)' /\ Consuming(w)' => w = u
    BY <2>1, <2>2, <2>3
  <2>5. ASSUME NEW u \in Threads
        PROVE  /\ pc'[u] \in {"next", "copy", "swing"} => exp[u] = head
               /\ pc'[u] \in {"copy", "swing"} => des[u].node = chain[2]
               /\ pc'[u] = "swing" => out[u] = data[chain[2]]
    <3>1. CASE u = t
      BY <1>3, <3>1
    <3>2. CASE u # t
      BY <1>2, <3>2 DEF Sound, OneConsumer
    <3> QED
      BY <3>1, <3>2
  <2> QED
    BY <1>1, <2>4, <2>5 DEF OneConsumer
<1>12. \A u \in Unlinked : node'[u] = node[u] /\ val'[u] = val[u]
  BY <1>2, <1>6 DEF Unlinked
<1>13. OwnNode'
  BY <1>1, <1>4, <1>5, <1>12 DEF Sound, OwnNode
<1>14. ValueInHand'
  BY <1>2, <1>3, <1>5, <1>12 DEF Sound, ValueInHand
<1>15. HeldIsOwned'
  BY <1>1, <1>4, <1>5, <1>12 DEF Sound, HeldIsOwned
<1> QED
  BY <1>7, <1>8, <1>9, <1>10, <1>11, <1>13, <1>14, <1>15

(* One thread more or less in a set of threads.                            *)
LEMMA OneMore ==
  ASSUME NEW S \in SUBSET Threads, NEW t \in Threads, t \notin S
  PROVE  /\ Cardinality(S \cup {t}) = Cardinality(S) + 1
         /\ Cardinality(S) \in Nat
BY QueueAssumption, FS_Subset, FS_AddElement, FS_CardinalityType

LEMMA AddCountKeeps ==
  ASSUME IInv, ~recycled, NEW t \in Threads, AddCount(t)
  PROVE  IInv'
<1> USE DEF AddCount, Go, move, deq, life
<1>0. TypeOK /\ Sound /\ alive
  BY StepIsAlive DEF IInv, Sound
<1>1. pc[t] = "count" /\ pc'[t] = "idle"
  BY <1>0 DEF TypeOK
<1>2. \A u \in Threads \ {t} : /\ pc'[u] = pc[u] /\ val'[u] = val[u]
                               /\ node'[u] = node[u] /\ seen'[u] = seen[u]
                               /\ u \in stale' <=> u \in stale
  BY <1>0 DEF TypeOK
<1>3. Counts(t)
  BY <1>1, <1>2, Steps DEF Counts, EmptyHanded, Consuming
<1>4. TypeOK'
  <2>1. pc' \in [Threads -> Labels] /\ count' \in Int /\ stale' \subseteq Threads
    BY <1>0, Steps DEF TypeOK
  <2>2. /\ val' \in [Threads -> Values \cup {Null}]
        /\ node' \in [Threads -> Nodes \cup {Null}]
        /\ seen' \in [Threads -> Nodes \cup {Null}]
    BY <1>0 DEF TypeOK
  <2> QED
    BY <1>0, <2>1, <2>2 DEF TypeOK
<1>5. Counting'
  <2>1. Reserving' = Reserving
    BY <1>1, <1>2, Steps DEF Reserving
  <2>2. Uncounted = Uncounted' \cup {t} /\ t \notin Uncounted' /\ Uncounted' \subseteq Threads
    BY <1>1, <1>2, Steps DEF Uncounted
  <2>3. Cardinality(Uncounted) = Cardinality(Uncounted') + 1 /\ Cardinality(Uncounted') \in Nat
    BY <2>2, OneMore
  <2>4. Cardinality(Reserving) \in Nat /\ count \in Int
    BY <1>0, CountedThreads DEF TypeOK
  <2>5. Len(chain) - 1 = count + Cardinality(Uncounted) + Cardinality(Reserving)
    BY <1>0 DEF Sound, Counting
  <2>6. Len(chain) - 1 = (count + 1) + Cardinality(Uncounted') + Cardinality(Reserving)
    BY <2>3, <2>4, <2>5
  <2> QED
    BY <2>1, <2>6 DEF Counting
<1>6. NotBelowZero'
  <2>1. count \in Int /\ count >= -1
    BY <1>0 DEF TypeOK, Sound, NotBelowZero
  <2>2. (\A u \in Threads : pc'[u] # "undo") => \A u \in Threads : pc[u] # "undo"
    BY <1>1, <1>2
  <2>3. (\A u \in Threads : pc[u] # "undo") => count >= 0
    BY <1>0 DEF Sound, NotBelowZero
  <2> QED
    BY <2>1, <2>2, <2>3 DEF NotBelowZero
<1> QED
  BY <1>0, <1>3, <1>4, <1>5, <1>6, CountsKeeps DEF IInv, Sound

LEMMA ReserveKeeps ==
  ASSUME IInv, ~recycled, NEW t \in Threads, Reserve(t)
  PROVE  IInv'
<1> USE DEF Go, enq, move, deq, life, past
<1>0. TypeOK /\ Sound /\ alive /\ count \in Int
  BY DEF IInv, Reserve, TypeOK
<1>1. /\ count' = count - 1
      /\ UNCHANGED <<head, tail, next, data, held, enq, move, deq, life, past>>
  BY DEF Reserve
<1>2. /\ pc[t] = "idle" /\ pc'[t] = (IF count <= 0 THEN "undo" ELSE "check")
      /\ \A u \in Threads \ {t} : pc'[u] = pc[u]
  BY <1>0 DEF Reserve, TypeOK
<1>3. \A u \in Threads : ~Consuming(u)
  BY DEF Reserve, Dequeuing, Consuming
<1>4. Counts(t)
  BY <1>1, <1>2, <1>3 DEF Counts, EmptyHanded
<1>5. TypeOK'
  <2>1. pc' \in [Threads -> Labels]
    BY <1>0, Steps DEF Reserve, TypeOK
  <2> QED
    BY <1>0, <1>1, <2>1 DEF TypeOK
<1>6. Counting'
  <2>1. Uncounted' = Uncounted
    BY <1>1, <1>2, Steps DEF Uncounted
  <2>2. Reserving' = Reserving \cup {t} /\ t \notin Reserving /\ Reserving \subseteq Threads
    BY <1>1, <1>2, Steps DEF Reserving
  <2>3. Cardinality(Reserving') = Cardinality(Reserving) + 1 /\ Cardinality(Reserving) \in Nat
    BY <2>2, OneMore
  <2>4. Cardinality(Uncounted) \in Nat
    BY CountedThreads
  <2>5. Len(chain) - 1 = count + Cardinality(Uncounted) + Cardinality(Reserving)
    BY <1>0 DEF Sound, Counting
  <2>6. Len(chain) - 1 = (count - 1) + Cardinality(Uncounted) + Cardinality(Reserving')
    BY <1>0, <2>3, <2>4, <2>5
  <2> QED
    BY <1>1, <2>1, <2>6 DEF Counting
<1>7. NotBelowZero'
  <2>1. \A u \in Threads : pc[u] # "undo"
    BY <1>3, Steps DEF Consuming
  <2>2. count >= 0
    BY <1>0, <2>1 DEF Sound, NotBelowZero
  <2>3. pc'[t] # "undo" => count > 0
    BY <1>0, <1>2
  <2> QED
    BY <1>0, <1>1, <2>2, <2>3 DEF NotBelowZero
<1> QED
  BY <1>0, <1>4, <1>5, <1>6, <1>7, CountsKeeps DEF IInv, Sound

LEMMA UndoKeeps ==
  ASSUME IInv, ~recycled, NEW t \in Threads, Undo(t)
  PROVE  IInv'
<1> USE DEF Undo, Go, enq, move, deq, life, past
<1>0. TypeOK /\ Sound /\ alive /\ count \in Int
  BY StepIsAlive DEF IInv, Sound, TypeOK
<1>1. /\ pc[t] = "undo" /\ pc'[t] = "idle"
      /\ \A u \in Threads \ {t} : pc'[u] = pc[u]
  BY <1>0 DEF TypeOK
<1>2. Counts(t)
  BY <1>1, Steps DEF Counts, EmptyHanded, Consuming
<1>3. TypeOK'
  <2>1. pc' \in [Threads -> Labels]
    BY <1>0, Steps DEF TypeOK
  <2> QED
    BY <1>0, <2>1 DEF TypeOK
<1>4. Counting'
  <2>1. Uncounted' = Uncounted
    BY <1>1, Steps DEF Uncounted
  <2>2. Reserving = Reserving' \cup {t} /\ t \notin Reserving' /\ Reserving' \subseteq Threads
    BY <1>1, Steps DEF Reserving
  <2>3. Cardinality(Reserving) = Cardinality(Reserving') + 1 /\ Cardinality(Reserving') \in Nat
    BY <2>2, OneMore
  <2>4. Cardinality(Uncounted) \in Nat
    BY CountedThreads
  <2>5. Len(chain) - 1 = count + Cardinality(Uncounted) + Cardinality(Reserving)
    BY <1>0 DEF Sound, Counting
  <2>6. Len(chain) - 1 = (count + 1) + Cardinality(Uncounted) + Cardinality(Reserving')
    BY <1>0, <2>3, <2>4, <2>5
  <2> QED
    BY <2>1, <2>6 DEF Counting
<1>5. NotBelowZero'
  BY <1>0 DEF Sound, NotBelowZero
<1> QED
  BY <1>0, <1>2, <1>3, <1>4, <1>5, CountsKeeps DEF IInv, Sound

-----------------------------------------------------------------------------
(* The exchange of moveTail: it moves a tail that is behind to the end, or *)
(* somebody else has moved it since.                                       *)
LEMMA MoveExchangeKeeps ==
  ASSUME IInv, ~recycled, NEW t \in Threads, MoveExchange(t)
  PROVE  IInv'
<1> USE DEF Go, enq, deq, life, past
<1>0. TypeOK /\ Sound /\ alive
  BY Steps, StepIsAlive DEF IInv, Sound, MoveExchange, MoveReturn
<1>1. /\ pc[t] = "mcas" /\ ret[t] \in {"tail", "count"}
      /\ mine[t].next \in Nodes /\ mine[t].tag <= tail.tag
      /\ mine[t].tag = tail.tag => /\ mine[t].node = tail.node
                                   /\ mine[t].next = next[tail.node]
  BY <1>0, Steps DEF Sound, MoveKnowsTail, MoveExchange, MoveReturn
<1>2. /\ pc'[t] = ret[t] /\ ret'[t] = "idle"
      /\ \A u \in Threads \ {t} : pc'[u] = pc[u] /\ ret'[u] = ret[u] /\ mine'[u] = mine[u]
  BY <1>0 DEF TypeOK, MoveExchange, MoveReturn
<1>3. UNCHANGED <<head, next, data, count, held, enq, deq, life, past>>
  BY DEF MoveExchange
<1>4. tail.node \in Nodes /\ tail.tag \in Nat /\ mine[t].tag \in Nat
  BY <1>0, ChainEnds DEF TypeOK, Pointer, Sound
<1>5. \/ mine[t].tag # tail.tag /\ tail' = tail
      \/ /\ mine[t].tag = tail.tag
         /\ tail' = [node |-> Last, tag |-> tail.tag + 1]
  <2>1. CASE mine[t].tag = tail.tag
    <3>1. tail = [node |-> mine[t].node, tag |-> mine[t].tag]
      BY <1>0, <1>1, <2>1 DEF TypeOK, Pointer
    <3>2. tail' = [node |-> mine[t].next, tag |-> tail.tag + 1]
      BY <2>1, <3>1 DEF MoveExchange
    <3>3. next[tail.node] # Null
      BY <1>1, <2>1, QueueAssumption
    <3>4. mine[t].next = Last
      BY <1>0, <1>1, <2>1, <3>3, ChainEnds DEF Sound
    <3> QED
      BY <2>1, <3>2, <3>4
  <2>2. CASE mine[t].tag # tail.tag
    BY <2>2 DEF MoveExchange
  <2> QED
    BY <2>1, <2>2
<1>6. /\ Uncounted' = Uncounted /\ Reserving' = Reserving
      /\ Unlinked' = Unlinked /\ Unfreed' = Unfreed
  BY <1>1, <1>2, SetsKept, Steps DEF Uncounted, Reserving, Unlinked, Unfreed
<1>7. Last' = Last /\ LinkedNodes' = LinkedNodes
  BY <1>3 DEF Last, LinkedNodes
<1>8. TypeOK'
  <2>1. pc' \in [Threads -> Labels]
    BY <1>0, <1>1, Steps DEF TypeOK, MoveExchange, MoveReturn
  <2>2. mine' \in [Threads -> MoveRecord]
    <3>1. Nowhere \in MoveRecord
      BY DEF Nowhere, MoveRecord
    <3>2. mine' = [mine EXCEPT ![t] = Nowhere] /\ mine \in [Threads -> MoveRecord]
      BY <1>0 DEF MoveExchange, MoveReturn, TypeOK, MoveRecord
    <3> QED
      BY <3>1, <3>2
  <2>3. ret' \in [Threads -> {"idle", "tail", "count", "swing"}]
    BY <1>0 DEF TypeOK, MoveExchange, MoveReturn
  <2>4. Last \in Nodes
    BY <1>0, ChainEnds DEF Sound
  <2>5. tail' \in Pointer
    BY <1>0, <1>4, <1>5, <2>4 DEF Pointer, TypeOK
  <2> QED
    BY <1>0, <1>3, <2>1, <2>2, <2>3, <2>5 DEF TypeOK, MoveRecord
<1>9. ChainIsLinked' /\ OwnNode' /\ HeldIsOwned' /\ Counting' /\ ClearIsAlone'
  BY <1>0, <1>3, <1>6, <1>7
  DEF Sound, ChainIsLinked, OwnNode, HeldIsOwned, Counting, ClearIsAlone
<1>10. EndsOfChain'
  BY <1>0, <1>3, <1>5, <1>7 DEF Sound, EndsOfChain, Behind
<1>11. SeenIsPassed'
  <2> SUFFICES ASSUME NEW u \in Threads, pc'[u] = "link"
               PROVE  /\ seen[u] \in Nodes
                      /\ u \notin stale =>
                           /\ \/ seen[u] \in LinkedNodes
                              \/ \E w \in Unfreed : exp[w].node = seen[u]
                           /\ seen[u] = Last => tail'.node = Last
    BY <1>3, <1>6, <1>7 DEF SeenIsPassed
  <2>1. u # t
    BY <1>1, <1>2
  <2>2. pc[u] = "link"
    BY <1>2, <2>1
  <2>3. tail.node = Last => tail'.node = Last
    BY <1>5
  <2> QED
    BY <1>0, <2>2, <2>3 DEF Sound, SeenIsPassed
<1>12. MoveKnowsTail'
  <2> SUFFICES ASSUME NEW u \in Threads
               PROVE  /\ pc'[u] \in MoveSteps => ret'[u] \in {"tail", "count"}
                      /\ pc'[u] \in {"mnode", "mnext", "mcas"} => mine'[u].tag <= tail'.tag
                      /\ pc'[u] \in {"mnext", "mcas"} =>
                           /\ mine'[u].node \in Nodes
                           /\ mine'[u].tag = tail'.tag => mine'[u].node = tail'.node
                      /\ pc'[u] = "mcas" =>
                           /\ mine'[u].next \in Nodes
                           /\ mine'[u].tag = tail'.tag => mine'[u].next = next[tail'.node]
    BY <1>3 DEF MoveKnowsTail
  <2>1. CASE u = t
    BY <1>1, <1>2, <2>1, Steps
  <2>2. CASE u # t
    <3>1. /\ pc[u] \in MoveSteps => ret[u] \in {"tail", "count"}
          /\ pc[u] \in {"mnode", "mnext", "mcas"} => mine[u].tag <= tail.tag
          /\ pc[u] \in {"mnext", "mcas"} =>
               /\ mine[u].node \in Nodes
               /\ mine[u].tag = tail.tag => mine[u].node = tail.node
          /\ pc[u] = "mcas" =>
               /\ mine[u].next \in Nodes
               /\ mine[u].tag = tail.tag => mine[u].next = next[tail.node]
      BY <1>0 DEF Sound, MoveKnowsTail
    <3>2. pc'[u] = pc[u] /\ ret'[u] = ret[u] /\ mine'[u] = mine[u]
      BY <1>2, <2>2
    <3>3. mine[u].tag \in Nat
      BY <1>0 DEF TypeOK
    <3>4. CASE tail' = tail
      BY <3>1, <3>2, <3>4
    <3>5. CASE tail' = [node |-> Last, tag |-> tail.tag + 1]
      <4>1. tail'.tag = tail.tag + 1
        BY <3>5
      <4>2. mine[u].tag <= tail.tag => mine[u].tag <= tail'.tag /\ mine[u].tag # tail'.tag
        BY <1>4, <3>3, <4>1
      <4> QED
        BY <3>1, <3>2, <4>2
    <3> QED
      BY <1>5, <3>4, <3>5
  <2> QED
    BY <2>1, <2>2
<1>13. TailIsPushed'
  <2> SUFFICES ASSUME tail'.node # Last PROVE \E u \in Threads : Pushes(u)'
    BY <1>7 DEF TailIsPushed
  <2>1. mine[t].tag # tail.tag /\ tail' = tail
    BY <1>5
  <2>2. PICK u \in Threads : Pushes(u)
    BY <1>0, <2>1 DEF Sound, TailIsPushed
  <2>3. u # t
    BY <1>1, <2>1, <2>2 DEF Pushes
  <2>4. Pushes(u)'
    BY <1>2, <2>1, <2>2, <2>3 DEF Pushes
  <2> QED
    BY <2>4
<1>14. OneConsumer' /\ NotBelowZero'
  <2>1. \A u \in Threads : Consuming(u)' <=> Consuming(u)
    BY <1>1, <1>2, Steps DEF Consuming
  <2>2. \A u \in Threads : pc'[u] \in {"undo", "next", "copy", "swing"} => pc'[u] = pc[u]
    BY <1>1, <1>2
  <2>3. \A u, w \in Threads : Consuming(u)' /\ Consuming(w)' => w = u
    BY <1>0, <2>1 DEF Sound, OneConsumer
  <2>4. ASSUME NEW u \in Threads
        PROVE  /\ pc'[u] \in {"next", "copy", "swing"} => exp[u] = head
               /\ pc'[u] \in {"copy", "swing"} => des[u].node = chain[2]
               /\ pc'[u] = "swing" => out[u] = data[chain[2]]
    BY <1>0, <2>2 DEF Sound, OneConsumer
  <2>5. OneConsumer'
    BY <1>3, <2>3, <2>4 DEF OneConsumer
  <2>6. (\A u \in Threads : pc'[u] # "undo") => \A u \in Threads : pc[u] # "undo"
    BY <1>1, <1>2
  <2>7. NotBelowZero'
    BY <1>0, <1>3, <2>6 DEF Sound, NotBelowZero
  <2> QED
    BY <2>5, <2>7
<1>15. ValueInHand'
  <2>1. \A u \in Threads : pc'[u] = "new" => pc[u] = "new"
    BY <1>1, <1>2
  <2> QED
    BY <1>0, <1>3, <1>6, <2>1 DEF Sound, ValueInHand
<1> QED
  BY <1>8, <1>9, <1>10, <1>11, <1>12, <1>13, <1>14, <1>15 DEF IInv, Sound

-----------------------------------------------------------------------------
(* A new node, which nobody else has.                                      *)
LEMMA NewNodeKeeps ==
  ASSUME IInv, ~recycled, NEW t \in Threads, NewNode(t)
  PROVE  IInv'
<1> USE DEF Go, move, deq, life, past
<1>0. TypeOK /\ Sound /\ alive
  BY StepIsAlive DEF IInv, Sound, NewNode
<1>1. PICK n \in Nodes :
        /\ held[n] = 0
        /\ held' = [held EXCEPT ![n] = 1]
        /\ data' = [data EXCEPT ![n] = val[t]]
        /\ next' = [next EXCEPT ![n] = Null]
        /\ node' = [node EXCEPT ![t] = n]
  BY DEF NewNode
<1>2. /\ pc[t] = "new" /\ pc' = [pc EXCEPT ![t] = "tail"]
      /\ UNCHANGED <<head, tail, count, val, seen, move, deq, life, past>>
  BY DEF NewNode
<1>3. /\ pc'[t] = "tail" /\ node'[t] = n
      /\ \A u \in Threads \ {t} : pc'[u] = pc[u] /\ node'[u] = node[u]
  BY <1>0, <1>1, <1>2 DEF TypeOK
<1>4. /\ held'[n] = 1 /\ data'[n] = val[t] /\ next'[n] = Null
      /\ \A m \in Nodes \ {n} : held'[m] = held[m] /\ data'[m] = data[m] /\ next'[m] = next[m]
  BY <1>0, <1>1 DEF TypeOK
<1>5. /\ n \notin LinkedNodes
      /\ \A u \in Unlinked : node[u] # n
      /\ \A u \in Unfreed : exp[u].node # n
  BY <1>0, <1>1 DEF Sound, HeldIsOwned
<1>6. /\ Unlinked' = Unlinked \cup {t} /\ t \notin Unlinked /\ t \notin Unfreed
      /\ Uncounted' = Uncounted /\ Reserving' = Reserving /\ Unfreed' = Unfreed
  BY <1>2, <1>3, SetsKept, Steps DEF Uncounted, Reserving, Unlinked, Unfreed
<1>7. Last' = Last /\ LinkedNodes' = LinkedNodes
  BY <1>2 DEF Last, LinkedNodes
<1>8. Len(chain) \in Nat /\ \A i \in 1..Len(chain) : chain[i] \in Nodes \ {n}
  BY <1>0, <1>5, ChainTypes DEF LinkedNodes
<1>9. TypeOK'
  <2>1. pc' \in [Threads -> Labels]
    BY <1>0, <1>2, Steps DEF TypeOK
  <2>2. /\ held' \in [Nodes -> 0..1] /\ data' \in [Nodes -> Values \cup {Null}]
        /\ next' \in [Nodes -> Nodes \cup {Null}]
        /\ node' \in [Threads -> Nodes \cup {Null}]
    <3>1. 1 \in 0..1 /\ val[t] \in Values \cup {Null}
      BY <1>0 DEF TypeOK
    <3> QED
      BY <1>0, <1>1, <3>1 DEF TypeOK
  <2> QED
    BY <1>0, <1>2, <2>1, <2>2 DEF TypeOK
<1>10. ChainIsLinked'
  <2>1. chain # << >> /\ Last \in Nodes \ {n} /\ next[Last] = Null
    BY <1>0, <1>5, ChainEnds DEF Sound
  <2>2. \A i \in 1..(Len(chain) - 1) : next'[chain[i]] = chain[i + 1]
    <3> TAKE i \in 1..(Len(chain) - 1)
    <3>1. i \in 1..Len(chain)
      BY <1>8
    <3> QED
      BY <1>0, <1>4, <1>8, <3>1 DEF Sound, ChainIsLinked
  <2>3. \A i \in 2..Len(chain) : data'[chain[i]] \in Values
    <3> TAKE i \in 2..Len(chain)
    <3>1. i \in 1..Len(chain)
      BY <1>8
    <3> QED
      BY <1>0, <1>4, <1>8, <3>1 DEF Sound, ChainIsLinked
  <2>4. next'[Last] = Null
    BY <1>4, <2>1
  <2>5. \A i, j \in 1..Len(chain) : chain[i] = chain[j] => i = j
    BY <1>0 DEF Sound, ChainIsLinked
  <2> QED
    BY <1>2, <1>7, <2>1, <2>2, <2>3, <2>4, <2>5 DEF ChainIsLinked
<1>11. EndsOfChain' /\ ClearIsAlone'
  BY <1>0, <1>2, <1>7 DEF Sound, EndsOfChain, Behind, ClearIsAlone
<1>12. SeenIsPassed'
  <2>1. \A u \in Threads : pc'[u] = "link" => pc[u] = "link"
    BY <1>3
  <2> QED
    BY <1>0, <1>2, <1>6, <1>7, <2>1 DEF Sound, SeenIsPassed
<1>13. MoveKnowsTail' /\ TailIsPushed'
  <2>1. tail.node \in Nodes \ {n}
    BY <1>0, <1>5, ChainEnds DEF Sound
  <2>2. next'[tail.node] = next[tail.node]
    BY <1>4, <2>1
  <2>3. \A u \in Threads : pc'[u] \in MoveSteps => pc'[u] = pc[u]
    BY <1>3, Steps
  <2>4. MoveKnowsTail'
    <3> SUFFICES ASSUME NEW u \in Threads
                 PROVE  /\ pc'[u] \in MoveSteps => ret[u] \in {"tail", "count"}
                        /\ pc'[u] \in {"mnode", "mnext", "mcas"} => mine[u].tag <= tail.tag
                        /\ pc'[u] \in {"mnext", "mcas"} =>
                             /\ mine[u].node \in Nodes
                             /\ mine[u].tag = tail.tag => mine[u].node = tail.node
                        /\ pc'[u] = "mcas" =>
                             /\ mine[u].next \in Nodes
                             /\ mine[u].tag = tail.tag => mine[u].next = next[tail.node]
      BY <1>2, <2>2 DEF MoveKnowsTail
    <3>1. pc'[u] \in MoveSteps => pc'[u] = pc[u]
      BY <2>3
    <3> QED
      BY <1>0, <3>1, Steps DEF Sound, MoveKnowsTail
  <2>5. \A u \in Threads : Pushes(u) => Pushes(u)'
    BY <1>2, <1>3 DEF Pushes
  <2>6. TailIsPushed'
    BY <1>0, <1>2, <1>7, <2>5 DEF Sound, TailIsPushed
  <2> QED
    BY <2>4, <2>6
<1>14. OneConsumer' /\ NotBelowZero'
  <2>1. \A u \in Threads : Consuming(u)' <=> Consuming(u)
    BY <1>2, <1>3, Steps DEF Consuming
  <2>2. \A u \in Threads : pc'[u] \in {"next", "copy", "swing"} => pc'[u] = pc[u]
    BY <1>3
  <2>3. \A u, w \in Threads : Consuming(u)' /\ Consuming(w)' => w = u
    BY <1>0, <2>1 DEF Sound, OneConsumer
  <2>4. ASSUME NEW u \in Threads
        PROVE  /\ pc'[u] \in {"next", "copy", "swing"} => exp[u] = head
               /\ pc'[u] \in {"copy", "swing"} => des[u].node = chain[2]
               /\ pc'[u] = "swing" => out[u] = data'[chain[2]]
    <3>1. ASSUME pc'[u] = "swing" PROVE out[u] = data'[chain[2]]
      <4>1. Consuming(u) /\ pc[u] = "swing"
        BY <2>2, <3>1, Steps DEF Consuming
      <4>2. Len(chain) >= 2
        BY <1>0, <4>1, HeadIsBehind
      <4>3. chain[2] \in Nodes \ {n}
        BY <1>8, <4>2
      <4> QED
        BY <1>0, <1>4, <4>1, <4>3 DEF Sound, OneConsumer
    <3> QED
      BY <1>0, <2>2, <3>1 DEF Sound, OneConsumer
  <2>5. OneConsumer'
    BY <1>2, <2>3, <2>4 DEF OneConsumer
  <2>6. (\A u \in Threads : pc'[u] # "undo") => \A u \in Threads : pc[u] # "undo"
    BY <1>2, <1>3
  <2>7. NotBelowZero'
    BY <1>0, <1>2, <2>6 DEF Sound, NotBelowZero
  <2> QED
    BY <2>5, <2>7
<1>15. Counting'
  BY <1>0, <1>2, <1>6 DEF Sound, Counting
<1>16. OwnNode'
  <2>1. ASSUME NEW u \in Unlinked'
        PROVE  /\ node'[u] \in Nodes /\ node'[u] \notin LinkedNodes
               /\ next'[node'[u]] = Null
               /\ data'[node'[u]] = val[u]
               /\ \A w \in Unlinked' : node'[w] = node'[u] => w = u
    <3>1. \A w \in Unlinked : w # t /\ node'[w] = node[w] /\ node[w] # n
      BY <1>3, <1>5, <1>6 DEF Unlinked
    <3>2. CASE u = t
      BY <1>3, <1>4, <1>5, <1>6, <3>1, <3>2
    <3>3. CASE u # t
      <4>1. /\ u \in Unlinked /\ node[u] \in Nodes /\ node[u] \notin LinkedNodes
            /\ next[node[u]] = Null /\ data[node[u]] = val[u]
            /\ \A w \in Unlinked : node[w] = node[u] => w = u
        BY <1>0, <1>6, <3>3 DEF Sound, OwnNode
      <4>2. \A w \in Unlinked' : node'[w] = node'[u] => w = u
        BY <1>3, <1>6, <3>1, <4>1
      <4> QED
        BY <1>4, <3>1, <4>1, <4>2
    <3> QED
      BY <3>2, <3>3
  <2>2. ASSUME NEW u \in Unfreed
        PROVE  /\ exp[u].node \in Nodes /\ exp[u].node \notin LinkedNodes
               /\ next'[exp[u].node] # Null
               /\ \A w \in Unlinked' : node'[w] # exp[u].node
    <3>1. /\ exp[u].node \in Nodes /\ exp[u].node \notin LinkedNodes
          /\ next[exp[u].node] # Null
          /\ \A w \in Unlinked : node[w] # exp[u].node
      BY <1>0 DEF Sound, OwnNode
    <3>2. exp[u].node # n
      BY <1>5
    <3>3. \A w \in Unlinked : node'[w] = node[w]
      BY <1>3, <1>6 DEF Unlinked
    <3> QED
      BY <1>3, <1>4, <1>6, <3>1, <3>2, <3>3
  <2> QED
    BY <1>2, <1>6, <1>7, <2>1, <2>2 DEF OwnNode
<1>17. ValueInHand'
  <2>1. \A u \in Threads : pc'[u] = "new" => pc[u] = "new"
    BY <1>3
  <2> QED
    BY <1>0, <1>2, <1>6, <2>1 DEF Sound, ValueInHand
<1>18. HeldIsOwned'
  <2> SUFFICES ASSUME NEW m \in Nodes
               PROVE  held'[m] = 1 <=> \/ m \in LinkedNodes
                                       \/ \E u \in Unlinked' : node'[u] = m
                                       \/ \E u \in Unfreed : exp[u].node = m
    BY <1>2, <1>6, <1>7 DEF HeldIsOwned
  <2>1. \A u \in Unlinked : node'[u] = node[u]
    BY <1>3, <1>6 DEF Unlinked
  <2>2. CASE m = n
    BY <1>3, <1>4, <1>6, <2>2
  <2>3. CASE m # n
    <3>1. (\E u \in Unlinked' : node'[u] = m) <=> \E u \in Unlinked : node[u] = m
      BY <1>3, <1>6, <2>1, <2>3
    <3> QED
      BY <1>0, <1>4, <2>3, <3>1 DEF Sound, HeldIsOwned
  <2> QED
    BY <2>2, <2>3
<1> QED
  BY <1>9, <1>10, <1>11, <1>12, <1>13, <1>14, <1>15, <1>16, <1>17, <1>18
     DEF IInv, Sound

-----------------------------------------------------------------------------
(* The link exchange.                                                      *)

(* A successful exchange through a pointer that is not stale appends to    *)
(* the end, and finds the tail there.                                      *)
LEMMA LinkAppends ==
  ASSUME TypeOK, Sound, NEW t \in Threads, pc[t] = "link", t \notin stale,
         next[seen[t]] = Null
  PROVE  seen[t] = Last /\ tail.node = Last
<1>0. alive /\ seen[t] \in Nodes
  BY StepIsAlive DEF Sound, SeenIsPassed
<1>1. seen[t] \in LinkedNodes
  <2>1. seen[t] \in LinkedNodes \/ \E u \in Unfreed : exp[u].node = seen[t]
    BY DEF Sound, SeenIsPassed
  <2>2. \A u \in Unfreed : exp[u].node # seen[t]
    BY DEF Sound, OwnNode
  <2> QED
    BY <2>1, <2>2
<1>2. PICK i \in 1..Len(chain) : seen[t] = chain[i]
  BY <1>1 DEF LinkedNodes
<1>3. Len(chain) \in Nat /\ \A j \in 1..Len(chain) : chain[j] # Null
  BY ChainTypes
<1>4. i = Len(chain)
  <2> SUFFICES ASSUME i # Len(chain) PROVE FALSE
    OBVIOUS
  <2>1. i \in 1..(Len(chain) - 1) /\ i + 1 \in 1..Len(chain)
    BY <1>3
  <2>2. next[seen[t]] = chain[i + 1]
    BY <1>2, <2>1 DEF Sound, ChainIsLinked
  <2> QED
    BY <1>3, <2>1, <2>2
<1>5. seen[t] = Last
  BY <1>2, <1>4 DEF Last
<1> QED
  BY <1>5 DEF Sound, SeenIsPassed

(* A node more at the end.                                                 *)
LEMMA Longer ==
  ASSUME TypeOK, NEW n \in Nodes, chain' = Append(chain, n)
  PROVE  /\ Len(chain) \in Nat /\ Len(chain') = Len(chain) + 1
         /\ \A i \in 1..Len(chain) : chain'[i] = chain[i]
         /\ chain'[Len(chain) + 1] = n
         /\ Last' = n
         /\ LinkedNodes' = LinkedNodes \cup {n}
         /\ chain' \in Seq(Nodes)
<1>1. chain \in Seq(Nodes) /\ Len(chain) \in Nat
  BY DEF TypeOK
<1>2. chain' \in Seq(Nodes) /\ Len(chain') = Len(chain) + 1
  BY <1>1, AppendProperties
<1>3. \A i \in 1..Len(chain) : chain'[i] = chain[i]
  BY <1>1, AppendProperties
<1>4. chain'[Len(chain) + 1] = n
  BY <1>1, AppendProperties
<1>5. Last' = n
  BY <1>2, <1>4 DEF Last
<1>6. LinkedNodes' = LinkedNodes \cup {n}
  <2>1. \A x : x \in LinkedNodes' => x \in LinkedNodes \cup {n}
    <3> TAKE x
    <3> HAVE x \in LinkedNodes'
    <3>1. PICK i \in 1..(Len(chain) + 1) : x = chain'[i]
      BY <1>2 DEF LinkedNodes
    <3>2. CASE i = Len(chain) + 1
      BY <1>4, <3>1, <3>2
    <3>3. CASE i # Len(chain) + 1
      <4>1. i \in 1..Len(chain)
        BY <1>1, <3>3
      <4> QED
        BY <1>3, <3>1, <4>1 DEF LinkedNodes
    <3> QED
      BY <3>2, <3>3
  <2>2. \A x : x \in LinkedNodes => x \in LinkedNodes'
    <3> TAKE x
    <3> HAVE x \in LinkedNodes
    <3>1. PICK i \in 1..Len(chain) : x = chain[i]
      BY DEF LinkedNodes
    <3>2. i \in 1..Len(chain')
      BY <1>1, <1>2
    <3> QED
      BY <1>3, <3>1, <3>2 DEF LinkedNodes
  <2>3. Len(chain) + 1 \in 1..Len(chain')
    BY <1>1, <1>2
  <2>4. n \in LinkedNodes'
    BY <1>4, <2>3 DEF LinkedNodes
  <2> QED
    BY <2>1, <2>2, <2>4
<1> QED
  BY <1>1, <1>2, <1>3, <1>4, <1>5, <1>6

(* The exchange fails: the thread moves the tail and starts again.         *)
LEMMA LinkFails ==
  ASSUME IInv, ~recycled, NEW t \in Threads, Link(t), next[seen[t]] # Null
  PROVE  IInv'
<1> USE DEF Go, memory, enq, deq, life
<1>0. TypeOK /\ Sound /\ alive
  BY StepIsAlive DEF IInv, Sound, Link
<1>1. /\ pc[t] = "link" /\ pc' = [pc EXCEPT ![t] = "mtag"]
      /\ ret' = [ret EXCEPT ![t] = "tail"]
      /\ UNCHANGED <<head, tail, next, data, count, held, enq, deq, life, mine,
                     taken, chain, stale, recycled>>
  BY DEF Link, CallMoveTail
<1>2. /\ pc'[t] = "mtag" /\ ret'[t] = "tail"
      /\ \A u \in Threads \ {t} : pc'[u] = pc[u] /\ ret'[u] = ret[u]
  BY <1>0, <1>1 DEF TypeOK
<1>3. Quiet(t)
  BY <1>1, <1>2, Steps DEF Quiet, Uncounted, Reserving, Unlinked, Unfreed
<1>4. TypeOK'
  <2>1. pc' \in [Threads -> Labels]
    BY <1>0, <1>1, Steps DEF TypeOK
  <2>2. ret' \in [Threads -> {"idle", "tail", "count", "swing"}]
    BY <1>0, <1>1 DEF TypeOK
  <2> QED
    BY <1>0, <1>1, <2>1, <2>2 DEF TypeOK
<1>5. SeenIsPassed'
  BY <1>0, <1>1, <1>2, <1>3, QuietSeen
<1>6. MoveKnowsTail' /\ TailIsPushed'
  BY <1>0, <1>1, <1>2, <1>3, QuietMove DEF Pushes
<1>7. OneConsumer'
  BY <1>0, <1>1, <1>2, <1>3, QuietConsumer, Steps DEF Consuming
<1>8. t \in Unlinked => val'[t] \in Values
  BY <1>0, <1>1 DEF Sound, ValueInHand
<1>9. ValueInHand' /\ ClearIsAlone'
  BY <1>0, <1>2, <1>3, <1>8, QuietHands
<1> QED
  BY <1>0, <1>3, <1>4, <1>5, <1>6, <1>7, <1>9, QuietKeeps DEF IInv, Sound

(* The exchange succeeds.                                                  *)
LEMMA LinkSucceeds ==
  ASSUME IInv, ~recycled, NEW t \in Threads, Link(t), next[seen[t]] = Null
  PROVE  IInv'
<1> USE DEF Go, enq, deq, life
<1>0. TypeOK /\ Sound /\ alive
  BY StepIsAlive DEF IInv, Sound, Link
<1>1. /\ pc[t] = "link" /\ pc' = [pc EXCEPT ![t] = "mtag"]
      /\ ret' = [ret EXCEPT ![t] = "count"]
      /\ next' = [next EXCEPT ![seen[t]] = node[t]]
      /\ chain' = Append(chain, node[t])
      /\ recycled' = (recycled \/ t \in stale)
      /\ UNCHANGED <<head, tail, data, count, held, enq, deq, life, mine, taken, stale>>
  BY DEF Link, CallMoveTail
<1>2. /\ pc'[t] = "mtag" /\ ret'[t] = "count"
      /\ \A u \in Threads \ {t} : pc'[u] = pc[u] /\ ret'[u] = ret[u]
  BY <1>0, <1>1 DEF TypeOK
<1>3. /\ t \in Unlinked /\ seen[t] \in Nodes
      /\ node[t] \in Nodes /\ node[t] \notin LinkedNodes
      /\ next[node[t]] = Null /\ data[node[t]] = val[t] /\ val[t] \in Values
      /\ \A u \in Unlinked : node[u] = node[t] => u = t
      /\ \A u \in Unfreed : node[t] # exp[u].node
  BY <1>0, <1>1 DEF Unlinked, Sound, OwnNode, SeenIsPassed, ValueInHand
<1>4. TypeOK'
  <2>1. pc' \in [Threads -> Labels]
    BY <1>0, <1>1, Steps DEF TypeOK
  <2>2. ret' \in [Threads -> {"idle", "tail", "count", "swing"}]
    BY <1>0, <1>1 DEF TypeOK
  <2>3. next' \in [Nodes -> Nodes \cup {Null}]
    BY <1>0, <1>1, <1>3 DEF TypeOK
  <2>4. chain' \in Seq(Nodes)
    BY <1>0, <1>1, <1>3, Longer
  <2>5. recycled' \in BOOLEAN
    BY <1>0, <1>1 DEF TypeOK
  <2> QED
    BY <1>0, <1>1, <2>1, <2>2, <2>3, <2>4, <2>5 DEF TypeOK
<1> SUFFICES ASSUME ~recycled' PROVE Sound'
  BY <1>4 DEF IInv
<1>5. seen[t] = Last /\ tail.node = Last
  BY <1>0, <1>1, LinkAppends
<1>6. /\ Len(chain) \in Nat /\ Len(chain') = Len(chain) + 1
      /\ \A i \in 1..Len(chain) : chain'[i] = chain[i]
      /\ chain'[Len(chain) + 1] = node[t]
      /\ Last' = node[t]
      /\ LinkedNodes' = LinkedNodes \cup {node[t]}
      /\ chain' \in Seq(Nodes)
  BY <1>0, <1>1, <1>3, Longer
<1>7. Len(chain) >= 1 /\ Last \in Nodes /\ Last \in LinkedNodes
  BY <1>0, ChainEnds DEF Sound
<1>8. \A i \in 1..Len(chain) : chain[i] \in LinkedNodes /\ chain[i] \in Nodes
  BY <1>0, ChainTypes DEF LinkedNodes
<1>9. next'[Last] = node[t] /\ \A m \in Nodes : m # Last => next'[m] = next[m]
  BY <1>0, <1>1, <1>5, <1>7 DEF TypeOK
<1>10. /\ Uncounted' = Uncounted \cup {t} /\ t \notin Uncounted
       /\ Unlinked = Unlinked' \cup {t} /\ ~(t \in Unlinked')
       /\ Reserving' = Reserving /\ Unfreed' = Unfreed /\ t \notin Unfreed
  <2>1. /\ t \notin Uncounted /\ (t \in Uncounted)' /\ ~(t \in Unlinked)'
        /\ t \notin Reserving /\ ~(t \in Reserving)'
        /\ t \notin Unfreed /\ ~(t \in Unfreed)'
    BY <1>1, <1>2, Steps DEF Uncounted, Reserving, Unlinked, Unfreed
  <2>2. Reserving' = Reserving /\ Unfreed' = Unfreed
    BY <1>2, <2>1, SetsKept
  <2>3. \A u \in Threads \ {t} : /\ (u \in Uncounted)' <=> u \in Uncounted
                                 /\ (u \in Unlinked)' <=> u \in Unlinked
    BY <1>2 DEF Uncounted, Unlinked
  <2>4. /\ Uncounted \subseteq Threads /\ Uncounted' \subseteq Threads
        /\ Unlinked \subseteq Threads /\ Unlinked' \subseteq Threads
    BY DEF Uncounted, Unlinked
  <2>5. Uncounted' = Uncounted \cup {t}
    BY <2>1, <2>3, <2>4
  <2>6. Unlinked = Unlinked' \cup {t}
    BY <1>3, <2>1, <2>3, <2>4
  <2> QED
    BY <2>1, <2>2, <2>5, <2>6
<1>11. ChainIsLinked'
  <2>1. \A i, j \in 1..Len(chain') : chain'[i] = chain'[j] => i = j
    <3> TAKE i, j \in 1..Len(chain')
    <3>1. i \in 1..Len(chain) \/ i = Len(chain) + 1
      BY <1>6
    <3>2. j \in 1..Len(chain) \/ j = Len(chain) + 1
      BY <1>6
    <3>3. CASE i \in 1..Len(chain) /\ j \in 1..Len(chain)
      BY <1>0, <1>6, <3>3 DEF Sound, ChainIsLinked
    <3>4. CASE i = Len(chain) + 1 \/ j = Len(chain) + 1
      BY <1>3, <1>6, <1>8, <3>1, <3>2, <3>4
    <3> QED
      BY <3>1, <3>2, <3>3, <3>4
  <2>2. \A i \in 1..(Len(chain') - 1) : next'[chain'[i]] = chain'[i + 1]
    <3> TAKE i \in 1..(Len(chain') - 1)
    <3>0. i \in 1..Len(chain) /\ chain'[i] = chain[i]
      BY <1>6
    <3>1. CASE i = Len(chain)
      BY <1>6, <1>9, <3>0, <3>1 DEF Last
    <3>2. CASE i # Len(chain)
      <4>1. i \in 1..(Len(chain) - 1) /\ i + 1 \in 1..Len(chain) /\ Len(chain) \in 1..Len(chain)
        BY <1>6, <1>7, <3>0, <3>2
      <4>2. next[chain[i]] = chain[i + 1]
        BY <1>0, <4>1 DEF Sound, ChainIsLinked
      <4>3. chain[i] # Last
        BY <1>0, <3>0, <3>2, <4>1 DEF Sound, ChainIsLinked, Last
      <4>4. chain[i] \in Nodes
        BY <1>8, <3>0
      <4>5. next'[chain[i]] = chain[i + 1]
        BY <1>9, <4>2, <4>3, <4>4
      <4> QED
        BY <1>6, <3>0, <4>1, <4>5
    <3> QED
      BY <3>1, <3>2
  <2>3. next'[Last'] = Null
    BY <1>3, <1>6, <1>7, <1>9
  <2>4. \A i \in 2..Len(chain') : data'[chain'[i]] \in Values
    <3> TAKE i \in 2..Len(chain')
    <3>1. CASE i = Len(chain) + 1
      BY <1>1, <1>3, <1>6, <3>1
    <3>2. CASE i # Len(chain) + 1
      <4>1. i \in 2..Len(chain) /\ i \in 1..Len(chain)
        BY <1>6, <3>2
      <4> QED
        BY <1>0, <1>1, <1>6, <4>1 DEF Sound, ChainIsLinked
    <3> QED
      BY <3>1, <3>2
  <2>5. chain' # << >>
    BY <1>6
  <2> QED
    BY <2>1, <2>2, <2>3, <2>4, <2>5 DEF ChainIsLinked
<1>12. EndsOfChain'
  <2>1. head'.node = chain'[1]
    <3>1. 1 \in 1..Len(chain)
      BY <1>6, <1>7
    <3> QED
      BY <1>0, <1>1, <1>6, <3>1 DEF Sound, EndsOfChain
  <2>2. tail'.node = chain'[Len(chain') - 1] /\ Len(chain') > 1
    <3>1. Len(chain) \in 1..Len(chain) /\ Len(chain') - 1 = Len(chain) /\ Len(chain') > 1
      BY <1>6, <1>7
    <3> QED
      BY <1>1, <1>5, <1>6, <3>1 DEF Last
  <2> QED
    BY <2>1, <2>2 DEF EndsOfChain, Behind
<1>13. SeenIsPassed'
  <2> SUFFICES ASSUME NEW u \in Threads, pc'[u] = "link"
               PROVE  /\ seen[u] \in Nodes
                      /\ u \notin stale =>
                           /\ \/ seen[u] \in LinkedNodes'
                              \/ \E w \in Unfreed : exp[w].node = seen[u]
                           /\ seen[u] = Last' => tail.node = Last'
    BY <1>1, <1>10 DEF SeenIsPassed
  <2>1. pc[u] = "link"
    BY <1>2
  <2>2. /\ seen[u] \in Nodes
        /\ u \notin stale => \/ seen[u] \in LinkedNodes
                             \/ \E w \in Unfreed : exp[w].node = seen[u]
    BY <1>0, <2>1 DEF Sound, SeenIsPassed
  <2>3. u \notin stale => seen[u] # node[t]
    BY <1>3, <2>2
  <2> QED
    BY <1>6, <2>2, <2>3
<1>14. MoveKnowsTail'
  <2> SUFFICES ASSUME NEW u \in Threads
               PROVE  /\ pc'[u] \in MoveSteps => ret'[u] \in {"tail", "count"}
                      /\ pc'[u] \in {"mnode", "mnext", "mcas"} => mine[u].tag <= tail.tag
                      /\ pc'[u] \in {"mnext", "mcas"} =>
                           /\ mine[u].node \in Nodes
                           /\ mine[u].tag = tail.tag => mine[u].node = tail.node
                      /\ pc'[u] = "mcas" =>
                           /\ mine[u].next \in Nodes
                           /\ mine[u].tag = tail.tag => mine[u].next = next'[tail.node]
    BY <1>1 DEF MoveKnowsTail
  <2>1. CASE u = t
    BY <1>2, <2>1
  <2>2. CASE u # t
    <3>1. pc'[u] = pc[u] /\ ret'[u] = ret[u]
      BY <1>2, <2>2
    <3>2. next[tail.node] = Null
      BY <1>5
    <3>3. pc[u] = "mcas" => mine[u].tag # tail.tag
      BY <1>0, <3>2, QueueAssumption DEF Sound, MoveKnowsTail
    <3> QED
      BY <1>0, <3>1, <3>3 DEF Sound, MoveKnowsTail
  <2> QED
    BY <2>1, <2>2
<1>15. TailIsPushed'
  BY <1>2 DEF TailIsPushed, Pushes
<1>16. OneConsumer' /\ NotBelowZero'
  <2>1. \A u \in Threads : Consuming(u)' <=> Consuming(u)
    BY <1>1, <1>2, Steps DEF Consuming
  <2>2. \A u \in Threads : pc'[u] \in {"next", "copy", "swing"} => pc'[u] = pc[u]
    BY <1>2
  <2>3. \A u, w \in Threads : Consuming(u)' /\ Consuming(w)' => w = u
    BY <1>0, <2>1 DEF Sound, OneConsumer
  <2>4. ASSUME NEW u \in Threads
        PROVE  /\ pc'[u] \in {"next", "copy", "swing"} => exp[u] = head
               /\ pc'[u] \in {"copy", "swing"} => des[u].node = chain'[2]
               /\ pc'[u] = "swing" => out[u] = data[chain'[2]]
    <3>1. ASSUME pc'[u] \in {"copy", "swing"} PROVE chain'[2] = chain[2]
      <4>1. Consuming(u) /\ pc[u] \in {"copy", "swing"}
        BY <2>2, <3>1, Steps DEF Consuming
      <4>2. Len(chain) >= 2
        BY <1>0, <4>1, HeadIsBehind
      <4>3. 2 \in 1..Len(chain)
        BY <1>6, <4>2
      <4> QED
        BY <1>6, <4>3
    <3> QED
      BY <1>0, <2>2, <3>1 DEF Sound, OneConsumer
  <2>5. OneConsumer'
    BY <1>1, <2>3, <2>4 DEF OneConsumer
  <2>6. (\A u \in Threads : pc'[u] # "undo") => \A u \in Threads : pc[u] # "undo"
    BY <1>1, <1>2
  <2>7. NotBelowZero'
    BY <1>0, <1>1, <2>6 DEF Sound, NotBelowZero
  <2> QED
    BY <2>5, <2>7
<1>17. Counting'
  <2>1. Uncounted \in SUBSET Threads
    BY DEF Uncounted
  <2>2. Cardinality(Uncounted') = Cardinality(Uncounted) + 1 /\ Cardinality(Uncounted) \in Nat
    BY <1>10, <2>1, OneMore
  <2>3. Cardinality(Reserving) \in Nat /\ count \in Int
    BY <1>0, CountedThreads DEF TypeOK
  <2>4. Len(chain) - 1 = count + Cardinality(Uncounted) + Cardinality(Reserving)
    BY <1>0 DEF Sound, Counting
  <2>5. Len(chain') - 1 = count + Cardinality(Uncounted') + Cardinality(Reserving)
    BY <1>6, <2>2, <2>3, <2>4
  <2> QED
    BY <1>1, <1>10, <2>5 DEF Counting
<1>18. OwnNode'
  <2>1. ASSUME NEW u \in Unlinked'
        PROVE  /\ node[u] \in Nodes /\ node[u] \notin LinkedNodes'
               /\ next'[node[u]] = Null
               /\ data[node[u]] = val[u]
               /\ \A w \in Unlinked' : node[w] = node[u] => w = u
    <3>1. /\ u \in Unlinked /\ u # t /\ node[u] \in Nodes /\ node[u] \notin LinkedNodes
          /\ next[node[u]] = Null /\ data[node[u]] = val[u]
          /\ \A w \in Unlinked : node[w] = node[u] => w = u
      BY <1>0, <1>10 DEF Sound, OwnNode
    <3>2. node[u] # node[t] /\ node[u] # Last
      BY <1>3, <1>7, <3>1
    <3> QED
      BY <1>6, <1>9, <1>10, <3>1, <3>2
  <2>2. ASSUME NEW u \in Unfreed
        PROVE  /\ exp[u].node \in Nodes /\ exp[u].node \notin LinkedNodes'
               /\ next'[exp[u].node] # Null
               /\ \A w \in Unlinked' : node[w] # exp[u].node
    <3>1. /\ exp[u].node \in Nodes /\ exp[u].node \notin LinkedNodes
          /\ next[exp[u].node] # Null
          /\ \A w \in Unlinked : node[w] # exp[u].node
      BY <1>0 DEF Sound, OwnNode
    <3>2. exp[u].node # Last /\ exp[u].node # node[t]
      BY <1>3, <1>7, <3>1
    <3> QED
      BY <1>6, <1>9, <1>10, <3>1, <3>2
  <2> QED
    BY <1>1, <1>10, <2>1, <2>2 DEF OwnNode
<1>19. ValueInHand' /\ ClearIsAlone'
  <2>1. \A u \in Threads : pc'[u] = "new" => pc[u] = "new"
    BY <1>2
  <2>2. ValueInHand'
    BY <1>0, <1>1, <1>10, <2>1 DEF Sound, ValueInHand
  <2>3. ClearIsAlone'
    BY <1>0, <1>1 DEF Sound, ClearIsAlone
  <2> QED
    BY <2>2, <2>3
<1>20. HeldIsOwned'
  <2> SUFFICES ASSUME NEW m \in Nodes
               PROVE  held[m] = 1 <=> \/ m \in LinkedNodes'
                                      \/ \E u \in Unlinked' : node[u] = m
                                      \/ \E u \in Unfreed : exp[u].node = m
    BY <1>1, <1>10 DEF HeldIsOwned
  <2>1. held[m] = 1 <=> \/ m \in LinkedNodes
                        \/ \E u \in Unlinked : node[u] = m
                        \/ \E u \in Unfreed : exp[u].node = m
    BY <1>0 DEF Sound, HeldIsOwned
  <2>2. (\E u \in Unlinked : node[u] = m) <=> node[t] = m \/ \E u \in Unlinked' : node[u] = m
    BY <1>10
  <2> QED
    BY <1>6, <2>1, <2>2
<1> QED
  BY <1>11, <1>12, <1>13, <1>14, <1>15, <1>16, <1>17, <1>18, <1>19, <1>20
     DEF Sound

LEMMA LinkKeeps ==
  ASSUME IInv, ~recycled, NEW t \in Threads, Link(t)
  PROVE  IInv'
BY LinkFails, LinkSucceeds

-----------------------------------------------------------------------------
(* The steps that take the first node of the chain away.                   *)

LEMMA Shorter ==
  ASSUME TypeOK, ChainIsLinked, chain # << >>,
         chain' = Tail(chain) \/ chain' = SubSeq(chain, 2, Len(chain))
  PROVE  /\ Len(chain) \in Nat /\ Len(chain) >= 1
         /\ Len(chain') = Len(chain) - 1 /\ chain' \in Seq(Nodes)
         /\ \A i \in 1..(Len(chain) - 1) : chain'[i] = chain[i + 1]
         /\ chain[1] \in Nodes /\ chain[1] \in LinkedNodes
         /\ LinkedNodes' = LinkedNodes \ {chain[1]}
         /\ Len(chain) > 1 => Last' = Last
<1>1. chain \in Seq(Nodes) /\ Len(chain) \in Nat /\ Len(chain) >= 1
  BY ChainTypes DEF TypeOK
<1>2. /\ Len(chain') = Len(chain) - 1 /\ chain' \in Seq(Nodes)
      /\ \A i \in 1..(Len(chain) - 1) : chain'[i] = chain[i + 1]
  <2>1. CASE chain' = Tail(chain)
    BY <1>1, <2>1, HeadTailProperties
  <2>2. CASE chain' = SubSeq(chain, 2, Len(chain))
    <3>1. /\ 2 \in 1..(Len(chain) + 1) /\ Len(chain) \in 2-1..Len(chain)
          /\ Len(chain) - 2 + 1 = Len(chain) - 1
          /\ \A i \in 1..(Len(chain) - 1) : 2 + i - 1 = i + 1
      BY <1>1
    <3>2. /\ chain' \in Seq(Nodes)
          /\ Len(chain') = Len(chain) - 2 + 1
          /\ \A i \in 1..(Len(chain) - 2 + 1) : chain'[i] = chain[2 + i - 1]
      BY <1>1, <2>2, <3>1, SubSeqProperties
    <3> QED
      BY <1>1, <3>1, <3>2
  <2> QED
    BY <2>1, <2>2
<1>3. chain[1] \in Nodes /\ chain[1] \in LinkedNodes
  BY <1>1, ChainTypes DEF LinkedNodes
<1>4. LinkedNodes' = LinkedNodes \ {chain[1]}
  <2>1. \A x : x \in LinkedNodes' => x \in LinkedNodes /\ x # chain[1]
    <3> TAKE x
    <3> HAVE x \in LinkedNodes'
    <3>1. PICK i \in 1..(Len(chain) - 1) : x = chain'[i]
      BY <1>2 DEF LinkedNodes
    <3>2. x = chain[i + 1] /\ i + 1 \in 1..Len(chain) /\ i + 1 # 1 /\ 1 \in 1..Len(chain)
      BY <1>1, <1>2, <3>1
    <3> QED
      BY <3>2 DEF LinkedNodes, ChainIsLinked
  <2>2. \A x : x \in LinkedNodes /\ x # chain[1] => x \in LinkedNodes'
    <3> TAKE x
    <3> HAVE x \in LinkedNodes /\ x # chain[1]
    <3>1. PICK i \in 1..Len(chain) : x = chain[i]
      BY DEF LinkedNodes
    <3>2. i # 1
      BY <3>1
    <3>3. i - 1 \in 1..(Len(chain) - 1) /\ i - 1 + 1 = i
      BY <1>1, <3>2
    <3>4. chain'[i - 1] = x
      BY <1>2, <3>1, <3>3
    <3> QED
      BY <1>2, <3>3, <3>4 DEF LinkedNodes
  <2> QED
    BY <2>1, <2>2
<1>5. ASSUME Len(chain) > 1 PROVE Last' = Last
  <2>1. Len(chain) - 1 \in 1..(Len(chain) - 1) /\ Len(chain) - 1 + 1 = Len(chain)
    BY <1>1, <1>5
  <2> QED
    BY <1>2, <2>1 DEF Last
<1> QED
  BY <1>1, <1>2, <1>3, <1>4, <1>5

(* What is left of a chain is linked as it was.                            *)
LEMMA ShorterIsLinked ==
  ASSUME TypeOK, ChainIsLinked, chain # << >>,
         chain' = Tail(chain) \/ chain' = SubSeq(chain, 2, Len(chain)),
         UNCHANGED <<next, data>>,
         alive' => chain' # << >>
  PROVE  ChainIsLinked'
<1>1. /\ Len(chain) \in Nat /\ Len(chain) >= 1
      /\ Len(chain') = Len(chain) - 1 /\ chain' \in Seq(Nodes)
      /\ \A i \in 1..(Len(chain) - 1) : chain'[i] = chain[i + 1]
      /\ Len(chain) > 1 => Last' = Last
  BY Shorter
<1>2. \A i, j \in 1..Len(chain') : chain'[i] = chain'[j] => i = j
  <2> TAKE i, j \in 1..Len(chain')
  <2> HAVE chain'[i] = chain'[j]
  <2>1. i + 1 \in 1..Len(chain) /\ j + 1 \in 1..Len(chain)
    BY <1>1
  <2>2. chain[i + 1] = chain[j + 1]
    BY <1>1
  <2>3. i + 1 = j + 1
    BY <2>1, <2>2 DEF ChainIsLinked
  <2> QED
    BY <1>1, <2>3
<1>3. \A i \in 1..(Len(chain') - 1) : next'[chain'[i]] = chain'[i + 1]
  <2> TAKE i \in 1..(Len(chain') - 1)
  <2>1. /\ i \in 1..(Len(chain) - 1) /\ i + 1 \in 1..(Len(chain) - 1)
    BY <1>1
  <2>2. chain'[i] = chain[i + 1] /\ chain'[i + 1] = chain[i + 1 + 1]
    BY <1>1, <2>1
  <2>3. next[chain[i + 1]] = chain[i + 1 + 1]
    BY <2>1 DEF ChainIsLinked
  <2> QED
    BY <2>2, <2>3
<1>4. chain' # << >> => next'[Last'] = Null
  <2> HAVE chain' # << >>
  <2>1. Len(chain) > 1
    BY <1>1
  <2> QED
    BY <1>1, <2>1 DEF ChainIsLinked
<1>5. \A i \in 2..Len(chain') : data'[chain'[i]] \in Values
  <2> TAKE i \in 2..Len(chain')
  <2>1. i \in 1..(Len(chain) - 1) /\ i + 1 \in 2..Len(chain)
    BY <1>1
  <2>2. chain'[i] = chain[i + 1] /\ data[chain[i + 1]] \in Values
    BY <1>1, <2>1 DEF ChainIsLinked
  <2> QED
    BY <2>2
<1> QED
  BY <1>2, <1>3, <1>4, <1>5 DEF ChainIsLinked

LEMMA SwingKeeps ==
  ASSUME IInv, ~recycled, NEW t \in Threads, Swing(t)
  PROVE  IInv'
<1> USE DEF Go, enq, move, life
<1>0. TypeOK /\ Sound /\ alive
  BY StepIsAlive DEF IInv, Sound, Swing
<1>1. pc[t] = "swing" /\ Consuming(t) /\ exp[t] = head
  BY <1>0, Steps DEF Swing, Consuming, Sound, OneConsumer
<1>2. /\ pc' = [pc EXCEPT ![t] = "delete"] /\ head' = des[t]
      /\ taken' = Append(taken, out[t]) /\ chain' = Tail(chain)
      /\ UNCHANGED <<tail, next, data, count, held, enq, move, exp, des, out, life,
                     stale, recycled>>
  BY <1>1 DEF Swing
<1>3. pc'[t] = "delete" /\ \A u \in Threads \ {t} : pc'[u] = pc[u]
  BY <1>0, <1>2 DEF TypeOK
<1>4. /\ Len(chain) >= 2 /\ head.node = chain[1] /\ head.node # tail.node
      /\ chain[1] \in Nodes /\ chain[2] \in Nodes /\ chain[1] # chain[2]
      /\ next[head.node] = chain[2]
      /\ data[chain[2]] \in Values
  BY <1>0, <1>1, HeadIsBehind
<1>5. des[t].node = chain[2] /\ out[t] = data[chain[2]]
  BY <1>0, <1>1 DEF Sound, OneConsumer
<1>6. /\ Len(chain) \in Nat /\ chain # << >>
      /\ Len(chain') = Len(chain) - 1 /\ chain' \in Seq(Nodes)
      /\ \A i \in 1..(Len(chain) - 1) : chain'[i] = chain[i + 1]
      /\ chain[1] \in LinkedNodes
      /\ LinkedNodes' = LinkedNodes \ {chain[1]}
      /\ Last' = Last
  <2>1. chain # << >>
    BY <1>4
  <2> QED
    BY <1>0, <1>2, <1>4, <2>1, Shorter DEF Sound
<1>7. /\ Uncounted' = Uncounted /\ Unlinked' = Unlinked
      /\ Reserving = Reserving' \cup {t} /\ ~(t \in Reserving')
      /\ Unfreed = {} /\ Unfreed' = {t}
  <2>1. /\ t \notin Uncounted /\ ~(t \in Uncounted)' /\ t \notin Unlinked /\ ~(t \in Unlinked)'
        /\ t \in Reserving /\ ~(t \in Reserving)' /\ (t \in Unfreed)'
    BY <1>1, <1>3, Steps DEF Uncounted, Reserving, Unlinked, Unfreed
  <2>2. Uncounted' = Uncounted /\ Unlinked' = Unlinked
    BY <1>2, <1>3, <2>1, SetsKept
  <2>3. \A u \in Threads \ {t} : /\ (u \in Reserving)' <=> u \in Reserving
                                 /\ (u \in Unfreed)' <=> u \in Unfreed
    BY <1>3 DEF Reserving, Unfreed
  <2>4. /\ Reserving \subseteq Threads /\ Reserving' \subseteq Threads
        /\ Unfreed \subseteq Threads /\ Unfreed' \subseteq Threads
    BY DEF Reserving, Unfreed
  <2>5. \A u \in Threads : pc[u] # "delete"
    BY <1>0, <1>1, Steps DEF Sound, OneConsumer, Consuming
  <2>6. Unfreed = {}
    BY <2>5 DEF Unfreed
  <2> QED
    BY <2>1, <2>2, <2>3, <2>4, <2>6
<1>8. TypeOK'
  <2>1. pc' \in [Threads -> Labels]
    BY <1>0, <1>2, Steps DEF TypeOK
  <2>2. head' \in Pointer
    BY <1>0, <1>2 DEF TypeOK
  <2>3. taken' \in Seq(Values)
    BY <1>0, <1>2, <1>4, <1>5, AppendProperties DEF TypeOK
  <2> QED
    BY <1>0, <1>2, <1>6, <2>1, <2>2, <2>3 DEF TypeOK
<1>9. ChainIsLinked'
  <2>1. chain' # << >>
    BY <1>4, <1>6
  <2> QED
    BY <1>0, <1>2, <1>6, <2>1, ShorterIsLinked DEF Sound
<1>10. EndsOfChain'
  <2>1. head'.node = chain'[1]
    <3>1. 1 \in 1..(Len(chain) - 1) /\ 1 + 1 = 2
      BY <1>4, <1>6
    <3> QED
      BY <1>2, <1>5, <1>6, <3>1
  <2>2. tail.node # Last => Len(chain') > 1 /\ tail.node = chain'[Len(chain') - 1]
    <3> HAVE tail.node # Last
    <3>1. tail.node = chain[Len(chain) - 1]
      BY <1>0 DEF Sound, EndsOfChain, Behind
    <3>2. Len(chain) - 1 # 1
      BY <1>4, <3>1
    <3>3. /\ Len(chain') > 1 /\ Len(chain') - 1 \in 1..(Len(chain) - 1)
          /\ Len(chain') - 1 + 1 = Len(chain) - 1
      BY <1>4, <1>6, <3>2
    <3> QED
      BY <1>6, <3>1, <3>3
  <2> QED
    BY <1>2, <1>6, <2>1, <2>2 DEF EndsOfChain, Behind
<1>11. SeenIsPassed'
  <2> SUFFICES ASSUME NEW u \in Threads, pc'[u] = "link"
               PROVE  /\ seen[u] \in Nodes
                      /\ u \notin stale =>
                           /\ \/ seen[u] \in LinkedNodes'
                              \/ \E w \in Unfreed' : exp[w].node = seen[u]
                           /\ seen[u] = Last => tail.node = Last
    BY <1>2, <1>6 DEF SeenIsPassed
  <2>1. pc[u] = "link"
    BY <1>3
  <2>2. /\ seen[u] \in Nodes
        /\ u \notin stale => /\ seen[u] \in LinkedNodes
                             /\ seen[u] = Last => tail.node = Last
    BY <1>0, <1>7, <2>1 DEF Sound, SeenIsPassed
  <2>3. exp[t].node = chain[1] /\ t \in Unfreed'
    BY <1>1, <1>4, <1>7
  <2> QED
    BY <1>6, <2>2, <2>3
<1>12. MoveKnowsTail' /\ TailIsPushed'
  <2>1. \A u \in Threads : pc'[u] \in MoveSteps => pc'[u] = pc[u]
    BY <1>3, Steps
  <2>2. MoveKnowsTail'
    <3> SUFFICES ASSUME NEW u \in Threads
                 PROVE  /\ pc'[u] \in MoveSteps => ret[u] \in {"tail", "count"}
                        /\ pc'[u] \in {"mnode", "mnext", "mcas"} => mine[u].tag <= tail.tag
                        /\ pc'[u] \in {"mnext", "mcas"} =>
                             /\ mine[u].node \in Nodes
                             /\ mine[u].tag = tail.tag => mine[u].node = tail.node
                        /\ pc'[u] = "mcas" =>
                             /\ mine[u].next \in Nodes
                             /\ mine[u].tag = tail.tag => mine[u].next = next[tail.node]
      BY <1>2 DEF MoveKnowsTail
    <3>1. pc'[u] \in MoveSteps => pc'[u] = pc[u]
      BY <2>1
    <3> QED
      BY <1>0, <3>1, Steps DEF Sound, MoveKnowsTail
  <2>3. \A u \in Threads : Pushes(u) => Pushes(u)'
    BY <1>1, <1>2, <1>3 DEF Pushes
  <2>4. TailIsPushed'
    BY <1>0, <1>2, <1>6, <2>3 DEF Sound, TailIsPushed
  <2> QED
    BY <2>2, <2>4
<1>13. OneConsumer' /\ NotBelowZero'
  <2>1. \A u \in Threads : Consuming(u) => u = t
    BY <1>0, <1>1 DEF Sound, OneConsumer
  <2>2. \A u \in Threads : Consuming(u)' => u = t
    BY <1>3, <2>1 DEF Consuming
  <2>3. \A u \in Threads : pc'[u] \notin {"next", "copy", "swing"}
    BY <1>3, <2>1, Steps DEF Consuming
  <2>4. OneConsumer'
    BY <2>2, <2>3 DEF OneConsumer
  <2>5. (\A u \in Threads : pc'[u] # "undo") => \A u \in Threads : pc[u] # "undo"
    BY <1>1, <1>3
  <2>6. NotBelowZero'
    BY <1>0, <1>2, <2>5 DEF Sound, NotBelowZero
  <2> QED
    BY <2>4, <2>6
<1>14. Counting'
  <2>1. Reserving' \in SUBSET Threads
    BY DEF Reserving
  <2>2. Cardinality(Reserving) = Cardinality(Reserving') + 1 /\ Cardinality(Reserving') \in Nat
    BY <1>7, <2>1, OneMore
  <2>3. Cardinality(Uncounted) \in Nat /\ count \in Int
    BY <1>0, CountedThreads DEF TypeOK
  <2>4. Len(chain) - 1 = count + Cardinality(Uncounted) + Cardinality(Reserving)
    BY <1>0 DEF Sound, Counting
  <2>5. Len(chain) \in Nat /\ Len(chain') = Len(chain) - 1
    BY <1>6
  <2>6. Len(chain') - 1 = count + Cardinality(Uncounted) + Cardinality(Reserving')
    BY <2>2, <2>3, <2>4, <2>5
  <2> QED
    BY <1>2, <1>7, <2>6 DEF Counting
<1>15. OwnNode'
  <2>1. ASSUME NEW u \in Unlinked
        PROVE  /\ node[u] \in Nodes /\ node[u] \notin LinkedNodes'
               /\ next[node[u]] = Null /\ data[node[u]] = val[u]
               /\ \A w \in Unlinked : node[w] = node[u] => w = u
               /\ node[u] # chain[1]
    BY <1>0, <1>6 DEF Sound, OwnNode
  <2>2. /\ exp[t].node \in Nodes /\ exp[t].node \notin LinkedNodes'
        /\ next[exp[t].node] # Null
        /\ \A w \in Unlinked : node[w] # exp[t].node
    BY <1>1, <1>4, <1>6, <2>1, QueueAssumption
  <2> QED
    BY <1>2, <1>7, <2>1, <2>2 DEF OwnNode
<1>16. ValueInHand' /\ ClearIsAlone'
  <2>1. \A u \in Threads : pc'[u] = "new" => pc[u] = "new"
    BY <1>3
  <2>2. ValueInHand'
    BY <1>0, <1>2, <1>7, <2>1 DEF Sound, ValueInHand
  <2>3. ClearIsAlone'
    BY <1>0, <1>2 DEF Sound, ClearIsAlone
  <2> QED
    BY <2>2, <2>3
<1>17. HeldIsOwned'
  <2> SUFFICES ASSUME NEW m \in Nodes
               PROVE  held[m] = 1 <=> \/ m \in LinkedNodes'
                                      \/ \E u \in Unlinked : node[u] = m
                                      \/ exp[t].node = m
    BY <1>2, <1>7 DEF HeldIsOwned
  <2>1. held[m] = 1 <=> \/ m \in LinkedNodes
                        \/ \E u \in Unlinked : node[u] = m
    BY <1>0, <1>7 DEF Sound, HeldIsOwned
  <2>2. exp[t].node = chain[1]
    BY <1>1, <1>4
  <2> QED
    BY <1>6, <2>1, <2>2
<1> QED
  BY <1>8, <1>9, <1>10, <1>11, <1>12, <1>13, <1>14, <1>15, <1>16, <1>17
     DEF IInv, Sound

LEMMA DeleteNodeKeeps ==
  ASSUME IInv, ~recycled, NEW t \in Threads, DeleteNode(t)
  PROVE  IInv'
<1> USE DEF DeleteNode, Go, enq, move, life
<1>0. TypeOK /\ Sound /\ alive
  BY StepIsAlive DEF IInv, Sound
<1>1. pc[t] = "delete" /\ Consuming(t) /\ t \in Unfreed
  BY Steps DEF Consuming, Unfreed
<1>2. /\ pc'[t] = "idle"
      /\ \A u \in Threads \ {t} : pc'[u] = pc[u]
  BY <1>0 DEF TypeOK
<1>3. \A u \in Threads \ {t} : ~Consuming(u)
  BY <1>0, <1>1 DEF Sound, OneConsumer
<1>4. /\ exp[t].node \in Nodes /\ exp[t].node \notin LinkedNodes
      /\ \A u \in Unlinked : node[u] # exp[t].node
  BY <1>0, <1>1 DEF Sound, OwnNode
<1>5. /\ Uncounted' = Uncounted /\ Unlinked' = Unlinked /\ Reserving' = Reserving
      /\ Unfreed = {t} /\ Unfreed' = {}
  <2>1. /\ t \notin Uncounted /\ ~(t \in Uncounted)' /\ t \notin Unlinked /\ ~(t \in Unlinked)'
        /\ t \notin Reserving /\ ~(t \in Reserving)'
    BY <1>1, <1>2, Steps DEF Uncounted, Reserving, Unlinked, Unfreed
  <2>2. Uncounted' = Uncounted /\ Unlinked' = Unlinked /\ Reserving' = Reserving
    BY <1>2, <2>1, SetsKept
  <2>3. \A u \in Threads \ {t} : pc[u] # "delete" /\ pc'[u] # "delete"
    BY <1>2, <1>3, Steps DEF Consuming
  <2>4. Unfreed = {t} /\ Unfreed' = {}
    BY <1>1, <1>2, <2>3 DEF Unfreed
  <2> QED
    BY <2>2, <2>4
<1>6. Last' = Last /\ LinkedNodes' = LinkedNodes
  BY DEF Last, LinkedNodes
<1>7. held[exp[t].node] = 1
  BY <1>0, <1>1, <1>4 DEF Sound, HeldIsOwned
<1>8. held' = [held EXCEPT ![exp[t].node] = 0]
  BY <1>7
<1>9. TypeOK'
  <2>1. pc' \in [Threads -> Labels]
    BY <1>0, Steps DEF TypeOK
  <2>2. held' \in [Nodes -> 0..1]
    <3>1. 0 \in 0..1
      OBVIOUS
    <3> QED
      BY <1>0, <1>8, <3>1 DEF TypeOK
  <2>3. stale' \subseteq Threads
    BY <1>0 DEF TypeOK, Looking
  <2>4. Nil \in Pointer
    BY DEF Nil, Pointer
  <2>5. /\ exp' \in [Threads -> Pointer] /\ des' \in [Threads -> Pointer]
        /\ out' \in [Threads -> Values \cup {Null}]
    BY <1>0, <2>4 DEF TypeOK
  <2> QED
    BY <1>0, <2>1, <2>2, <2>3, <2>5 DEF TypeOK
<1>10. ChainIsLinked' /\ EndsOfChain' /\ Counting' /\ ClearIsAlone'
  BY <1>0, <1>5, <1>6
  DEF Sound, ChainIsLinked, EndsOfChain, Behind, Counting, ClearIsAlone
<1>11. SeenIsPassed'
  <2> SUFFICES ASSUME NEW u \in Threads, pc'[u] = "link"
               PROVE  /\ seen[u] \in Nodes
                      /\ u \notin stale' =>
                           /\ seen[u] \in LinkedNodes
                           /\ seen[u] = Last => tail.node = Last
    BY <1>6 DEF SeenIsPassed
  <2>1. pc[u] = "link"
    BY <1>2
  <2>2. u \notin stale' => u \notin stale /\ seen[u] # exp[t].node
    BY <2>1 DEF Looking
  <2> QED
    BY <1>0, <1>5, <2>1, <2>2 DEF Sound, SeenIsPassed
<1>12. MoveKnowsTail' /\ TailIsPushed'
  <2>1. \A u \in Threads : pc'[u] \in MoveSteps => pc'[u] = pc[u]
    BY <1>2, Steps
  <2>2. MoveKnowsTail'
    <3> SUFFICES ASSUME NEW u \in Threads
                 PROVE  /\ pc'[u] \in MoveSteps => ret[u] \in {"tail", "count"}
                        /\ pc'[u] \in {"mnode", "mnext", "mcas"} => mine[u].tag <= tail.tag
                        /\ pc'[u] \in {"mnext", "mcas"} =>
                             /\ mine[u].node \in Nodes
                             /\ mine[u].tag = tail.tag => mine[u].node = tail.node
                        /\ pc'[u] = "mcas" =>
                             /\ mine[u].next \in Nodes
                             /\ mine[u].tag = tail.tag => mine[u].next = next[tail.node]
      BY DEF MoveKnowsTail
    <3>1. pc'[u] \in MoveSteps => pc'[u] = pc[u]
      BY <2>1
    <3> QED
      BY <1>0, <3>1, Steps DEF Sound, MoveKnowsTail
  <2>3. \A u \in Threads : Pushes(u) => Pushes(u)'
    BY <1>1, <1>2 DEF Pushes
  <2>4. TailIsPushed'
    BY <1>0, <1>6, <2>3 DEF Sound, TailIsPushed
  <2> QED
    BY <2>2, <2>4
<1>13. OneConsumer' /\ NotBelowZero'
  <2>1. \A u \in Threads : ~Consuming(u)'
    BY <1>2, <1>3, Steps DEF Consuming
  <2>2. OneConsumer'
    BY <2>1, Steps DEF OneConsumer, Consuming
  <2>3. (\A u \in Threads : pc'[u] # "undo") => \A u \in Threads : pc[u] # "undo"
    BY <1>1, <1>2
  <2>4. NotBelowZero'
    BY <1>0, <2>3 DEF Sound, NotBelowZero
  <2> QED
    BY <2>2, <2>4
<1>14. OwnNode'
  BY <1>0, <1>5, <1>6 DEF Sound, OwnNode
<1>15. ValueInHand'
  <2>1. \A u \in Threads : pc'[u] = "new" => pc[u] = "new"
    BY <1>2
  <2> QED
    BY <1>0, <1>5, <2>1 DEF Sound, ValueInHand
<1>16. HeldIsOwned'
  <2> SUFFICES ASSUME NEW m \in Nodes
               PROVE  held'[m] = 1 <=> \/ m \in LinkedNodes
                                       \/ \E u \in Unlinked : node[u] = m
    BY <1>5, <1>6 DEF HeldIsOwned
  <2>1. CASE m = exp[t].node
    BY <1>0, <1>4, <1>8, <2>1 DEF TypeOK
  <2>2. CASE m # exp[t].node
    BY <1>0, <1>5, <1>8, <2>2 DEF TypeOK, Sound, HeldIsOwned
  <2> QED
    BY <2>1, <2>2
<1> QED
  BY <1>9, <1>10, <1>11, <1>12, <1>13, <1>14, <1>15, <1>16 DEF IInv, Sound

-----------------------------------------------------------------------------
(* Clear.                                                                  *)

LEMMA BeginClearKeeps ==
  ASSUME IInv, ~recycled, BeginClear
  PROVE  IInv'
<1> USE DEF BeginClear, memory, enq, move, deq, past
<1>0. TypeOK /\ Sound
  BY DEF IInv
<1>1. UNCHANGED <<head, tail, next, data, count, held, val, node, seen, mine, ret,
                  exp, des, out, fresh, taken, chain, stale, recycled, pc>>
  OBVIOUS
<1>2. /\ Last' = Last /\ LinkedNodes' = LinkedNodes /\ Unlinked' = Unlinked
      /\ Unfreed' = Unfreed
  BY <1>1 DEF Last, LinkedNodes, Unlinked, Unfreed
<1>3. TypeOK'
  BY <1>0, <1>1 DEF TypeOK, Pointer
<1>4. ChainIsLinked' /\ EndsOfChain' /\ TailIsPushed' /\ Counting'
  BY <1>0, <1>1, <1>2 DEF Sound, ChainIsLinked, EndsOfChain, TailIsPushed,
     Counting
<1>5. SeenIsPassed' /\ MoveKnowsTail' /\ OneConsumer' /\ NotBelowZero'
  BY <1>0, <1>1, <1>2
  DEF Sound, SeenIsPassed, MoveKnowsTail, OneConsumer, Consuming, NotBelowZero
<1>6. OwnNode' /\ ValueInHand' /\ HeldIsOwned'
  BY <1>0, <1>1, <1>2 DEF Sound, OwnNode, ValueInHand, HeldIsOwned
<1>7. ClearIsAlone'
  BY <1>0, <1>1 DEF ClearIsAlone, Sound, EndsOfChain, ChainIsLinked
<1> QED
  BY <1>3, <1>4, <1>5, <1>6, <1>7 DEF IInv, Sound

LEMMA ClearNodeKeeps ==
  ASSUME IInv, ~recycled, ClearNode
  PROVE  IInv'
<1> USE DEF ClearNode, enq, move, deq
<1>0. TypeOK /\ Sound
  BY DEF IInv
<1>1. /\ ~alive /\ \A t \in Threads : pc[t] = "idle"
      /\ chain # << >> /\ walk = chain[1]
  BY <1>0 DEF Sound, ClearIsAlone, TypeOK
<1>2. /\ Len(chain) \in Nat /\ Len(chain) >= 1
      /\ Len(chain') = Len(chain) - 1 /\ chain' \in Seq(Nodes)
      /\ \A i \in 1..(Len(chain) - 1) : chain'[i] = chain[i + 1]
      /\ chain[1] \in Nodes /\ chain[1] \in LinkedNodes
      /\ LinkedNodes' = LinkedNodes \ {chain[1]}
      /\ Len(chain) > 1 => Last' = Last
  BY <1>0, <1>1, Shorter DEF Sound
<1>3. held[walk] = 1 /\ held' = [held EXCEPT ![walk] = 0]
  <2>1. held[walk] = 1
    BY <1>0, <1>1, <1>2 DEF Sound, HeldIsOwned
  <2> QED
    BY <2>1
<1>4. UNCHANGED <<head, tail, next, data, count, val, node, seen, mine, ret,
                  exp, des, out, fresh, alive, taken, stale, recycled, pc>>
  OBVIOUS
<1>5. Unlinked = {} /\ Unfreed = {} /\ Unlinked' = {} /\ Unfreed' = {}
  BY <1>1, <1>4, Steps DEF Unlinked, Unfreed
<1>6. TypeOK'
  <2>1. walk' \in Nodes \cup {Null}
    BY <1>0, <1>1, <1>2 DEF TypeOK
  <2>2. held' \in [Nodes -> 0..1]
    <3>1. 0 \in 0..1
      OBVIOUS
    <3> QED
      BY <1>0, <1>3, <3>1 DEF TypeOK
  <2> QED
    BY <1>0, <1>2, <1>4, <2>1, <2>2 DEF TypeOK, Pointer
<1>7. ChainIsLinked'
  BY <1>0, <1>1, <1>4, ShorterIsLinked DEF Sound
<1>8. EndsOfChain' /\ TailIsPushed' /\ Counting'
  BY <1>1, <1>4 DEF EndsOfChain, TailIsPushed, Counting
<1>9. SeenIsPassed' /\ MoveKnowsTail' /\ OneConsumer' /\ NotBelowZero'
  BY <1>0, <1>1, <1>4, Steps
  DEF Sound, SeenIsPassed, MoveKnowsTail, OneConsumer, Consuming, NotBelowZero
<1>10. OwnNode' /\ ValueInHand'
  BY <1>1, <1>4, <1>5 DEF OwnNode, ValueInHand
<1>11. HeldIsOwned'
  <2> SUFFICES ASSUME NEW m \in Nodes PROVE held'[m] = 1 <=> m \in LinkedNodes'
    BY <1>5 DEF HeldIsOwned
  <2>1. held[m] = 1 <=> m \in LinkedNodes
    BY <1>0, <1>5 DEF Sound, HeldIsOwned
  <2>2. held'[m] = IF m = chain[1] THEN 0 ELSE held[m]
    BY <1>0, <1>1, <1>3 DEF TypeOK
  <2> QED
    BY <1>2, <2>1, <2>2
<1>12. ClearIsAlone'
  <2>1. walk' = next[chain[1]]
    BY <1>1
  <2>2. CASE Len(chain) = 1
    <3>1. chain' = << >>
      BY <1>2, <2>2
    <3>2. next[chain[1]] = Null
      BY <1>0, <1>1, <2>2 DEF Sound, ChainIsLinked, Last
    <3> QED
      BY <1>1, <1>4, <2>1, <3>1, <3>2 DEF ClearIsAlone
  <2>3. CASE Len(chain) # 1
    <3>0. 1 \in 1..(Len(chain) - 1) /\ Len(chain') # 0 /\ 1 + 1 = 2
      BY <1>2, <2>3
    <3>1. chain' # << >>
      BY <3>0
    <3>2. next[chain[1]] = chain[2] /\ chain'[1] = chain[2]
      BY <1>0, <1>2, <3>0 DEF Sound, ChainIsLinked
    <3> QED
      BY <1>1, <1>4, <2>1, <3>1, <3>2 DEF ClearIsAlone
  <2> QED
    BY <2>2, <2>3
<1> QED
  BY <1>6, <1>7, <1>8, <1>9, <1>10, <1>11, <1>12 DEF IInv, Sound

-----------------------------------------------------------------------------
(* The theorems.                                                           *)

LEMMA StepKeeps == IInv /\ [Next]_vars => IInv'
<1> SUFFICES ASSUME IInv, [Next]_vars PROVE IInv'
  OBVIOUS
<1>1. CASE UNCHANGED vars
  <2>1. UNCHANGED <<head, tail, next, data, count, held, val, node, seen, mine, ret,
                    exp, des, out, fresh, alive, walk, taken, chain, stale, recycled, pc>>
    BY <1>1 DEF vars, memory, enq, move, deq, life, past
  <2>2. TypeOK'
    BY <2>1 DEF IInv, TypeOK, Pointer
  <2>3. Sound => Sound'
    BY <2>1 DEF Sound, ChainIsLinked, EndsOfChain, Behind, SeenIsPassed,
       MoveKnowsTail,
         TailIsPushed, Pushes, OneConsumer, Consuming, Counting, NotBelowZero, OwnNode,
         ValueInHand, HeldIsOwned, ClearIsAlone, Last, LinkedNodes, Unlinked, Unfreed,
         Uncounted, Reserving
  <2> QED
    BY <2>1, <2>2, <2>3 DEF IInv
<1>2. CASE Next
  <2>0. ~recycled
    BY <1>2 DEF Next
  <2>1. ASSUME NEW t \in Threads, NEW v \in Values, TryEnqueue(t, v) PROVE IInv'
    BY <2>0, <2>1, TryEnqueueKeeps
  <2>2. ASSUME NEW t \in Threads, EnqueueStep(t) PROVE IInv'
    BY <2>0, <2>2, NewNodeKeeps, ReadTailKeeps, LinkKeeps, AddCountKeeps
       DEF EnqueueStep
  <2>3. ASSUME NEW t \in Threads, MoveTailStep(t) PROVE IInv'
    BY <2>0, <2>3, MoveReadTagKeeps, MoveReadNodeKeeps, MoveReadNextKeeps,
       MoveExchangeKeeps DEF MoveTailStep
  <2>4. ASSUME NEW t \in Threads, Reserve(t) PROVE IInv'
    BY <2>0, <2>4, ReserveKeeps
  <2>5. ASSUME NEW t \in Threads, DequeueStep(t) PROVE IInv'
    BY <2>0, <2>5, UndoKeeps, CheckKeeps, ReadHeadKeeps, ReadNextKeeps,
       CopyKeeps,
       SwingKeeps, DeleteNodeKeeps DEF DequeueStep
  <2>6. ASSUME BeginClear \/ ClearNode PROVE IInv'
    BY <2>0, <2>6, BeginClearKeeps, ClearNodeKeeps
  <2> QED
    BY <1>2, <2>1, <2>2, <2>3, <2>4, <2>5, <2>6 DEF Next
<1> QED
  BY <1>1, <1>2

LEMMA Invariant == Spec => []IInv
BY InitIInv, StepKeeps, PTL DEF Spec

(* Every variable keeps its type: no exchange follows a pointer to nowhere *)
(* and nothing but values is handed out, recycled nodes or not.            *)
THEOREM QueueTypes == Spec => []TypeOK
<1>1. IInv => TypeOK
  BY DEF IInv
<1> QED
  BY <1>1, Invariant, PTL

(* TryDequeue's "continue" past a failed read is never taken: who has      *)
(* reserved an element finds the tail ahead of the head, a node behind the *)
(* head, and the head it has read.                                         *)
THEOREM ReservedIsFound == Spec => []ReservedFindsNode
<1>1. IInv => ReservedFindsNode
  <2> SUFFICES ASSUME IInv, ~recycled, NEW t \in Threads
               PROVE  /\ pc[t] = "check" => head.node # tail.node
                      /\ pc[t] = "next" => next[exp[t].node] # Null
                      /\ pc[t] = "swing" => head = exp[t]
    BY DEF ReservedFindsNode
  <2>0. TypeOK /\ Sound
    BY DEF IInv
  <2>1. pc[t] = "check" => head.node # tail.node
    BY <2>0, HeadIsBehind, Steps DEF Consuming
  <2>2. pc[t] \in {"next", "swing"} => exp[t] = head
    BY <2>0 DEF Sound, OneConsumer
  <2>3. pc[t] = "next" => next[exp[t].node] # Null
    BY <2>0, <2>2, HeadIsBehind, Steps, QueueAssumption DEF Consuming
  <2> QED
    BY <2>1, <2>2, <2>3
<1> QED
  BY <1>1, Invariant, PTL

(* A set with at most one element.                                         *)
LEMMA AtMostOne ==
  ASSUME NEW S, \A x, y \in S : x = y
  PROVE  Cardinality(S) = IF S = {} THEN 0 ELSE 1
<1>1. CASE S = {}
  BY <1>1, FS_EmptySet
<1>2. CASE S # {}
  <2>1. PICK x : x \in S
    BY <1>2
  <2>2. S = {x}
    BY <2>1
  <2> QED
    BY <1>2, <2>2, FS_Singleton
<1> QED
  BY <1>1, <1>2

(* No node is lost and none is in two hands: a node the allocator has      *)
(* handed out is linked, or with the enqueuer that will link it, or with   *)
(* the consumer that will delete it.                                       *)
THEOREM NodesAreAccounted == Spec => []NodesAccounted
<1>1. IInv => NodesAccounted
  <2> SUFFICES ASSUME IInv, ~recycled, NEW n \in Nodes
               PROVE  held[n] = (IF n \in LinkedNodes THEN 1 ELSE 0)
                                + Cardinality({t \in Unlinked : node[t] = n})
                                + Cardinality({t \in Unfreed : exp[t].node = n})
    BY DEF NodesAccounted
  <2> DEFINE A == {t \in Unlinked : node[t] = n}
             B == {t \in Unfreed : exp[t].node = n}
  <2>0. TypeOK /\ Sound
    BY DEF IInv
  <2>1. Cardinality(A) = IF A = {} THEN 0 ELSE 1
    <3>1. \A x, y \in A : x = y
      BY <2>0 DEF Sound, OwnNode
    <3> HIDE DEF A
    <3> QED
      BY <3>1, AtMostOne
  <2>2. Cardinality(B) = IF B = {} THEN 0 ELSE 1
    <3>1. \A x \in Unfreed : x \in Threads /\ Consuming(x)
      BY Steps DEF Unfreed, Consuming
    <3>2. \A x, y \in B : x = y
      BY <2>0, <3>1 DEF Sound, OneConsumer
    <3> HIDE DEF B
    <3> QED
      BY <3>2, AtMostOne
  <2>3. n \in LinkedNodes => A = {} /\ B = {}
    BY <2>0 DEF Sound, OwnNode
  <2>4. A # {} => B = {}
    BY <2>0 DEF Sound, OwnNode
  <2>5. held[n] = 1 <=> n \in LinkedNodes \/ A # {} \/ B # {}
    BY <2>0 DEF Sound, HeldIsOwned
  <2>6. held[n] = 0 \/ held[n] = 1
    BY <2>0 DEF TypeOK
  <2> HIDE DEF A, B
  <2>7. held[n] = (IF n \in LinkedNodes THEN 1 ELSE 0) + Cardinality(A) + Cardinality(B)
    BY <2>1, <2>2, <2>3, <2>4, <2>5, <2>6
  <2> QED
    BY <2>7 DEF A, B
<1> QED
  BY <1>1, Invariant, PTL

-----------------------------------------------------------------------------
(* The queue is a FIFO queue.                                              *)

LEMMA ContentsKept ==
  ASSUME TypeOK, Sound, chain' = chain,
         \A i \in 2..Len(chain) : data'[chain[i]] = data[chain[i]]
  PROVE  Contents' = Contents
<1>1. Len(chain) \in Nat
  BY ChainTypes
<1>2. \A i \in 1..(Len(chain) - 1) : data'[chain[i + 1]] = data[chain[i + 1]]
  <2> TAKE i \in 1..(Len(chain) - 1)
  <2>1. i + 1 \in 2..Len(chain)
    BY <1>1
  <2> QED
    BY <2>1
<1>3. Contents' = [i \in 1..(Len(chain) - 1) |-> data'[chain[i + 1]]]
  BY DEF Contents
<1> QED
  BY <1>2, <1>3 DEF Contents

(* The link accepts the value of the node.                                 *)
LEMMA LinkAccepts ==
  ASSUME IInv, ~recycled, NEW t \in Threads, Link(t), next[seen[t]] = Null, ~recycled'
  PROVE  \E v \in Values : Fifo!Accept(v)
<1>0. TypeOK /\ Sound /\ alive
  BY StepIsAlive DEF IInv, Sound, Link
<1>1. /\ pc[t] = "link" /\ chain' = Append(chain, node[t])
      /\ UNCHANGED <<data, taken>>
  BY DEF Link
<1>2. t \in Unlinked
  BY <1>1 DEF Unlinked
<1>3. node[t] \in Nodes /\ data[node[t]] = val[t] /\ val[t] \in Values
  BY <1>0, <1>2 DEF Sound, OwnNode, ValueInHand, Unlinked
<1>4. /\ Len(chain) \in Nat /\ Len(chain') = Len(chain) + 1
      /\ \A i \in 1..Len(chain) : chain'[i] = chain[i]
      /\ chain'[Len(chain) + 1] = node[t]
  BY <1>0, <1>1, <1>3, Longer
<1>5. Len(chain) >= 1
  BY <1>0, ChainEnds DEF Sound
<1> DEFINE k == Len(chain) - 1
<1>6. /\ k \in Nat /\ Len(chain) = k + 1 /\ Len(chain') - 1 = k + 1
      /\ Len(chain) + 1 = k + 1 + 1
  BY <1>4, <1>5
<1>7. Contents = [i \in 1..k |-> data[chain[i + 1]]]
  BY DEF Contents
<1>8. Contents' = [i \in 1..(k + 1) |-> data[chain'[i + 1]]]
  <2>1. Contents' = [i \in 1..(Len(chain') - 1) |-> data'[chain'[i + 1]]]
    BY DEF Contents
  <2> QED
    BY <1>1, <1>6, <2>1
<1> HIDE DEF k
<1>9. Contents \in Seq(Values) /\ Len(Contents) = k
  <2>1. \A i \in 1..k : data[chain[i + 1]] \in Values
    <3> TAKE i \in 1..k
    <3>1. i + 1 \in 2..Len(chain)
      BY <1>6
    <3> QED
      BY <1>0, <3>1 DEF Sound, ChainIsLinked
  <2> QED
    BY <1>6, <1>7, <2>1
<1>10. Append(Contents, val[t]) = [i \in 1..(k + 1) |->
                                    IF i \in 1..k THEN Contents[i] ELSE val[t]]
  BY <1>3, <1>6, <1>9
<1>11. \A i \in 1..(k + 1) :
         data[chain'[i + 1]] = IF i \in 1..k THEN Contents[i] ELSE val[t]
  <2> TAKE i \in 1..(k + 1)
  <2>1. CASE i \in 1..k
    <3>1. i + 1 \in 1..Len(chain)
      BY <1>6, <2>1
    <3> QED
      BY <1>4, <1>7, <2>1, <3>1
  <2>2. CASE i \notin 1..k
    <3>1. i = k + 1
      BY <1>6, <2>2
    <3> QED
      BY <1>3, <1>4, <1>6, <2>2, <3>1
  <2> QED
    BY <2>1, <2>2
<1>12. Contents' = Append(Contents, val[t])
  BY <1>8, <1>10, <1>11
<1> QED
  BY <1>1, <1>3, <1>12 DEF Fifo!Accept

(* The exchange of the head hands out the first value.                     *)
LEMMA SwingHandsOut ==
  ASSUME IInv, ~recycled, NEW t \in Threads, Swing(t)
  PROVE  Fifo!HandOut
<1>0. TypeOK /\ Sound /\ pc[t] = "swing" /\ Consuming(t)
  BY Steps DEF IInv, Swing, Consuming
<1>1. head = exp[t] /\ out[t] = data[chain[2]]
  BY <1>0 DEF Sound, OneConsumer
<1>2. /\ taken' = Append(taken, out[t]) /\ chain' = Tail(chain)
      /\ UNCHANGED data
  BY <1>1 DEF Swing
<1>3. Len(chain) >= 2
  BY <1>0, HeadIsBehind
<1>4. chain # << >>
  BY <1>3
<1>5. /\ Len(chain) \in Nat /\ Len(chain') = Len(chain) - 1
      /\ \A i \in 1..(Len(chain) - 1) : chain'[i] = chain[i + 1]
  BY <1>0, <1>2, <1>4, Shorter DEF Sound
<1> DEFINE k == Len(chain) - 1
<1>6. k \in Nat /\ k >= 1 /\ Len(chain) = k + 1 /\ Len(chain') - 1 = k - 1
  BY <1>3, <1>5
<1>7. Contents = [i \in 1..k |-> data[chain[i + 1]]]
  BY DEF Contents
<1>8. Contents' = [i \in 1..(k - 1) |-> data[chain'[i + 1]]]
  <2>1. Contents' = [i \in 1..(Len(chain') - 1) |-> data'[chain'[i + 1]]]
    BY DEF Contents
  <2> QED
    BY <1>2, <1>6, <2>1
<1> HIDE DEF k
<1>9. Contents \in Seq(Values) /\ Len(Contents) = k
  <2>1. \A i \in 1..k : data[chain[i + 1]] \in Values
    <3> TAKE i \in 1..k
    <3>1. i + 1 \in 2..Len(chain)
      BY <1>6
    <3> QED
      BY <1>0, <3>1 DEF Sound, ChainIsLinked
  <2> QED
    BY <1>6, <1>7, <2>1
<1>10. Contents # << >>
  BY <1>6, <1>9
<1>11. /\ Tail(Contents) \in Seq(Values) /\ Len(Tail(Contents)) = k - 1
       /\ \A i \in 1..(k - 1) : Tail(Contents)[i] = Contents[i + 1]
  BY <1>9, <1>10, HeadTailProperties
<1>12. \A i \in 1..(k - 1) : data[chain'[i + 1]] = Contents[i + 1]
  <2> TAKE i \in 1..(k - 1)
  <2>1. i + 1 \in 1..k /\ i + 1 \in 1..(Len(chain) - 1)
    BY <1>6
  <2>2. chain'[i + 1] = chain[i + 1 + 1]
    BY <1>5, <2>1
  <2> QED
    BY <1>7, <2>1, <2>2
<1>13. Contents' = Tail(Contents)
  <2>1. \A i \in 1..(k - 1) : Contents[i + 1] \in Values
    <3> TAKE i \in 1..(k - 1)
    <3>1. i + 1 \in 1..Len(Contents)
      BY <1>6, <1>9
    <3> QED
      BY <1>9, <3>1
  <2>2. Contents' \in Seq(Values) /\ Len(Contents') = k - 1
    BY <1>6, <1>8, <1>12, <2>1
  <2>3. \A i \in 1..Len(Contents') : Contents'[i] = Tail(Contents)[i]
    BY <1>8, <1>11, <1>12, <2>2
  <2> QED
    BY <1>11, <2>2, <2>3, SeqEqual
<1>14. Head(Contents) = out[t]
  <2>1. 1 \in 1..k /\ 1 + 1 = 2
    BY <1>6
  <2> QED
    BY <1>1, <1>7, <1>9, <1>10, <2>1
<1> QED
  BY <1>2, <1>10, <1>13, <1>14 DEF Fifo!HandOut

(* While the queue lives, and as long as no enqueuer links its node to a   *)
(* recycled one, it is a FIFO queue: a value is accepted when its node is  *)
(* linked and handed out when the head is exchanged, once and in order.    *)
THEOREM QueueIsFifo == Spec => ImplementsFifo
<1>1. Init => Fifo!Init
  <2> SUFFICES ASSUME Init PROVE Contents = << >> /\ taken = << >>
    BY DEF Fifo!Init
  <2>1. Len(chain) = 1
    BY DEF Init
  <2> QED
    BY <2>1 DEF Contents, Init
<1>2. IInv /\ [Next]_vars => [alive' /\ ~recycled' => Fifo!Next]_<<Contents, taken>>
  <2> SUFFICES ASSUME IInv, [Next]_vars, alive', ~recycled',
                      <<Contents, taken>>' # <<Contents, taken>>
               PROVE  Fifo!Next
    OBVIOUS
  <2>1. ASSUME UNCHANGED <<chain, data, taken>> PROVE FALSE
    BY <2>1 DEF Contents
  <2>2. Next /\ ~recycled
    BY <2>1 DEF vars, memory, past, Next
  <2>3. TypeOK /\ Sound
    BY <2>2 DEF IInv
  <2>4. ASSUME NEW t \in Threads, NewNode(t) PROVE FALSE
    <3>1. PICK n \in Nodes : held[n] = 0 /\ data' = [data EXCEPT ![n] = val[t]]
      BY <2>4 DEF NewNode
    <3>2. n \notin LinkedNodes
      BY <2>3, <3>1 DEF Sound, HeldIsOwned
    <3>3. \A i \in 2..Len(chain) : data'[chain[i]] = data[chain[i]]
      <4> TAKE i \in 2..Len(chain)
      <4>1. i \in 1..Len(chain)
        BY <2>3, ChainTypes
      <4>2. chain[i] \in Nodes /\ chain[i] # n
        BY <2>3, <3>2, <4>1, ChainTypes DEF LinkedNodes
      <4> QED
        BY <2>3, <3>1, <4>2 DEF TypeOK
    <3>4. chain' = chain /\ taken' = taken
      BY <2>4 DEF NewNode, past
    <3> QED
      BY <2>3, <3>3, <3>4, ContentsKept
  <2>5. ASSUME NEW t \in Threads, Link(t) PROVE Fifo!Next
    <3>1. CASE next[seen[t]] = Null
      BY <2>2, <2>5, <3>1, LinkAccepts DEF Fifo!Next
    <3>2. CASE next[seen[t]] # Null
      <4>1. UNCHANGED <<chain, data, taken>>
        BY <2>5, <3>2 DEF Link
      <4> QED
        BY <2>1, <4>1
    <3> QED
      BY <3>1, <3>2
  <2>6. ASSUME NEW t \in Threads, Swing(t) PROVE Fifo!Next
    BY <2>2, <2>6, SwingHandsOut DEF Fifo!Next
  <2>7. ASSUME NEW t \in Threads, ReadTail(t) \/ AddCount(t) PROVE FALSE
    BY <2>1, <2>7 DEF ReadTail, AddCount, memory
  <2>8. ASSUME NEW t \in Threads, MoveTailStep(t) PROVE FALSE
    BY <2>1, <2>8
    DEF MoveTailStep, MoveReadTag, MoveReadNode, MoveReadNext, MoveExchange, memory, past
  <2>9. ASSUME NEW t \in Threads,
               \/ Undo(t) \/ Check(t) \/ ReadHead(t) \/ ReadNext(t) \/ Copy(t)
               \/ DeleteNode(t) \/ Reserve(t)
        PROVE  FALSE
    BY <2>1, <2>9
    DEF Undo, Check, ReadHead, ReadNext, Copy, DeleteNode, Reserve, memory, past
  <2>10. ASSUME NEW t \in Threads, NEW v \in Values, TryEnqueue(t, v) PROVE FALSE
    BY <2>1, <2>10 DEF TryEnqueue, memory, past
  <2>11. ASSUME BeginClear PROVE FALSE
    BY <2>11 DEF BeginClear
  <2>12. ASSUME ClearNode PROVE FALSE
    <3>1. alive
      BY <2>12 DEF ClearNode
    <3> QED
      BY <2>3, <2>12, <3>1 DEF ClearNode, Sound, ClearIsAlone
  <2> QED
    BY <2>2, <2>4, <2>5, <2>6, <2>7, <2>8, <2>9, <2>10, <2>11, <2>12
    DEF Next, EnqueueStep, DequeueStep
<1> QED
  BY <1>1, <1>2, Invariant, PTL DEF Spec, ImplementsFifo
================================================================================
