------------------------------ MODULE ObjectPool ------------------------------
(***************************************************************************)
(* ObjectPool: a stack of free nodes under a tagged top pointer, and the   *)
(* counter mPoolingCount that reserves a node before it is popped.  Alloc  *)
(* reads tag, top and next one after another and commits with a 16-byte    *)
(* exchange of <<top, tag>>; Free exchanges the 8-byte top alone and       *)
(* leaves the tag as it is.  Nodes are reused: a thread may hold a pointer *)
(* to a node that was popped and pushed again meanwhile.                   *)
(*                                                                         *)
(* The pools of the engine start empty (poolingCount 0).  A spurious       *)
(* failure of compare_exchange_weak repeats the reads and is left out.     *)
(* Callers free what they were given: the null and checksum checks of Free *)
(* pass.                                                                   *)
(***************************************************************************)
EXTENDS Integers, Sequences, FiniteSets

CONSTANTS
  Threads,  \* the threads that allocate and free
  Nodes,    \* bound: the nodes mi_malloc can return
  MaxTag,   \* bound: number of pops
  Null      \* the null pointer

ASSUME PoolAssumption ==
  /\ IsFiniteSet(Threads)
  /\ IsFiniteSet(Nodes)
  /\ MaxTag \in Nat
  /\ Null \notin Nodes

VARIABLES
  top, tag,   \* mTopNode16: pNode and count
  next,       \* next[n]: pNextNode of n
  count,      \* mPoolingCount
  unused,     \* nodes not allocated from the system yet
  pc,         \* where the thread is
  expTag, expTop,  \* Alloc: expected
  desTop,     \* Alloc: desired.pNode; Free: pExpected
  node,       \* node[t]: the node t is freeing
  holders,    \* holders[n]: how many callers hold the object of n
  chain       \* history: the nodes pushed and not popped, top first

vars == <<top, tag, next, count, unused, pc, expTag, expTop, desTop, node, holders, chain>>

Init ==
  /\ top = Null
  /\ tag = 0
  /\ next = [n \in Nodes |-> Null]
  /\ count = 0
  /\ unused = Nodes
  /\ pc = [t \in Threads |-> "idle"]
  /\ expTag = [t \in Threads |-> 0]
  /\ expTop = [t \in Threads |-> Null]
  /\ desTop = [t \in Threads |-> Null]
  /\ node = [t \in Threads |-> Null]
  /\ holders = [n \in Nodes |-> 0]
  /\ chain = << >>

Go(t, from, to) == pc[t] = from /\ pc' = [pc EXCEPT ![t] = to]

At(labels) == {t \in Threads : pc[t] \in labels}

Reserved == At({"tag", "top", "next", "pop"})
Undoing  == At({"undo"})
Linked   == At({"count"})

Held == {n \in Nodes : holders[n] > 0}

-----------------------------------------------------------------------------
(* Alloc.                                                                  *)

(* Wrong on purpose: the counter is read, and lowered by the pop.          *)
ReserveByReading(t) ==
  /\ IF count > 0
       THEN Go(t, "idle", "tag") /\ tag + Cardinality(Reserved) < MaxTag
       ELSE Go(t, "idle", "undo") /\ Cardinality(Undoing) < Cardinality(unused)
  /\ count' = IF count > 0 THEN count ELSE count - 1
  /\ UNCHANGED <<top, tag, next, unused, expTag, expTop, desTop, node, holders, chain>>

(* The fetch_sub that reserves a node or finds none.                       *)
Reserve(t) ==
  /\ IF count > 0
       THEN Go(t, "idle", "tag") /\ tag + Cardinality(Reserved) < MaxTag
       ELSE Go(t, "idle", "undo") /\ Cardinality(Undoing) < Cardinality(unused)
  /\ count' = count - 1
  /\ UNCHANGED <<top, tag, next, unused, expTag, expTop, desTop, node, holders, chain>>

(* Wrong on purpose: the counter is not given back.                        *)
AllocNodeKeepsCount(t) ==
  /\ Go(t, "undo", "idle")
  /\ \E n \in unused : /\ unused' = unused \ {n}
                       /\ holders' = [holders EXCEPT ![n] = @ + 1]
  /\ UNCHANGED <<top, tag, next, count, expTag, expTop, desTop, node, chain>>

(* Nothing to reserve: the counter is restored and a new node allocated.   *)
AllocNode(t) ==
  /\ Go(t, "undo", "idle")
  /\ count' = count + 1
  /\ \E n \in unused : /\ unused' = unused \ {n}
                       /\ holders' = [holders EXCEPT ![n] = @ + 1]
  /\ UNCHANGED <<top, tag, next, expTag, expTop, desTop, node, chain>>

ReadTag(t) ==
  /\ Go(t, "tag", "top")
  /\ expTag' = [expTag EXCEPT ![t] = tag]
  /\ UNCHANGED <<top, tag, next, count, unused, expTop, desTop, node, holders, chain>>

ReadTop(t) ==
  /\ Go(t, "top", "next")
  /\ expTop' = [expTop EXCEPT ![t] = top]
  /\ UNCHANGED <<top, tag, next, count, unused, expTag, desTop, node, holders, chain>>

(* Reads through the pointer, which may be stale.                          *)
ReadNext(t) ==
  /\ expTop[t] # Null
  /\ Go(t, "next", "pop")
  /\ desTop' = [desTop EXCEPT ![t] = next[expTop[t]]]
  /\ UNCHANGED <<top, tag, next, count, unused, expTag, expTop, node, holders, chain>>

(* Wrong on purpose: an exchange of the pointer alone.                     *)
PopUntagged(t) ==
  /\ pc[t] = "pop"
  /\ IF top = expTop[t]
       THEN /\ top' = desTop[t]
            /\ tag' = tag + 1
            /\ holders' = [holders EXCEPT ![expTop[t]] = @ + 1]
            /\ chain' = Tail(chain)
            /\ Go(t, "pop", "idle")
       ELSE Go(t, "pop", "tag") /\ UNCHANGED <<top, tag, holders, chain>>
  /\ UNCHANGED <<next, count, unused, expTag, expTop, desTop, node>>

(* The 16-byte exchange.                                                   *)
Pop(t) ==
  /\ pc[t] = "pop"
  /\ IF top = expTop[t] /\ tag = expTag[t]
       THEN /\ top' = desTop[t]
            /\ tag' = tag + 1
            /\ holders' = [holders EXCEPT ![expTop[t]] = @ + 1]
            /\ chain' = Tail(chain)
            /\ Go(t, "pop", "idle")
       ELSE Go(t, "pop", "tag") /\ UNCHANGED <<top, tag, holders, chain>>
  /\ UNCHANGED <<next, count, unused, expTag, expTop, desTop, node>>

-----------------------------------------------------------------------------
(* Free.                                                                   *)

(* Any thread may free an object, whoever allocated it.                    *)
BeginFree(t, n) ==
  /\ n \in Held
  /\ Go(t, "idle", "link")
  /\ holders' = [holders EXCEPT ![n] = @ - 1]
  /\ node' = [node EXCEPT ![t] = n]
  /\ UNCHANGED <<top, tag, next, count, unused, expTag, expTop, desTop, chain>>

(* Reads the top and stores it in the node, which only stale readers see.  *)
Link(t) ==
  /\ Go(t, "link", "push")
  /\ desTop' = [desTop EXCEPT ![t] = top]
  /\ next' = [next EXCEPT ![node[t]] = top]
  /\ UNCHANGED <<top, tag, count, unused, expTag, expTop, node, holders, chain>>

(* The 8-byte exchange of the pointer.                                     *)
Push(t) ==
  /\ pc[t] = "push"
  /\ IF top = desTop[t]
       THEN /\ top' = node[t]
            /\ chain' = <<node[t]>> \o chain
            /\ Go(t, "push", "count")
       ELSE Go(t, "push", "link") /\ UNCHANGED <<top, chain>>
  /\ UNCHANGED <<tag, next, count, unused, expTag, expTop, desTop, node, holders>>

AddCount(t) ==
  /\ Go(t, "count", "idle")
  /\ count' = count + 1
  /\ node' = [node EXCEPT ![t] = Null]
  /\ UNCHANGED <<top, tag, next, unused, expTag, expTop, desTop, holders, chain>>

-----------------------------------------------------------------------------
AllocStep(t) == \/ Reserve(t) \/ AllocNode(t) \/ ReadTag(t)
                \/ ReadTop(t) \/ ReadNext(t)  \/ Pop(t)

FreeStep(t) == \/ \E n \in Nodes : BeginFree(t, n)
               \/ Link(t) \/ Push(t) \/ AddCount(t)

Next == \E t \in Threads : AllocStep(t) \/ FreeStep(t)

Spec == Init /\ [][Next]_vars

-----------------------------------------------------------------------------
(* Properties.                                                             *)

Labels == {"idle", "undo", "tag", "top", "next", "pop", "link", "push", "count"}

TypeOK ==
  /\ top \in Nodes \cup {Null}
  /\ tag \in Nat
  /\ next \in [Nodes -> Nodes \cup {Null}]
  /\ count \in Int /\ count >= -Cardinality(Undoing)
  /\ unused \subseteq Nodes
  /\ pc \in [Threads -> Labels]
  /\ expTag \in [Threads -> Nat]
  /\ expTop \in [Threads -> Nodes \cup {Null}]
  /\ desTop \in [Threads -> Nodes \cup {Null}]
  /\ node \in [Threads -> Nodes \cup {Null}]
  /\ holders \in [Nodes -> Nat]
  /\ chain \in Seq(Nodes)

(* The pointers form exactly the stack of pushed and not yet popped nodes: *)
(* no exchange that succeeds ever installs a stale next pointer, although  *)
(* nodes are reused and pushes do not change the tag.                      *)
ChainIntact ==
  /\ top = IF chain = << >> THEN Null ELSE chain[1]
  /\ \A i \in 1..Len(chain) :
       next[chain[i]] = IF i = Len(chain) THEN Null ELSE chain[i + 1]

InChain(n) == \E i \in 1..Len(chain) : chain[i] = n

(* Being freed and not linked yet.                                         *)
Freeing(t, n) == pc[t] \in {"link", "push"} /\ node[t] = n

(* A node is in one place: unused, in the chain once, in the hands of one  *)
(* caller, or being freed by one thread.                                   *)
NodeHasOneOwner ==
  /\ \A i, j \in 1..Len(chain) : chain[i] = chain[j] => i = j
  /\ \A n \in Nodes : holders[n] <= 1
  /\ unused \cap Held = {}
  /\ \A n \in unused \cup Held : ~InChain(n)
  /\ \A t \in Threads : \A n \in Nodes : Freeing(t, n) =>
       /\ n \notin unused \cup Held
       /\ ~InChain(n)
       /\ \A u \in Threads : Freeing(u, n) => u = t

(* A thread that has reserved a node never reads through a null top        *)
(* (ObjectPool.h:100 does so without a test).                              *)
ReservedFindsNode == \A t \in Threads : pc[t] = "next" => expTop[t] # Null

(* ObjectPool.h:70: when nobody is inside Alloc or Free, the counter is    *)
(* the number of nodes in the pool.                                        *)
PoolingCountIsExact ==
  (\A t \in Threads : pc[t] = "idle") => count = Len(chain)

(* Alloc never returns a node that somebody holds, and a node leaves its   *)
(* holder by Free only.                                                    *)
Allocator == INSTANCE FreeList WITH Items <- Nodes, held <- holders

ImplementsFreeList == Allocator!Spec
=============================================================================
