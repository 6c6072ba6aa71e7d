----------------------------- MODULE LockFreeQueue -----------------------------
(***************************************************************************)
(* LockFreeQueue: a list of nodes behind a dummy, with tagged head and     *)
(* tail pointers and a counter.  TryEnqueue tests the counter, links its   *)
(* node with an exchange that carries no tag, moves the tail and counts    *)
(* the node; TryDequeue reserves an element by lowering the counter and    *)
(* only then takes the node behind the head.  Nodes come from the object   *)
(* allocator: a node that was dequeued may be handed out again while an    *)
(* enqueuer still holds a pointer to it.                                   *)
(*                                                                         *)
(* Every step is one access to shared memory.  The engine's queues have    *)
(* many producers and one consumer at a time (the holder of mbAcquire, the *)
(* holder of mbSendRegistered), which Reserve assumes; the head is then    *)
(* written by nobody else, and ReadHead reads its two words in one step.   *)
(* On x64 compare_exchange_weak does not fail spuriously.                  *)
(***************************************************************************)
EXTENDS Integers, Sequences, FiniteSets

CONSTANTS
  Threads,   \* the threads that enqueue and dequeue
  Values,    \* the data, each enqueued at most once
  Nodes,     \* bound: the nodes the allocator can hand out
  MaxCount,  \* mMaxCount
  Null       \* the null pointer, and the value of T{}

ASSUME QueueAssumption ==
  /\ IsFiniteSet(Threads) /\ IsFiniteSet(Nodes)
  /\ MaxCount \in Nat \ {0}
  /\ Null \notin Nodes \cup Values

VARIABLES
  head, tail,   \* mHead, mTail: pointer and tag
  next, data,   \* the nodes
  count,        \* mCount
  held,         \* held[n]: how often n is handed out by the allocator
  fresh,        \* values nobody has tried to enqueue
  alive,        \* the queue has not been destroyed
  pc,           \* where the thread is
  val, node,    \* TryEnqueue: data and pDesired
  seen,         \* TryEnqueue: mTail.pNode, read for the link
  mine,         \* moveTail: expected, and desired.pNode
  ret,          \* where moveTail returns to
  exp, des,     \* TryDequeue: expected, desired
  out,          \* TryDequeue: outData
  walk,         \* Clear: pNode
  taken,        \* history: what TryDequeue has returned
  chain,        \* history: the dummy and the nodes linked behind it
  stale,        \* history: enqueuers whose seen node was deleted meanwhile
  recycled      \* history: such an enqueuer has linked its node to it

memory == <<head, tail, next, data, count, held>>
enq    == <<val, node, seen>>
move   == <<mine, ret>>
deq    == <<exp, des, out>>
life   == <<fresh, alive, walk>>
past   == <<taken, chain, stale, recycled>>
vars   == <<memory, enq, move, deq, life, past, pc>>

Pointer == [node : Nodes \cup {Null}, tag : Nat]
Nil     == [node |-> Null, tag |-> 0]
Nowhere == [node |-> Null, tag |-> 0, next |-> Null]

EnqueueSteps == {"new", "tail", "link", "count"}
MoveSteps    == {"mtag", "mnode", "mnext", "mcas"}
DequeueSteps == {"undo", "check", "head", "next", "copy", "swing", "delete"}
Labels       == {"idle"} \cup EnqueueSteps \cup MoveSteps \cup DequeueSteps

Init ==
  /\ \E dummy \in Nodes :
       /\ head = [node |-> dummy, tag |-> 0]
       /\ tail = [node |-> dummy, tag |-> 0]
       /\ held = [n \in Nodes |-> IF n = dummy THEN 1 ELSE 0]
       /\ chain = <<dummy>>
  /\ next = [n \in Nodes |-> Null]
  /\ data = [n \in Nodes |-> Null]
  /\ count = 0
  /\ fresh = Values
  /\ alive = TRUE
  /\ walk = Null
  /\ pc   = [t \in Threads |-> "idle"]
  /\ val  = [t \in Threads |-> Null]
  /\ node = [t \in Threads |-> Null]
  /\ seen = [t \in Threads |-> Null]
  /\ mine = [t \in Threads |-> Nowhere]
  /\ ret  = [t \in Threads |-> "idle"]
  /\ exp  = [t \in Threads |-> Nil]
  /\ des  = [t \in Threads |-> Nil]
  /\ out  = [t \in Threads |-> Null]
  /\ taken = << >>
  /\ stale = {}
  /\ recycled = FALSE

Go(t, from, to) == pc[t] = from /\ pc' = [pc EXCEPT ![t] = to]

-----------------------------------------------------------------------------
(* TryEnqueue.                                                             *)

(* The test of the counter; a full queue refuses.                          *)
TryEnqueue(t, v) ==
  /\ alive
  /\ v \in fresh
  /\ fresh' = fresh \ {v}
  /\ IF count >= MaxCount
       THEN Go(t, "idle", "idle") /\ UNCHANGED val
       ELSE Go(t, "idle", "new") /\ val' = [val EXCEPT ![t] = v]
  /\ UNCHANGED <<memory, node, seen, move, deq, alive, walk, past>>

NewNode(t) ==
  /\ Go(t, "new", "tail")
  /\ \E n \in {m \in Nodes : held[m] = 0} :
       /\ held' = [held EXCEPT ![n] = 1]
       /\ data' = [data EXCEPT ![n] = val[t]]
       /\ next' = [next EXCEPT ![n] = Null]
       /\ node' = [node EXCEPT ![t] = n]
  /\ UNCHANGED <<head, tail, count, val, seen, move, deq, life, past>>

ReadTail(t) ==
  /\ Go(t, "tail", "link")
  /\ seen' = [seen EXCEPT ![t] = tail.node]
  /\ stale' = stale \ {t}
  /\ UNCHANGED <<memory, val, node, move, deq, life, taken, chain, recycled>>

CallMoveTail(t, from, back) ==
  /\ Go(t, from, "mtag")
  /\ ret' = [ret EXCEPT ![t] = back]
  /\ UNCHANGED mine

(* Wrong on purpose: the link is not an exchange.                          *)
LinkByStore(t) ==
  /\ pc[t] = "link"
  /\ next' = [next EXCEPT ![seen[t]] = node[t]]
  /\ chain' = Append(chain, node[t])
  /\ recycled' = (recycled \/ t \in stale)
  /\ CallMoveTail(t, "link", "count")
  /\ UNCHANGED <<head, tail, data, count, held, enq, deq, life, taken, stale>>

(* Wrong on purpose: counted before the tail has been moved.               *)
LinkAndCount(t) ==
  /\ pc[t] = "link"
  /\ IF next[seen[t]] = Null
       THEN /\ next' = [next EXCEPT ![seen[t]] = node[t]]
            /\ chain' = Append(chain, node[t])
            /\ recycled' = (recycled \/ t \in stale)
            /\ Go(t, "link", "count")
            /\ UNCHANGED <<mine, ret>>
       ELSE /\ CallMoveTail(t, "link", "tail")
            /\ UNCHANGED <<next, chain, recycled>>
  /\ UNCHANGED <<head, tail, data, count, held, enq, deq, life, taken, stale>>

(* The link exchange: null for pDesired, through a pointer that may be     *)
(* stale.  Lines 65 and 66 read the tail twice; a link needs the second    *)
(* one, and the test of the first can only add a failed exchange.          *)
Link(t) ==
  /\ pc[t] = "link"
  /\ IF next[seen[t]] = Null
       THEN /\ next' = [next EXCEPT ![seen[t]] = node[t]]
            /\ chain' = Append(chain, node[t])
            /\ recycled' = (recycled \/ t \in stale)
            /\ CallMoveTail(t, "link", "count")
       ELSE /\ CallMoveTail(t, "link", "tail")
            /\ UNCHANGED <<next, chain, recycled>>
  /\ UNCHANGED <<head, tail, data, count, held, enq, deq, life, taken, stale>>

AddCount(t) ==
  /\ Go(t, "count", "idle")
  /\ count' = count + 1
  /\ val' = [val EXCEPT ![t] = Null]
  /\ node' = [node EXCEPT ![t] = Null]
  /\ seen' = [seen EXCEPT ![t] = Null]
  /\ stale' = stale \ {t}
  /\ UNCHANGED <<head, tail, next, data, held, move, deq, life,
                 taken, chain, recycled>>

-----------------------------------------------------------------------------
(* moveTail: count, pointer, next, exchange; failures are not repeated.    *)

MoveReadTag(t) ==
  /\ Go(t, "mtag", "mnode")
  /\ mine' = [mine EXCEPT ![t].tag = tail.tag]
  /\ UNCHANGED <<memory, enq, ret, deq, life, past>>

MoveReadNode(t) ==
  /\ Go(t, "mnode", "mnext")
  /\ mine' = [mine EXCEPT ![t].node = tail.node]
  /\ UNCHANGED <<memory, enq, ret, deq, life, past>>

MoveReturn(t, from) ==
  /\ Go(t, from, ret[t])
  /\ mine' = [mine EXCEPT ![t] = Nowhere]
  /\ ret' = [ret EXCEPT ![t] = "idle"]

MoveReadNext(t) ==
  /\ pc[t] = "mnext"
  /\ IF next[mine[t].node] = Null
       THEN MoveReturn(t, "mnext")
       ELSE /\ Go(t, "mnext", "mcas")
            /\ mine' = [mine EXCEPT ![t].next = next[mine[t].node]]
            /\ UNCHANGED ret
  /\ UNCHANGED <<memory, enq, deq, life, past>>

MoveExchange(t) ==
  /\ MoveReturn(t, "mcas")
  /\ tail' = IF tail = [node |-> mine[t].node, tag |-> mine[t].tag]
               THEN [node |-> mine[t].next, tag |-> mine[t].tag + 1]
               ELSE tail
  /\ UNCHANGED <<head, next, data, count, held, enq, deq, life, past>>

-----------------------------------------------------------------------------
(* TryDequeue.                                                             *)

Dequeuing(t) == \/ pc[t] \in DequeueSteps
                \/ pc[t] \in MoveSteps /\ ret[t] = "swing"

(* The fetch_sub that reserves an element, or finds none.                  *)
Reserve(t) ==
  /\ alive
  /\ \A u \in Threads : ~Dequeuing(u)
  /\ IF count <= 0 THEN Go(t, "idle", "undo") ELSE Go(t, "idle", "check")
  /\ count' = count - 1
  /\ UNCHANGED <<head, tail, next, data, held, enq, move, deq, life, past>>

Undo(t) ==
  /\ Go(t, "undo", "idle")
  /\ count' = count + 1
  /\ UNCHANGED <<head, tail, next, data, held, enq, move, deq, life, past>>

(* Head and tail meet: moveTail, and "continue" goes to the exchange with  *)
(* whatever expected and desired hold.                                     *)
Check(t) ==
  /\ pc[t] = "check"
  /\ IF head.node = tail.node
       THEN CallMoveTail(t, "check", "swing")
       ELSE Go(t, "check", "head") /\ UNCHANGED move
  /\ UNCHANGED <<memory, enq, deq, life, past>>

ReadHead(t) ==
  /\ IF head.node = Null THEN Go(t, "head", "swing") ELSE Go(t, "head", "next")
  /\ exp' = [exp EXCEPT ![t] = head]
  /\ UNCHANGED <<memory, enq, move, des, out, life, past>>

ReadNext(t) ==
  LET n == next[exp[t].node] IN
  /\ pc[t] = "next"
  /\ IF n = Null THEN Go(t, "next", "swing") ELSE Go(t, "next", "copy")
  /\ des' = [des EXCEPT ![t] = [node |-> n, tag |-> exp[t].tag + 1]]
  /\ UNCHANGED <<memory, enq, move, exp, out, life, past>>

Copy(t) ==
  /\ Go(t, "copy", "swing")
  /\ out' = [out EXCEPT ![t] = data[des[t].node]]
  /\ UNCHANGED <<memory, enq, move, exp, des, life, past>>

(* The exchange of the head; a failure loads the head into expected.       *)
Swing(t) ==
  /\ pc[t] = "swing"
  /\ IF head = exp[t]
       THEN /\ Go(t, "swing", "delete")
            /\ head' = des[t]
            /\ taken' = Append(taken, out[t])
            /\ chain' = Tail(chain)
            /\ UNCHANGED exp
       ELSE /\ Go(t, "swing", "check")
            /\ exp' = [exp EXCEPT ![t] = head]
            /\ UNCHANGED <<head, taken, chain>>
  /\ UNCHANGED <<tail, next, data, count, held, enq, move, des, out, life,
                 stale, recycled>>

(* Enqueuers between their read of the tail and their link whose node is n.*)
Looking(n) == {t \in Threads : pc[t] = "link" /\ seen[t] = n}

(* Wrong on purpose: the new dummy is deleted instead of the old one.      *)
DeleteNewDummy(t) ==
  /\ Go(t, "delete", "idle")
  /\ held' = [held EXCEPT ![des[t].node] = @ - 1]
  /\ stale' = stale \cup Looking(des[t].node)
  /\ exp' = [exp EXCEPT ![t] = Nil]
  /\ des' = [des EXCEPT ![t] = Nil]
  /\ out' = [out EXCEPT ![t] = Null]
  /\ UNCHANGED <<head, tail, next, data, count, enq, move, life,
                 taken, chain, recycled>>

DeleteNode(t) ==
  /\ Go(t, "delete", "idle")
  /\ held' = [held EXCEPT ![exp[t].node] = @ - 1]
  /\ stale' = stale \cup Looking(exp[t].node)
  /\ exp' = [exp EXCEPT ![t] = Nil]
  /\ des' = [des EXCEPT ![t] = Nil]
  /\ out' = [out EXCEPT ![t] = Null]
  /\ UNCHANGED <<head, tail, next, data, count, enq, move, life,
                 taken, chain, recycled>>

-----------------------------------------------------------------------------
(* The destructor's Clear, when nobody uses the queue any more.            *)

BeginClear ==
  /\ alive
  /\ \A t \in Threads : pc[t] = "idle"
  /\ alive' = FALSE
  /\ walk' = head.node
  /\ UNCHANGED <<memory, enq, move, deq, fresh, past, pc>>

ClearNode ==
  /\ walk # Null
  /\ walk' = next[walk]
  /\ held' = [held EXCEPT ![walk] = @ - 1]
  /\ chain' = SubSeq(chain, 2, Len(chain))
  /\ UNCHANGED <<head, tail, next, data, count, enq, move, deq, fresh, alive,
                 taken, stale, recycled, pc>>

-----------------------------------------------------------------------------
EnqueueStep(t) == \/ NewNode(t) \/ ReadTail(t) \/ Link(t) \/ AddCount(t)

MoveTailStep(t) == \/ MoveReadTag(t)  \/ MoveReadNode(t)
                   \/ MoveReadNext(t) \/ MoveExchange(t)

DequeueStep(t) == \/ Undo(t)     \/ Check(t) \/ ReadHead(t)
                  \/ ReadNext(t) \/ Copy(t)  \/ Swing(t)    \/ DeleteNode(t)

(* A link to a recycled node corrupts a list in somebody else's hands;     *)
(* what follows is undefined and not pursued.                              *)
Next ==
  /\ ~recycled
  /\ \/ \E t \in Threads : \/ \E v \in Values : TryEnqueue(t, v)
                           \/ EnqueueStep(t)
                           \/ MoveTailStep(t)
                           \/ Reserve(t)
                           \/ DequeueStep(t)
     \/ BeginClear
     \/ ClearNode

Spec == Init /\ [][Next]_vars

-----------------------------------------------------------------------------
(* Properties.                                                             *)

TypeOK ==
  /\ head \in Pointer /\ tail \in Pointer
  /\ next \in [Nodes -> Nodes \cup {Null}]
  /\ data \in [Nodes -> Values \cup {Null}]
  /\ count \in Int
  /\ held \in [Nodes -> 0..1]
  /\ fresh \subseteq Values
  /\ alive \in BOOLEAN
  /\ walk \in Nodes \cup {Null}
  /\ pc \in [Threads -> Labels]
  /\ val \in [Threads -> Values \cup {Null}]
  /\ node \in [Threads -> Nodes \cup {Null}]
  /\ seen \in [Threads -> Nodes \cup {Null}]
  /\ mine \in [Threads -> [node : Nodes \cup {Null}, tag : Nat,
                           next : Nodes \cup {Null}]]
  /\ ret \in [Threads -> {"idle", "tail", "count", "swing"}]
  /\ exp \in [Threads -> Pointer]
  /\ des \in [Threads -> Pointer]
  /\ out \in [Threads -> Values \cup {Null}]
  /\ taken \in Seq(Values)
  /\ chain \in Seq(Nodes)
  /\ stale \subseteq Threads
  /\ recycled \in BOOLEAN

(* Line 100: "continue" runs the exchange with the expected and desired of *)
(* an earlier pass, and a second pass would put null into the head.  A     *)
(* single consumer never gets there: whoever has reserved an element finds *)
(* the tail ahead of the head and a node behind the head, because every    *)
(* enqueuer has moved the tail past its node before it counts it.          *)
ReservedFindsNode ==
  ~recycled =>
    \A t \in Threads :
      /\ pc[t] = "check" => head.node # tail.node
      /\ pc[t] = "next" => next[exp[t].node] # Null
      /\ pc[t] = "swing" => head = exp[t]

(* The allocator's view: a node in hand is linked, or in the hands of the  *)
(* enqueuer that will link it, or of the consumer that will delete it, and *)
(* in one of them only; the destructor gives the rest back.                *)
LinkedNodes == {chain[i] : i \in 1..Len(chain)}
Unlinked    == {t \in Threads : \/ pc[t] \in {"tail", "link"}
                                \/ pc[t] \in MoveSteps /\ ret[t] = "tail"}
Unfreed     == {t \in Threads : pc[t] = "delete"}

NodesAccounted ==
  ~recycled =>
    \A n \in Nodes :
      held[n] = (IF n \in LinkedNodes THEN 1 ELSE 0)
                + Cardinality({t \in Unlinked : node[t] = n})
                + Cardinality({t \in Unfreed : exp[t].node = n})

(* The queue is a FIFO queue of what its nodes carry, as long as no        *)
(* enqueuer links its node to one that was deleted after it had read it    *)
(* (line 67: the exchange carries no tag).                                 *)
Contents == [i \in 1..(Len(chain) - 1) |-> data[chain[i + 1]]]

Fifo == INSTANCE FifoQueue WITH Elements <- Values, items <- Contents

ImplementsFifo ==
  Fifo!Init /\ [][alive' /\ ~recycled' => Fifo!Next]_<<Contents, taken>>
================================================================================
