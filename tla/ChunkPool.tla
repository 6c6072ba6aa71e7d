------------------------------ MODULE ChunkPool ------------------------------
(***************************************************************************)
(* TlsObjectPool and MemoryPool: objects are carved out of chunks.  A      *)
(* thread hands objects out of its own chunk (spTlsChunk) without          *)
(* synchronisation and takes the next chunk together with the last object; *)
(* any thread gives objects back by counting them in their chunk, and the  *)
(* one that counts the last resets the chunk and returns it to the         *)
(* ObjectPool of chunks, which is used here as the FreeList it implements. *)
(*                                                                         *)
(* A thread that ends takes its chunk with it; AllFree is never called.    *)
(* mAllocCount of TlsObjectPool is total; MemoryPool has no such counter.  *)
(***************************************************************************)
EXTENDS Integers, FiniteSets

CONSTANTS
  Threads,    \* the threads that allocate and free
  Chunks,     \* bound: the chunks the pool can get
  ChunkSize,  \* CHUNK_SIZE
  Null        \* the null pointer

Objects == Chunks \X (1..ChunkSize)

ASSUME ChunkAssumption ==
  /\ IsFiniteSet(Threads)
  /\ IsFiniteSet(Chunks)
  /\ ChunkSize \in Nat \ {0}
  /\ Null \notin Chunks /\ Null \notin Objects

VARIABLES
  inUse,    \* inUse[c]: 1 when c is taken from mObjectPool
  alloc,    \* alloc[c]: mAllocCount of the chunk
  free,     \* free[c]: mFreeCount of the chunk
  current,  \* current[t]: spTlsChunk
  held,     \* held[o]: how many callers hold o
  total,    \* mAllocCount of the pool
  pc,       \* where the thread is
  got,      \* got[t]: pData of the Alloc in progress
  victim    \* victim[t]: pChunk of the Free in progress

vars == <<inUse, alloc, free, current, held, total, pc, got, victim>>

Pool == INSTANCE FreeList WITH Items <- Chunks, held <- inUse

Init ==
  /\ inUse = [c \in Chunks |-> 0]
  /\ alloc = [c \in Chunks |-> 0]
  /\ free = [c \in Chunks |-> 0]
  /\ current = [t \in Threads |-> Null]
  /\ held = [o \in Objects |-> 0]
  /\ total = 0
  /\ pc = [t \in Threads |-> "idle"]
  /\ got = [t \in Threads |-> Null]
  /\ victim = [t \in Threads |-> Null]

Go(t, from, to) == pc[t] = from /\ pc' = [pc EXCEPT ![t] = to]

-----------------------------------------------------------------------------
(* Alloc.                                                                  *)
AllocBegin(t) ==
  /\ Go(t, "idle", IF current[t] = Null THEN "first" ELSE "data")
  /\ total' = total + 1
  /\ UNCHANGED <<inUse, alloc, free, current, held, got, victim>>

FirstChunk(t) ==
  /\ Go(t, "first", "data")
  /\ \E c \in Chunks : /\ Pool!Take(c)
                       /\ current' = [current EXCEPT ![t] = c]
  /\ UNCHANGED <<alloc, free, held, total, got, victim>>

(* Wrong on purpose: the next chunk is not fetched with the last object.   *)
GetDataNoRefill(t) ==
  LET c == current[t]
      o == <<c, alloc[c] + 1>>
  IN  /\ Go(t, "data", "idle")
      /\ alloc' = [alloc EXCEPT ![c] = @ + 1]
      /\ held' = [held EXCEPT ![o] = @ + 1]
      /\ UNCHANGED <<inUse, free, current, total, got, victim>>

(* The chunk always has room (ChunkHasRoom), so the object is never null.  *)
GetData(t) ==
  LET c == current[t]
      o == <<c, alloc[c] + 1>>
  IN  /\ pc[t] = "data"
      /\ alloc' = [alloc EXCEPT ![c] = @ + 1]
      /\ \/ /\ alloc[c] + 1 < ChunkSize
            /\ Go(t, "data", "idle")
            /\ held' = [held EXCEPT ![o] = @ + 1]
            /\ UNCHANGED got
         \/ /\ alloc[c] + 1 = ChunkSize
            /\ Go(t, "data", "refill")
            /\ got' = [got EXCEPT ![t] = o]
            /\ UNCHANGED held
      /\ UNCHANGED <<inUse, free, current, total, victim>>

Refill(t) ==
  /\ Go(t, "refill", "idle")
  /\ \E c \in Chunks : /\ Pool!Take(c)
                       /\ current' = [current EXCEPT ![t] = c]
  /\ held' = [held EXCEPT ![got[t]] = @ + 1]
  /\ got' = [got EXCEPT ![t] = Null]
  /\ UNCHANGED <<alloc, free, total, victim>>

-----------------------------------------------------------------------------
(* Free.                                                                   *)

(* Wrong on purpose: the last object but one counts as the last.           *)
FreeObjectEarly(t, c, i) ==
  /\ held[<<c, i>>] > 0
  /\ Go(t, "idle", IF free[c] >= ChunkSize - 2 THEN "reset" ELSE "uncount")
  /\ held' = [held EXCEPT ![<<c, i>>] = @ - 1]
  /\ free' = [free EXCEPT ![c] = @ + 1]
  /\ victim' = [victim EXCEPT ![t] = c]
  /\ UNCHANGED <<inUse, alloc, current, total, got>>

FreeObject(t, c, i) ==
  /\ held[<<c, i>>] > 0
  /\ Go(t, "idle", IF free[c] = ChunkSize - 1 THEN "reset" ELSE "uncount")
  /\ held' = [held EXCEPT ![<<c, i>>] = @ - 1]
  /\ free' = [free EXCEPT ![c] = @ + 1]
  /\ victim' = [victim EXCEPT ![t] = c]
  /\ UNCHANGED <<inUse, alloc, current, total, got>>

(* Wrong on purpose: the count of objects handed out stays.                *)
KeepAllocCount(t) ==
  /\ Go(t, "reset", "resetFree")
  /\ UNCHANGED <<inUse, alloc, free, current, held, total, got, victim>>

ResetAlloc(t) ==
  /\ Go(t, "reset", "resetFree")
  /\ alloc' = [alloc EXCEPT ![victim[t]] = 0]
  /\ UNCHANGED <<inUse, free, current, held, total, got, victim>>

ResetFree(t) ==
  /\ Go(t, "resetFree", "return")
  /\ free' = [free EXCEPT ![victim[t]] = 0]
  /\ UNCHANGED <<inUse, alloc, current, held, total, got, victim>>

ReturnChunk(t) ==
  /\ Go(t, "return", "uncount")
  /\ Pool!Give(victim[t])
  /\ UNCHANGED <<alloc, free, current, held, total, got, victim>>

Uncount(t) ==
  /\ Go(t, "uncount", "idle")
  /\ total' = total - 1
  /\ victim' = [victim EXCEPT ![t] = Null]
  /\ UNCHANGED <<inUse, alloc, free, current, held, got>>

-----------------------------------------------------------------------------
AllocStep(t) == AllocBegin(t) \/ FirstChunk(t) \/ GetData(t) \/ Refill(t)

FreeStep(t) == \/ \E c \in Chunks, i \in 1..ChunkSize : FreeObject(t, c, i)
               \/ ResetAlloc(t) \/ ResetFree(t) \/ ReturnChunk(t) \/ Uncount(t)

Next == \E t \in Threads : AllocStep(t) \/ FreeStep(t)

Spec == Init /\ [][Next]_vars

-----------------------------------------------------------------------------
(* Properties.                                                             *)

Labels == {"idle", "first", "data", "refill",
           "reset", "resetFree", "return", "uncount"}

Resetting == {"reset", "resetFree", "return"}

TypeOK ==
  /\ inUse \in [Chunks -> {0, 1}]
  /\ alloc \in [Chunks -> 0..ChunkSize]
  /\ free \in [Chunks -> 0..ChunkSize]
  /\ current \in [Threads -> Chunks \cup {Null}]
  /\ held \in [Objects -> Nat]
  /\ total \in Nat
  /\ pc \in [Threads -> Labels]
  /\ got \in [Threads -> Objects \cup {Null}]
  /\ victim \in [Threads -> Chunks \cup {Null}]

(* GetData never finds its chunk used up: Alloc never returns null.        *)
ChunkHasRoom ==
  \A t \in Threads : pc[t] = "data" =>
    current[t] # Null /\ alloc[current[t]] < ChunkSize

(* The objects of c that were handed out and not given back.               *)
Out(c) == {o \in {c} \X (1..ChunkSize) :
             held[o] > 0 \/ \E t \in Threads : got[t] = o}

(* A chunk in the pool is blank and nobody's; a thread allocates from a    *)
(* chunk no other thread allocates from or resets; the counters of a chunk *)
(* are the objects that left it and that came back.                        *)
ChunksAreAccounted ==
  /\ \A c \in Chunks : inUse[c] = 0 =>
       alloc[c] = 0 /\ free[c] = 0 /\ Out(c) = {}
  /\ \A t, u \in Threads : pc[t] # "refill" /\ current[t] # Null =>
       /\ inUse[current[t]] = 1
       /\ current[t] = current[u] => t = u
       /\ pc[u] \in Resetting => victim[u] # current[t]
  /\ \A c \in Chunks :
       /\ inUse[c] = 1
       /\ \A t \in Threads : pc[t] \in Resetting => victim[t] # c
       => alloc[c] - free[c] = Cardinality(Out(c))

(* The objects are handed out like the items of a free list.               *)
ObjectList == INSTANCE FreeList WITH Items <- Objects

ImplementsFreeList == ObjectList!Spec
===============================================================================
