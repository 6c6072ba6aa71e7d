--------------------------- MODULE ChunkPoolProofs ---------------------------
(***************************************************************************)
(* Theorems about ChunkPool: no object is in two hands although the owner  *)
(* of a chunk counts without synchronisation, and Alloc never returns null.*)
(***************************************************************************)
EXTENDS ChunkPool, FiniteSetTheorems, TLAPS

USE DEF Objects

(* One caller has an object, and none yet the last one of a chunk while    *)
(* the thread that has taken it looks for its next chunk.                  *)
HandedOnce ==
  /\ \A o \in Objects : held[o] \in {0, 1}
  /\ \A t \in Threads : got[t] # Null => held[got[t]] = 0

(* A chunk hands its objects out in their order in the chunk.              *)
HandedBelow ==
  \A c \in Chunks : \A i \in 1..ChunkSize : <<c, i>> \in Out(c) => i <= alloc[c]

(* What the position of a thread in Alloc says of its chunk.               *)
StepKnowsChunk ==
  \A t \in Threads :
    /\ pc[t] = "first" => current[t] = Null
    /\ pc[t] \in {"data", "refill"} => current[t] # Null
    /\ pc[t] = "refill" => /\ alloc[current[t]] = ChunkSize
                           /\ got[t] = <<current[t], ChunkSize>>
    /\ pc[t] # "refill" => got[t] = Null

(* The chunk of a thread is its own, and outside Alloc it has room: the    *)
(* thread got its next chunk together with the last object of this one.    *)
OwnChunk ==
  \A t \in Threads : current[t] # Null =>
    /\ inUse[current[t]] = 1
    /\ pc[t] # "refill" => alloc[current[t]] < ChunkSize
    /\ \A u \in Threads : /\ current[u] = current[t] => u = t
                          /\ pc[u] \in Resetting => victim[u] # current[t]

(* Whoever counts the last object of a chunk has it for itself: nothing of *)
(* it is in anybody's hands and nobody else resets it.                     *)
ResetIsAlone ==
  \A t \in Threads : pc[t] \in Resetting =>
    /\ victim[t] # Null
    /\ inUse[victim[t]] = 1
    /\ Out(victim[t]) = {}
    /\ alloc[victim[t]] = IF pc[t] = "reset" THEN ChunkSize ELSE 0
    /\ free[victim[t]] = IF pc[t] = "return" THEN 0 ELSE ChunkSize
    /\ \A u \in Threads : pc[u] \in Resetting /\ victim[u] = victim[t] => u = t

(* A chunk in the pool has nothing counted.                                *)
PooledIsBlank == \A c \in Chunks : inUse[c] = 0 => alloc[c] = 0 /\ free[c] = 0

(* The counters of a chunk that nobody resets tell how many of its objects *)
(* are out, which is why the last to count knows that it is the last.      *)
Untouched(c) == \A t \in Threads : pc[t] \in Resetting => victim[t] # c

CountersAgree ==
  \A c \in Chunks : inUse[c] = 1 /\ Untouched(c) =>
    alloc[c] - free[c] = Cardinality(Out(c))

(* The count of the pool: the objects out, and one for every thread inside *)
(* Alloc or Free.                                                          *)
Taken == {o \in Objects : held[o] = 1}
Busy  == {t \in Threads : pc[t] # "idle"}

TotalIsExact == total = Cardinality(Taken) + Cardinality(Busy)

IInv == /\ TypeOK
        /\ HandedOnce
        /\ HandedBelow
        /\ StepKnowsChunk
        /\ OwnChunk
        /\ ResetIsAlone
        /\ PooledIsBlank
        /\ CountersAgree
        /\ TotalIsExact

-----------------------------------------------------------------------------
(* Finite sets.                                                            *)

(* The sets that are counted are finite.                                   *)
LEMMA CountedSets ==
  /\ IsFiniteSet(Taken) /\ Cardinality(Taken) \in Nat
  /\ IsFiniteSet(Busy) /\ Cardinality(Busy) \in Nat
  /\ \A c \in Chunks : IsFiniteSet(Out(c)) /\ Cardinality(Out(c)) \in Nat
<1>1. IsFiniteSet(1..ChunkSize)
  BY ChunkAssumption, FS_Interval
<1>2. IsFiniteSet(Objects)
  BY <1>1, ChunkAssumption, FS_Product
<1>3. Taken \subseteq Objects /\ Busy \subseteq Threads
  BY DEF Taken, Busy
<1>4. IsFiniteSet(Taken) /\ IsFiniteSet(Busy)
  BY <1>2, <1>3, ChunkAssumption, FS_Subset
<1>5. ASSUME NEW c \in Chunks PROVE IsFiniteSet(Out(c))
  <2>1. Out(c) \subseteq Objects
    BY DEF Out
  <2> QED
    BY <2>1, <1>2, FS_Subset
<1> QED
  BY <1>4, <1>5, FS_CardinalityType

(* A thread that leaves its idle state, and one that returns to it.        *)
LEMMA BusyChanges ==
  ASSUME TypeOK, NEW t \in Threads, NEW l, pc' = [pc EXCEPT ![t] = l]
  PROVE  /\ pc[t] = "idle" /\ l # "idle" => Cardinality(Busy') = Cardinality(Busy) + 1
         /\ pc[t] # "idle" /\ l = "idle" => Cardinality(Busy') = Cardinality(Busy) - 1
<1>1. pc'[t] = l /\ \A u \in Threads \ {t} : pc'[u] = pc[u]
  BY DEF TypeOK
<1>2. ASSUME pc[t] = "idle", l # "idle"
      PROVE  Cardinality(Busy') = Cardinality(Busy) + 1
  <2>1. Busy' = Busy \cup {t} /\ t \notin Busy
    BY <1>1, <1>2 DEF Busy
  <2> QED
    BY <2>1, CountedSets, FS_AddElement
<1>3. ASSUME pc[t] # "idle", l = "idle"
      PROVE  Cardinality(Busy') = Cardinality(Busy) - 1
  <2>1. Busy' = Busy \ {t} /\ t \in Busy
    BY <1>1, <1>3 DEF Busy
  <2> QED
    BY <2>1, CountedSets, FS_RemoveElement
<1> QED
  BY <1>2, <1>3

(* An object that is handed out, and one that is given back.               *)
LEMMA TakenChanges ==
  ASSUME TypeOK, HandedOnce, NEW o \in Objects
  PROVE  /\ held[o] = 0 /\ held' = [held EXCEPT ![o] = @ + 1]
              => /\ Cardinality(Taken') = Cardinality(Taken) + 1
                 /\ \A p \in Objects : held'[p] = IF p = o THEN 1 ELSE held[p]
         /\ held[o] > 0 /\ held' = [held EXCEPT ![o] = @ - 1]
              => /\ Cardinality(Taken') = Cardinality(Taken) - 1
                 /\ \A p \in Objects : held'[p] = IF p = o THEN 0 ELSE held[p]
<1>1. ASSUME held[o] = 0, held' = [held EXCEPT ![o] = @ + 1]
      PROVE  /\ Cardinality(Taken') = Cardinality(Taken) + 1
             /\ \A p \in Objects : held'[p] = IF p = o THEN 1 ELSE held[p]
  <2>1. \A p \in Objects : held'[p] = IF p = o THEN 1 ELSE held[p]
    BY <1>1 DEF TypeOK
  <2>2. Taken' = Taken \cup {o} /\ o \notin Taken
    BY <1>1, <2>1 DEF Taken
  <2> QED
    BY <2>1, <2>2, CountedSets, FS_AddElement
<1>2. ASSUME held[o] > 0, held' = [held EXCEPT ![o] = @ - 1]
      PROVE  /\ Cardinality(Taken') = Cardinality(Taken) - 1
             /\ \A p \in Objects : held'[p] = IF p = o THEN 0 ELSE held[p]
  <2>1. held[o] = 1
    BY <1>2 DEF HandedOnce
  <2>2. \A p \in Objects : held'[p] = IF p = o THEN 0 ELSE held[p]
    BY <1>2, <2>1 DEF TypeOK
  <2>3. Taken' = Taken \ {o} /\ o \in Taken
    BY <2>1, <2>2 DEF Taken
  <2> QED
    BY <2>2, <2>3, CountedSets, FS_RemoveElement
<1> QED
  BY <1>1, <1>2

(* A thread in one step is in no other.                                    *)
LEMMA Steps ==
  /\ Resetting = {"reset", "resetFree", "return"}
  /\ \A l \in {"idle", "first", "data", "refill", "uncount"} : l \notin Resetting
  /\ \A l \in Resetting : l \in Labels
  /\ \A l \in {"idle", "first", "data", "refill", "uncount"} : l \in Labels
BY DEF Resetting, Labels

LEMMA InitIInv == Init => IInv
<1> SUFFICES ASSUME Init PROVE IInv
  OBVIOUS
<1> USE ChunkAssumption DEF Init
<1>1. \A c \in Chunks : Out(c) = {}
  BY DEF Out
<1>2. Taken = {} /\ Busy = {}
  BY DEF Taken, Busy
<1>3. TypeOK
  BY DEF TypeOK, Labels
<1>4. HandedOnce /\ HandedBelow /\ StepKnowsChunk /\ OwnChunk /\ PooledIsBlank
  BY <1>1 DEF HandedOnce, HandedBelow, StepKnowsChunk, OwnChunk, PooledIsBlank
<1>5. ResetIsAlone
  BY Steps DEF ResetIsAlone
<1>6. CountersAgree /\ TotalIsExact
  BY <1>2 , FS_EmptySet DEF CountersAgree, TotalIsExact
<1> QED
  BY <1>3, <1>4, <1>5, <1>6 DEF IInv

-----------------------------------------------------------------------------
(* Every step preserves the invariant: Alloc.                              *)

LEMMA AllocBeginKeeps ==
  ASSUME IInv, NEW t \in Threads, AllocBegin(t) PROVE IInv'
<1> DEFINE l == IF current[t] = Null THEN "first" ELSE "data"
<1> USE DEF IInv
<1>1. /\ pc[t] = "idle" /\ pc' = [pc EXCEPT ![t] = l]
      /\ total' = total + 1
      /\ UNCHANGED <<inUse, alloc, free, current, held, got, victim>>
  BY DEF AllocBegin, Go
<1>2. l \in {"first", "data"}
  OBVIOUS
<1>3. pc'[t] = l /\ \A u \in Threads \ {t} : pc'[u] = pc[u]
  BY <1>1 DEF TypeOK
<1>4. \A u \in Threads : /\ pc'[u] \in Resetting <=> pc[u] \in Resetting
                         /\ pc[u] \in Resetting => pc'[u] = pc[u]
  BY <1>1, <1>2, <1>3, Steps
<1>5. \A c \in Chunks : Out(c)' = Out(c)
  BY <1>1 DEF Out
<1>6. TypeOK'
  BY <1>1, <1>2, Steps DEF TypeOK
<1>7. HandedOnce' /\ HandedBelow' /\ PooledIsBlank'
  BY <1>1, <1>5 DEF HandedOnce, HandedBelow, PooledIsBlank
<1>8. StepKnowsChunk'
  BY <1>1, <1>3 DEF StepKnowsChunk
<1>9. OwnChunk'
  BY <1>1, <1>2, <1>3, <1>4 DEF OwnChunk
<1>10. ResetIsAlone'
  BY <1>1, <1>4, <1>5 DEF ResetIsAlone, TypeOK
<1>11. CountersAgree'
  BY <1>1, <1>4, <1>5 DEF CountersAgree, Untouched
<1>12. TotalIsExact'
  <2>1. Cardinality(Busy') = Cardinality(Busy) + 1 /\ Taken' = Taken
    BY <1>1, <1>2, BusyChanges DEF Taken
  <2> QED
    BY <1>1, <2>1, CountedSets DEF TotalIsExact
<1> QED
  BY <1>6, <1>7, <1>8, <1>9, <1>10, <1>11, <1>12

(* A chunk that comes from the pool is nobody's and blank.                 *)
LEMMA NextChunk ==
  ASSUME IInv, NEW c \in Chunks, Pool!Take(c)
  PROVE  /\ inUse[c] = 0 /\ alloc[c] = 0 /\ free[c] = 0 /\ Out(c) = {}
         /\ inUse'[c] = 1 /\ \A d \in Chunks \ {c} : inUse'[d] = inUse[d]
         /\ inUse' \in [Chunks -> {0, 1}]
         /\ \A u \in Threads : /\ current[u] # c
                               /\ pc[u] \in Resetting => victim[u] # c
<1> USE DEF IInv
<1>1. inUse[c] = 0 /\ inUse' = [inUse EXCEPT ![c] = 1]
  BY DEF Pool!Take
<1>2. alloc[c] = 0 /\ free[c] = 0
  BY <1>1 DEF PooledIsBlank
<1>3. Out(c) = {}
  <2>1. \A i \in 1..ChunkSize : <<c, i>> \notin Out(c)
    BY <1>2, ChunkAssumption DEF HandedBelow
  <2> QED
    BY <2>1 DEF Out
<1>4. \A u \in Threads : current[u] # c
  BY <1>1, ChunkAssumption DEF OwnChunk
<1>5. \A u \in Threads : pc[u] \in Resetting => victim[u] # c
  BY <1>1 DEF ResetIsAlone
<1> QED
  BY <1>1, <1>2, <1>3, <1>4, <1>5 DEF TypeOK

LEMMA FirstChunkKeeps ==
  ASSUME IInv, NEW t \in Threads, FirstChunk(t) PROVE IInv'
<1> USE DEF IInv
<1>1. PICK c \in Chunks : Pool!Take(c) /\ current' = [current EXCEPT ![t] = c]
  BY DEF FirstChunk
<1>2. /\ pc[t] = "first" /\ pc' = [pc EXCEPT ![t] = "data"]
      /\ UNCHANGED <<alloc, free, held, total, got, victim>>
  BY DEF FirstChunk, Go
<1>3. /\ pc'[t] = "data" /\ \A u \in Threads \ {t} : pc'[u] = pc[u]
      /\ current'[t] = c /\ \A u \in Threads \ {t} : current'[u] = current[u]
  BY <1>1, <1>2 DEF TypeOK
<1>4. \A u \in Threads : /\ pc'[u] \in Resetting <=> pc[u] \in Resetting
                         /\ pc[u] \in Resetting => pc'[u] = pc[u]
  BY <1>2, <1>3, Steps
<1>5. \A d \in Chunks : Out(d)' = Out(d)
  BY <1>2 DEF Out
<1>6. TypeOK'
  BY <1>1, <1>2, NextChunk, Steps DEF TypeOK
<1>7. HandedOnce' /\ HandedBelow'
  BY <1>2, <1>5 DEF HandedOnce, HandedBelow
<1>8. PooledIsBlank'
  BY <1>1, <1>2, NextChunk DEF PooledIsBlank
<1>9. StepKnowsChunk'
  BY <1>2, <1>3, ChunkAssumption DEF StepKnowsChunk
<1>10. OwnChunk'
  <2>1. ASSUME NEW u \in Threads \ {t}, current'[u] # Null
        PROVE  /\ inUse'[current'[u]] = 1
               /\ pc'[u] # "refill" => alloc'[current'[u]] < ChunkSize
               /\ \A v \in Threads :
                    /\ current'[v] = current'[u] => v = u
                    /\ pc'[v] \in Resetting => victim'[v] # current'[u]
    <3>1. current[u] \in Chunks /\ current[u] # Null /\ current[u] # c
      BY <1>1, <1>3, <2>1, NextChunk DEF TypeOK
    <3> QED
      BY <1>1, <1>2, <1>3, <1>4, <3>1, NextChunk DEF OwnChunk
  <2>2. /\ inUse'[c] = 1 /\ alloc'[c] < ChunkSize
        /\ \A v \in Threads : /\ current'[v] = c => v = t
                              /\ pc'[v] \in Resetting => victim'[v] # c
    BY <1>1, <1>2, <1>3, <1>4, NextChunk, ChunkAssumption
  <2> QED
    BY <1>3, <2>1, <2>2 DEF OwnChunk
<1>11. ResetIsAlone'
  <2>1. ASSUME NEW u \in Threads, pc[u] \in Resetting
        PROVE  victim[u] \in Chunks /\ inUse'[victim[u]] = inUse[victim[u]]
    BY <1>1, <2>1, NextChunk DEF ResetIsAlone, TypeOK
  <2> QED
    BY <1>2, <1>4, <1>5, <2>1 DEF ResetIsAlone
<1>12. CountersAgree'
  <2>1. alloc'[c] - free'[c] = Cardinality(Out(c)')
    BY <1>1, <1>2, <1>5, NextChunk, FS_EmptySet
  <2> QED
    BY <1>1, <1>2, <1>4, <1>5, <2>1, NextChunk DEF CountersAgree, Untouched
<1>13. TotalIsExact'
  <2>1. Busy' = Busy
    BY <1>2, <1>3 DEF Busy
  <2>2. Taken' = Taken
    BY <1>2 DEF Taken
  <2> QED
    BY <1>2, <2>1, <2>2 DEF TotalIsExact
<1> QED
  BY <1>6, <1>7, <1>8, <1>9, <1>10, <1>11, <1>12, <1>13

(* GetData takes an object that nobody has from a chunk that is this       *)
(* thread's alone, so the count that nothing protects is up to date.       *)
LEMMA GetDataTakes ==
  ASSUME IInv, NEW t \in Threads, GetData(t)
  PROVE  LET c == current[t]
             o == <<c, alloc[c] + 1>>
         IN  /\ pc[t] = "data" /\ c \in Chunks /\ o \in Objects
             /\ inUse[c] = 1 /\ Untouched(c) /\ alloc[c] < ChunkSize
             /\ o \notin Out(c) /\ held[o] = 0 /\ \A u \in Threads : got[u] # o
             /\ alloc' \in [Chunks -> 0..ChunkSize]
             /\ alloc'[c] = alloc[c] + 1
             /\ \A d \in Chunks \ {c} : alloc'[d] = alloc[d]
             /\ UNCHANGED <<inUse, free, current, total, victim>>
<1> USE DEF IInv
<1> DEFINE c == current[t]
           o == <<c, alloc[c] + 1>>
<1>1. pc[t] = "data" /\ alloc' = [alloc EXCEPT ![c] = @ + 1]
      /\ UNCHANGED <<inUse, free, current, total, victim>>
  BY DEF GetData
<1>2. c \in Chunks
  BY <1>1 DEF StepKnowsChunk, TypeOK
<1>3. inUse[c] = 1 /\ alloc[c] < ChunkSize /\ Untouched(c)
  BY <1>1, <1>2, ChunkAssumption DEF OwnChunk, Untouched
<1>4. alloc[c] \in Nat /\ alloc[c] + 1 \in 1..ChunkSize
  BY <1>2, <1>3, ChunkAssumption DEF TypeOK
<1>5. o \in Objects
  BY <1>2, <1>4
<1>6. o \notin Out(c)
  BY <1>2, <1>4 DEF HandedBelow
<1>7. held[o] = 0 /\ \A u \in Threads : got[u] # o
  BY <1>2, <1>4, <1>5, <1>6 DEF Out, TypeOK
<1>8. /\ alloc' \in [Chunks -> 0..ChunkSize]
      /\ alloc'[c] = alloc[c] + 1
      /\ \A d \in Chunks \ {c} : alloc'[d] = alloc[d]
  BY <1>1, <1>2, <1>4 DEF TypeOK
<1> QED
  BY <1>1, <1>2, <1>3, <1>5, <1>6, <1>7, <1>8

LEMMA GetDataKeeps ==
  ASSUME IInv, NEW t \in Threads, GetData(t) PROVE IInv'
<1> DEFINE c == current[t]
           o == <<c, alloc[c] + 1>>
           l == IF alloc[c] + 1 < ChunkSize THEN "idle" ELSE "refill"
<1>0. /\ TypeOK /\ HandedOnce /\ HandedBelow /\ StepKnowsChunk /\ OwnChunk
      /\ ResetIsAlone /\ PooledIsBlank /\ CountersAgree /\ TotalIsExact
  BY DEF IInv
<1>1. /\ pc[t] = "data" /\ c \in Chunks /\ o \in Objects
      /\ inUse[c] = 1 /\ Untouched(c) /\ alloc[c] < ChunkSize
      /\ o \notin Out(c) /\ held[o] = 0 /\ \A u \in Threads : got[u] # o
  BY GetDataTakes
<1>2. /\ alloc' \in [Chunks -> 0..ChunkSize]
      /\ alloc'[c] = alloc[c] + 1
      /\ \A d \in Chunks \ {c} : alloc'[d] = alloc[d]
      /\ UNCHANGED <<inUse, free, current, total, victim>>
  BY GetDataTakes
<1>3. alloc[c] \in Nat
  BY <1>0, <1>1 DEF TypeOK
<1>4. pc' = [pc EXCEPT ![t] = l] /\ l \in {"idle", "refill"}
  BY <1>1, <1>3, ChunkAssumption DEF GetData, Go
<1>5. pc'[t] = l /\ \A u \in Threads \ {t} : pc'[u] = pc[u]
  BY <1>0, <1>4 DEF TypeOK
<1>6. \A u \in Threads : /\ pc'[u] \in Resetting <=> pc[u] \in Resetting
                         /\ pc[u] \in Resetting => pc'[u] = pc[u]
  BY <1>1, <1>4, <1>5, Steps
(* The object goes to the caller, or is kept while a chunk is fetched.     *)
<1>7. ASSUME l = "idle"
      PROVE  /\ TotalIsExact' /\ HandedOnce' /\ StepKnowsChunk'
             /\ held' \in [Objects -> Nat] /\ got' \in [Threads -> Objects \cup {Null}]
             /\ Out(c)' = Out(c) \cup {o} /\ \A d \in Chunks \ {c} : Out(d)' = Out(d)
  <2>1. held' = [held EXCEPT ![o] = @ + 1] /\ got' = got
    BY <1>7, <1>1, <1>3, ChunkAssumption DEF GetData
  <2>2. \A p \in Objects : held'[p] = IF p = o THEN 1 ELSE held[p]
    BY <2>1, <1>0, <1>1, TakenChanges
  <2>3. Cardinality(Taken') = Cardinality(Taken) + 1
    BY <2>1, <1>0, <1>1, TakenChanges
  <2>4. Cardinality(Busy') = Cardinality(Busy) - 1
    BY <1>7, <1>0, <1>1, <1>4, BusyChanges
  <2>5. TotalIsExact'
    BY <1>0, <1>2, <2>3, <2>4, CountedSets DEF TotalIsExact
  <2>6. held' \in [Objects -> Nat] /\ got' \in [Threads -> Objects \cup {Null}]
    BY <2>1, <1>0, <1>1 DEF TypeOK
  <2>7. Out(c)' = Out(c) \cup {o} /\ \A d \in Chunks \ {c} : Out(d)' = Out(d)
    <3>1. \A p \in Objects : p # o => (held'[p] > 0 <=> held[p] > 0)
      BY <2>2
    <3>2. held'[o] > 0 /\ o \in {c} \X (1..ChunkSize)
      BY <2>2, <1>1
    <3>3. \A d \in Chunks : \A p \in {d} \X (1..ChunkSize) :
            p \in Objects /\ (d # c => p # o)
      OBVIOUS
    <3>4. ASSUME NEW d \in Chunks
          PROVE  Out(d)' = {p \in {d} \X (1..ChunkSize) : p = o \/ p \in Out(d)}
      BY <2>1, <3>1, <3>2, <3>3 DEF Out
    <3>5. \A d \in Chunks \ {c} : Out(d)' = Out(d)
      BY <3>3, <3>4 DEF Out
    <3>6. Out(c) \subseteq {c} \X (1..ChunkSize)
      BY DEF Out
    <3>7. Out(c)' = {p \in {c} \X (1..ChunkSize) : p = o \/ p \in Out(c)}
      BY <3>4, <1>1, <1>2
    <3>8. Out(c)' = Out(c) \cup {o}
      BY <3>2, <3>6, <3>7, Zenon
    <3> QED
      BY <3>5, <3>8
  <2>8. HandedOnce'
    BY <2>1, <2>2, <1>0, <1>1 DEF HandedOnce, TypeOK
  <2>9. StepKnowsChunk'
    BY <1>7, <2>1, <1>0, <1>1, <1>2, <1>5 DEF StepKnowsChunk, OwnChunk, TypeOK
  <2> QED
    BY <2>5, <2>6, <2>7, <2>8, <2>9
<1>8. ASSUME l = "refill"
      PROVE  /\ TotalIsExact' /\ HandedOnce' /\ StepKnowsChunk'
             /\ held' \in [Objects -> Nat] /\ got' \in [Threads -> Objects \cup {Null}]
             /\ Out(c)' = Out(c) \cup {o} /\ \A d \in Chunks \ {c} : Out(d)' = Out(d)
  <2>1. alloc[c] + 1 = ChunkSize
    BY <1>8, <1>1, <1>3, ChunkAssumption
  <2>2. held' = held /\ got' = [got EXCEPT ![t] = o]
    BY <2>1, <1>3, ChunkAssumption DEF GetData
  <2>3. got'[t] = o /\ \A u \in Threads \ {t} : got'[u] = got[u]
    BY <2>2, <1>0 DEF TypeOK
  <2>4. got[t] = Null
    BY <1>0, <1>1 DEF StepKnowsChunk
  <2>5. Busy' = Busy /\ Taken' = Taken
    BY <1>1, <1>5, <1>8, <2>2 DEF Busy, Taken
  <2>6. TotalIsExact'
    BY <1>0, <1>2, <2>5 DEF TotalIsExact
  <2>7. held' \in [Objects -> Nat] /\ got' \in [Threads -> Objects \cup {Null}]
    BY <2>2, <1>0, <1>1 DEF TypeOK
  <2>8. Out(c)' = Out(c) \cup {o} /\ \A d \in Chunks \ {c} : Out(d)' = Out(d)
    <3>1. \A p : p # Null /\ p # o =>
            ((\E u \in Threads : got'[u] = p) <=> (\E u \in Threads : got[u] = p))
      BY <2>3, <2>4
    <3>2. got'[t] = o /\ o \in {c} \X (1..ChunkSize)
      BY <2>3, <1>1
    <3>3. \A d \in Chunks : \A p \in {d} \X (1..ChunkSize) :
            p # Null /\ (d # c => p # o)
      BY ChunkAssumption
    <3>4. ASSUME NEW d \in Chunks
          PROVE  Out(d)' = {p \in {d} \X (1..ChunkSize) : p = o \/ p \in Out(d)}
      BY <2>2, <3>1, <3>2, <3>3 DEF Out
    <3>5. \A d \in Chunks \ {c} : Out(d)' = Out(d)
      BY <3>3, <3>4 DEF Out
    <3>6. Out(c) \subseteq {c} \X (1..ChunkSize)
      BY DEF Out
    <3>7. Out(c)' = {p \in {c} \X (1..ChunkSize) : p = o \/ p \in Out(c)}
      BY <3>4, <1>1, <1>2
    <3>8. Out(c)' = Out(c) \cup {o}
      BY <3>2, <3>6, <3>7, Zenon
    <3> QED
      BY <3>5, <3>8
  <2>9. HandedOnce'
    BY <2>2, <2>3, <1>0, <1>1 DEF HandedOnce
  <2>10. StepKnowsChunk'
    BY <1>8, <2>1, <2>3, <1>0, <1>1, <1>2, <1>5, ChunkAssumption
       DEF StepKnowsChunk, OwnChunk, TypeOK
  <2> QED
    BY <2>6, <2>7, <2>8, <2>9, <2>10
<1>9. /\ TotalIsExact' /\ HandedOnce' /\ StepKnowsChunk'
      /\ held' \in [Objects -> Nat] /\ got' \in [Threads -> Objects \cup {Null}]
      /\ Out(c)' = Out(c) \cup {o} /\ \A d \in Chunks \ {c} : Out(d)' = Out(d)
  BY <1>4, <1>7, <1>8
<1>10. TypeOK'
  BY <1>0, <1>2, <1>4, <1>9, Steps DEF TypeOK
<1>11. HandedBelow'
  <2>1. ASSUME NEW d \in Chunks, NEW i \in 1..ChunkSize, <<d, i>> \in Out(d)'
        PROVE  i <= alloc'[d]
    <3>1. CASE d # c
      BY <2>1, <3>1, <1>0, <1>2, <1>9 DEF HandedBelow
    <3>2. CASE d = c
      BY <2>1, <3>2, <1>0, <1>1, <1>2, <1>3, <1>9 DEF HandedBelow
    <3> QED
      BY <3>1, <3>2
  <2> QED
    BY <2>1 DEF HandedBelow
<1>12. OwnChunk'
  <2>1. ASSUME NEW u \in Threads, current[u] # Null
        PROVE  /\ inUse'[current[u]] = 1
               /\ \A v \in Threads :
                    /\ current[v] = current[u] => v = u
                    /\ pc'[v] \in Resetting => victim'[v] # current[u]
    BY <2>1, <1>0, <1>2, <1>6 DEF OwnChunk
  <2>2. ASSUME NEW u \in Threads, current[u] # Null, pc'[u] # "refill"
        PROVE  alloc'[current[u]] < ChunkSize
    <3>1. CASE u = t
      BY <2>2, <3>1, <1>1, <1>2, <1>3, <1>5, ChunkAssumption
    <3>2. CASE u # t
      <4>1. current[u] \in Chunks \ {c}
        BY <2>2, <3>2, <1>0, <1>1, ChunkAssumption DEF OwnChunk, TypeOK
      <4> QED
        BY <2>2, <3>2, <4>1, <1>0, <1>2, <1>5 DEF OwnChunk
    <3> QED
      BY <3>1, <3>2
  <2> QED
    BY <1>2, <2>1, <2>2 DEF OwnChunk
<1>13. ResetIsAlone'
  <2>1. ASSUME NEW u \in Threads, pc[u] \in Resetting
        PROVE  /\ Out(victim[u])' = Out(victim[u]) /\ alloc'[victim[u]] = alloc[victim[u]]
    <3>1. victim[u] \in Chunks \ {c}
      BY <2>1, <1>0, <1>1 DEF ResetIsAlone, Untouched, TypeOK
    <3> QED
      BY <3>1, <1>2, <1>9
  <2> QED
    BY <2>1, <1>0, <1>2, <1>6 DEF ResetIsAlone
<1>14. PooledIsBlank'
  BY <1>0, <1>1, <1>2 DEF PooledIsBlank
<1>15. CountersAgree'
  <2>1. Cardinality(Out(c)') = Cardinality(Out(c)) + 1
    BY <1>1, <1>9, CountedSets, FS_AddElement
  <2>2. alloc[c] - free[c] = Cardinality(Out(c))
    BY <1>0, <1>1 DEF CountersAgree
  <2>3. alloc'[c] - free'[c] = Cardinality(Out(c)')
    BY <2>1, <2>2, <1>0, <1>1, <1>2, CountedSets DEF TypeOK
  <2> QED
    <3>1. ASSUME NEW d \in Chunks \ {c}, inUse[d] = 1, Untouched(d)'
          PROVE  alloc'[d] - free'[d] = Cardinality(Out(d)')
      <4>1. Untouched(d)
        BY <3>1, <1>2, <1>6 DEF Untouched
      <4> QED
        BY <3>1, <4>1, <1>0, <1>2, <1>9 DEF CountersAgree
    <3> QED
      BY <2>3, <3>1, <1>2 DEF CountersAgree
<1> QED
  BY <1>9, <1>10, <1>11, <1>12, <1>13, <1>14, <1>15 DEF IInv

LEMMA RefillKeeps ==
  ASSUME IInv, NEW t \in Threads, Refill(t) PROVE IInv'
<1>0. /\ TypeOK /\ HandedOnce /\ HandedBelow /\ StepKnowsChunk /\ OwnChunk
      /\ ResetIsAlone /\ PooledIsBlank /\ CountersAgree /\ TotalIsExact
  BY DEF IInv
<1>1. PICK c \in Chunks : Pool!Take(c) /\ current' = [current EXCEPT ![t] = c]
  BY DEF Refill
<1>2. PICK o \in Objects :
        /\ o = got[t] /\ held[o] = 0
        /\ held' = [held EXCEPT ![o] = @ + 1]
        /\ got' = [got EXCEPT ![t] = Null]
  <2>1. current[t] \in Chunks /\ got[t] = <<current[t], ChunkSize>>
    BY <1>0 DEF Refill, Go, StepKnowsChunk, TypeOK
  <2>2. got[t] \in Objects /\ got[t] # Null
    BY <2>1, ChunkAssumption
  <2> QED
    BY <2>2, <1>0 DEF Refill, HandedOnce
<1>3. /\ pc[t] = "refill" /\ pc' = [pc EXCEPT ![t] = "idle"]
      /\ UNCHANGED <<alloc, free, total, victim>>
  BY DEF Refill, Go
<1>4. /\ pc'[t] = "idle" /\ \A u \in Threads \ {t} : pc'[u] = pc[u]
      /\ current'[t] = c /\ \A u \in Threads \ {t} : current'[u] = current[u]
      /\ got'[t] = Null /\ \A u \in Threads \ {t} : got'[u] = got[u]
  BY <1>0, <1>1, <1>2, <1>3 DEF TypeOK
<1>5. \A u \in Threads : /\ pc'[u] \in Resetting <=> pc[u] \in Resetting
                         /\ pc[u] \in Resetting => pc'[u] = pc[u]
  BY <1>3, <1>4, Steps
<1>6. \A p \in Objects : held'[p] = IF p = o THEN 1 ELSE held[p]
  BY <1>0, <1>2, TakenChanges
(* The object of the thread goes to its caller, so what is out is the same. *)
<1>7. \A d \in Chunks : Out(d)' = Out(d)
  <2>1. ASSUME NEW p \in Objects
        PROVE  (held'[p] > 0 \/ \E u \in Threads : got'[u] = p)
                 <=> (held[p] > 0 \/ \E u \in Threads : got[u] = p)
    <3>1. CASE p = o
      BY <3>1, <1>2, <1>6
    <3>2. CASE p # o
      BY <3>2, <1>2, <1>4, <1>6, ChunkAssumption
    <3> QED
      BY <3>1, <3>2
  <2>2. \A d \in Chunks : \A p \in {d} \X (1..ChunkSize) : p \in Objects
    OBVIOUS
  <2> QED
    BY <2>1, <2>2 DEF Out
(* Two threads that look for their next chunk have objects of two chunks.  *)
<1>8. \A u \in Threads \ {t} : got[u] # o
  <2>1. ASSUME NEW u \in Threads, got[u] = o PROVE u = t
    <3>1. pc[u] = "refill" /\ got[u] # Null
      BY <2>1, <1>0, ChunkAssumption DEF StepKnowsChunk
    <3>2. /\ got[u] = <<current[u], ChunkSize>> /\ got[t] = <<current[t], ChunkSize>>
          /\ current[u] # Null
      BY <3>1, <1>0, <1>3 DEF StepKnowsChunk
    <3>3. current[u] = current[t]
      BY <3>2, <2>1, <1>2
    <3> QED
      BY <3>2, <3>3, <1>0 DEF OwnChunk
  <2> QED
    BY <2>1
<1>9. TypeOK'
  <2>1. held' \in [Objects -> Nat] /\ got' \in [Threads -> Objects \cup {Null}]
    BY <1>0, <1>2 DEF TypeOK
  <2>2. inUse' \in [Chunks -> {0, 1}]
    BY <1>1, NextChunk
  <2> QED
    BY <2>1, <2>2, <1>0, <1>1, <1>3, Steps DEF TypeOK
<1>10. HandedOnce'
  BY <1>0, <1>4, <1>6, <1>8 DEF HandedOnce, TypeOK
<1>11. HandedBelow'
  BY <1>0, <1>3, <1>7 DEF HandedBelow
<1>12. StepKnowsChunk'
  BY <1>0, <1>3, <1>4 DEF StepKnowsChunk
<1>13. OwnChunk'
  <2>1. ASSUME NEW u \in Threads \ {t}, current'[u] # Null
        PROVE  /\ inUse'[current'[u]] = 1
               /\ pc'[u] # "refill" => alloc'[current'[u]] < ChunkSize
               /\ \A v \in Threads :
                    /\ current'[v] = current'[u] => v = u
                    /\ pc'[v] \in Resetting => victim'[v] # current'[u]
    <3>1. current[u] \in Chunks /\ current[u] # Null /\ current[u] # c
      BY <1>0, <1>1, <1>4, <2>1, NextChunk DEF TypeOK
    <3> QED
      BY <1>0, <1>1, <1>3, <1>4, <1>5, <3>1, NextChunk DEF OwnChunk
  <2>2. /\ inUse'[c] = 1 /\ alloc'[c] < ChunkSize
        /\ \A v \in Threads : /\ current'[v] = c => v = t
                              /\ pc'[v] \in Resetting => victim'[v] # c
    BY <1>1, <1>3, <1>4, <1>5, NextChunk, ChunkAssumption
  <2> QED
    BY <1>4, <2>1, <2>2 DEF OwnChunk
<1>14. ResetIsAlone'
  <2>1. ASSUME NEW u \in Threads, pc[u] \in Resetting
        PROVE  victim[u] \in Chunks /\ inUse'[victim[u]] = inUse[victim[u]]
    BY <1>0, <1>1, <2>1, NextChunk DEF ResetIsAlone, TypeOK
  <2> QED
    BY <1>0, <1>3, <1>5, <1>7, <2>1 DEF ResetIsAlone
<1>15. PooledIsBlank'
  BY <1>0, <1>1, <1>3, NextChunk DEF PooledIsBlank
<1>16. CountersAgree'
  <2>1. alloc'[c] - free'[c] = Cardinality(Out(c)')
    <3>1. alloc'[c] = 0 /\ free'[c] = 0
      BY <1>1, <1>3, NextChunk
    <3>2. Out(c)' = {}
      BY <1>1, <1>7, NextChunk
    <3> QED
      BY <3>1, <3>2, FS_EmptySet
  <2> QED
    BY <1>0, <1>1, <1>3, <1>5, <1>7, <2>1, NextChunk DEF CountersAgree,
       Untouched
<1>17. TotalIsExact'
  <2>1. Cardinality(Taken') = Cardinality(Taken) + 1
    BY <1>0, <1>2, TakenChanges
  <2>2. Cardinality(Busy') = Cardinality(Busy) - 1
    BY <1>0, <1>3, BusyChanges
  <2> QED
    BY <2>1, <2>2, <1>0, <1>3, CountedSets DEF TotalIsExact
<1> QED
  BY <1>9, <1>10, <1>11, <1>12, <1>13, <1>14, <1>15, <1>16, <1>17 DEF IInv

-----------------------------------------------------------------------------
(* Every step preserves the invariant: Free.                               *)

(* An object that is out belongs to a chunk that nobody resets, and whose  *)
(* count of freed objects is behind that of those handed out.              *)
LEMMA FreeFindsChunk ==
  ASSUME IInv, NEW c \in Chunks, NEW i \in 1..ChunkSize, held[<<c, i>>] > 0
  PROVE  /\ <<c, i>> \in Out(c) /\ \A u \in Threads : got[u] # <<c, i>>
         /\ inUse[c] = 1 /\ Untouched(c)
         /\ alloc[c] - free[c] = Cardinality(Out(c))
         /\ Cardinality(Out(c) \ {<<c, i>>}) = Cardinality(Out(c)) - 1
         /\ free[c] < alloc[c]
         /\ Cardinality(Out(c)) \in Nat
<1>0. /\ TypeOK /\ HandedOnce /\ HandedBelow /\ StepKnowsChunk /\ OwnChunk
      /\ ResetIsAlone /\ PooledIsBlank /\ CountersAgree /\ TotalIsExact
  BY DEF IInv
<1>1. <<c, i>> \in Objects /\ <<c, i>> # Null
  BY ChunkAssumption
<1>2. <<c, i>> \in Out(c)
  BY DEF Out
<1>3. \A u \in Threads : got[u] # <<c, i>>
  BY <1>0, <1>1 DEF HandedOnce
<1>4. i <= alloc[c]
  BY <1>0, <1>2 DEF HandedBelow
<1>5. inUse[c] = 1
  BY <1>0, <1>4, ChunkAssumption DEF PooledIsBlank, TypeOK
<1>6. Untouched(c)
  BY <1>0, <1>2 DEF Untouched, ResetIsAlone
<1>7. alloc[c] - free[c] = Cardinality(Out(c))
  BY <1>0, <1>5, <1>6 DEF CountersAgree
<1>8. Cardinality(Out(c) \ {<<c, i>>}) = Cardinality(Out(c)) - 1
  BY <1>2, CountedSets, FS_RemoveElement
<1>9. IsFiniteSet(Out(c) \ {<<c, i>>})
  BY CountedSets, FS_RemoveElement
<1>10. Cardinality(Out(c) \ {<<c, i>>}) \in Nat /\ Cardinality(Out(c)) \in Nat
  BY <1>9, CountedSets, FS_CardinalityType
<1>11. alloc[c] \in Nat /\ free[c] \in Nat
  BY <1>0, ChunkAssumption DEF TypeOK
<1>12. free[c] < alloc[c]
  BY <1>7, <1>8, <1>10, <1>11
<1> QED
  BY <1>2, <1>3, <1>5, <1>6, <1>7, <1>8, <1>10, <1>12

LEMMA FreeObjectKeeps ==
  ASSUME IInv, NEW t \in Threads, NEW c \in Chunks, NEW i \in 1..ChunkSize,
         FreeObject(t, c, i)
  PROVE  IInv'
<1> DEFINE o == <<c, i>>
           l == IF free[c] = ChunkSize - 1 THEN "reset" ELSE "uncount"
<1>0. /\ TypeOK /\ HandedOnce /\ HandedBelow /\ StepKnowsChunk /\ OwnChunk
      /\ ResetIsAlone /\ PooledIsBlank /\ CountersAgree /\ TotalIsExact
  BY DEF IInv
<1>1. /\ held[o] > 0 /\ pc[t] = "idle" /\ pc' = [pc EXCEPT ![t] = l]
      /\ held' = [held EXCEPT ![o] = @ - 1]
      /\ free' = [free EXCEPT ![c] = @ + 1]
      /\ victim' = [victim EXCEPT ![t] = c]
      /\ UNCHANGED <<inUse, alloc, current, total, got>>
  BY DEF FreeObject, Go
<1>2. /\ o \in Objects /\ o \in Out(c) /\ \A u \in Threads : got[u] # o
      /\ inUse[c] = 1 /\ Untouched(c)
      /\ alloc[c] - free[c] = Cardinality(Out(c))
      /\ Cardinality(Out(c) \ {o}) = Cardinality(Out(c)) - 1
      /\ free[c] < alloc[c] /\ Cardinality(Out(c)) \in Nat
  BY <1>1, FreeFindsChunk
<1>3. /\ alloc[c] \in 0..ChunkSize /\ free[c] \in 0..ChunkSize
      /\ ChunkSize \in Nat /\ ChunkSize > 0
  BY <1>0, ChunkAssumption DEF TypeOK
<1>4. /\ pc'[t] = l /\ \A u \in Threads \ {t} : pc'[u] = pc[u]
      /\ victim'[t] = c /\ \A u \in Threads \ {t} : victim'[u] = victim[u]
      /\ free'[c] = free[c] + 1 /\ \A d \in Chunks \ {c} : free'[d] = free[d]
  BY <1>0, <1>1 DEF TypeOK
<1>5. l \in {"reset", "uncount"} /\ (l = "reset" <=> free[c] = ChunkSize - 1)
  OBVIOUS
<1>6. pc[t] \notin Resetting /\ (pc'[t] \in Resetting <=> l = "reset")
  BY <1>1, <1>4, <1>5, Steps
<1>7. \A p \in Objects : held'[p] = IF p = o THEN 0 ELSE held[p]
  BY <1>0, <1>1, <1>2, TakenChanges
<1>8. \A d \in Chunks : Out(d)' = Out(d) \ {o}
  <2>1. ASSUME NEW p \in Objects
        PROVE  (held'[p] > 0 \/ \E u \in Threads : got'[u] = p)
                 <=> p # o /\ (held[p] > 0 \/ \E u \in Threads : got[u] = p)
    <3>1. CASE p = o
      BY <3>1, <1>1, <1>2, <1>7
    <3>2. CASE p # o
      BY <3>2, <1>1, <1>7
    <3> QED
      BY <3>1, <3>2
  <2>2. \A d \in Chunks : \A p \in {d} \X (1..ChunkSize) : p \in Objects
    OBVIOUS
  <2> QED
    BY <2>1, <2>2 DEF Out
<1>9. \A d \in Chunks \ {c} : Out(d)' = Out(d)
  <2>1. \A d \in Chunks \ {c} : o \notin Out(d)
    BY DEF Out
  <2> QED
    BY <2>1, <1>8
<1>10. Cardinality(Out(c)') = Cardinality(Out(c)) - 1
  BY <1>2, <1>8
(* The last object is the only one that is out, of a chunk used up.        *)
<1>11. ASSUME l = "reset"
       PROVE  alloc[c] = ChunkSize /\ free'[c] = ChunkSize /\ Out(c)' = {}
  <2>1. free[c] = ChunkSize - 1
    BY <1>5, <1>11
  <2>2. alloc[c] = ChunkSize
    BY <2>1, <1>2, <1>3
  <2>3. Cardinality(Out(c)') = 0
    BY <2>1, <2>2, <1>2, <1>3, <1>10
  <2>4. IsFiniteSet(Out(c)')
    <3>1. IsFiniteSet(Out(c) \ {o})
      BY CountedSets, FS_RemoveElement
    <3> QED
      BY <3>1, <1>8
  <2>5. Out(c)' = {}
    BY <2>3, <2>4, FS_EmptySet
  <2> QED
    BY <2>1, <2>2, <2>5, <1>3, <1>4
<1>12. TypeOK'
  <2>1. held' \in [Objects -> Nat]
    BY <1>0, <1>1, <1>2, <1>7 DEF TypeOK
  <2>2. free' \in [Chunks -> 0..ChunkSize]
    BY <1>0, <1>1, <1>2, <1>3 DEF TypeOK
  <2> QED
    BY <2>1, <2>2, <1>0, <1>1, <1>5, Steps DEF TypeOK
<1>13. HandedOnce'
  BY <1>0, <1>1, <1>2, <1>7 DEF HandedOnce, TypeOK
<1>14. HandedBelow'
  BY <1>0, <1>1, <1>8 DEF HandedBelow
<1>15. StepKnowsChunk'
  BY <1>0, <1>1, <1>4, <1>5 DEF StepKnowsChunk
<1>16. OwnChunk'
  <2>1. ASSUME NEW u \in Threads, current[u] # Null
        PROVE  /\ inUse[current[u]] = 1
               /\ pc'[u] # "refill" => alloc[current[u]] < ChunkSize
               /\ \A v \in Threads : current[v] = current[u] => v = u
    BY <2>1, <1>0, <1>1, <1>4, <1>5 DEF OwnChunk
  <2>2. ASSUME NEW u \in Threads, current[u] # Null,
               NEW v \in Threads, pc'[v] \in Resetting
        PROVE  victim'[v] # current[u]
    <3>1. CASE v = t
      <4>1. alloc[c] = ChunkSize /\ Out(c)' = {}
        BY <2>2, <3>1, <1>6, <1>11
      <4>2. ASSUME current[u] = c PROVE FALSE
        <5>1. pc[u] = "refill"
          BY <4>1, <4>2, <2>2, <1>0, <1>3 DEF OwnChunk
        <5>2. got'[u] = <<c, ChunkSize>>
          BY <5>1, <4>2, <1>0, <1>1 DEF StepKnowsChunk
        <5>3. <<c, ChunkSize>> \in Out(c)'
          BY <5>2, <1>3 DEF Out
        <5> QED
          BY <5>3, <4>1
      <4> QED
        BY <3>1, <4>2, <1>4
    <3>2. CASE v # t
      BY <2>2, <3>2, <1>0, <1>4 DEF OwnChunk
    <3> QED
      BY <3>1, <3>2
  <2> QED
    BY <1>1, <2>1, <2>2 DEF OwnChunk
<1>17. ResetIsAlone'
  <2>1. ASSUME NEW u \in Threads \ {t}, pc'[u] \in Resetting
        PROVE  /\ pc[u] \in Resetting /\ pc'[u] = pc[u]
               /\ victim'[u] = victim[u] /\ victim[u] \in Chunks \ {c}
    BY <2>1, <1>0, <1>2, <1>4 DEF ResetIsAlone, Untouched, TypeOK
  <2>2. ASSUME NEW u \in Threads \ {t}, pc'[u] \in Resetting
        PROVE  /\ victim'[u] # Null
               /\ inUse'[victim'[u]] = 1
               /\ Out(victim[u])' = {}
               /\ alloc'[victim'[u]] = IF pc'[u] = "reset" THEN ChunkSize ELSE 0
               /\ free'[victim'[u]] = IF pc'[u] = "return" THEN 0 ELSE ChunkSize
    <3>1. Out(victim[u])' = Out(victim[u])
      BY <2>1, <2>2, <1>9 DEF Out
    <3> QED
      BY <2>1, <2>2, <3>1, <1>0, <1>1, <1>4 DEF ResetIsAlone
  <2>3. ASSUME pc'[t] \in Resetting
        PROVE  /\ victim'[t] # Null
               /\ inUse'[victim'[t]] = 1
               /\ Out(victim[t])' = {}
               /\ alloc'[victim'[t]] = IF pc'[t] = "reset" THEN ChunkSize ELSE 0
               /\ free'[victim'[t]] = IF pc'[t] = "return" THEN 0 ELSE ChunkSize
    <3>1. l = "reset" /\ victim'[t] = c /\ pc'[t] = "reset"
      BY <2>3, <1>4, <1>6
    <3>2. alloc[c] = ChunkSize /\ free'[c] = ChunkSize /\ Out(c)' = {}
      BY <3>1, <1>11
    <3> QED
      BY <3>1, <3>2, <1>1, <1>2, ChunkAssumption
  <2>4. ASSUME NEW u \in Threads, NEW v \in Threads, pc'[u] \in Resetting,
               pc'[v] \in Resetting, victim'[v] = victim'[u]
        PROVE  v = u
    <3>1. CASE u # t /\ v # t
      BY <2>1, <2>4, <3>1, <1>0 DEF ResetIsAlone
    <3>2. CASE u = t \/ v = t
      BY <2>1, <2>4, <3>2, <1>4
    <3> QED
      BY <3>1, <3>2
  <2> QED
    BY <2>2, <2>3, <2>4 DEF ResetIsAlone
<1>18. PooledIsBlank'
  BY <1>0, <1>1, <1>2, <1>4 DEF PooledIsBlank
<1>19. CountersAgree'
  <2>1. alloc'[c] - free'[c] = Cardinality(Out(c)')
    BY <1>1, <1>2, <1>3, <1>4, <1>10
  <2>2. ASSUME NEW d \in Chunks \ {c}, inUse[d] = 1, Untouched(d)'
        PROVE  alloc'[d] - free'[d] = Cardinality(Out(d)')
    <3>1. Untouched(d)
      BY <2>2, <1>4, <1>6 DEF Untouched
    <3> QED
      BY <2>2, <3>1, <1>0, <1>1, <1>4, <1>9 DEF CountersAgree
  <2> QED
    BY <2>1, <2>2, <1>1 DEF CountersAgree
<1>20. TotalIsExact'
  <2>1. Cardinality(Taken') = Cardinality(Taken) - 1
    BY <1>0, <1>1, <1>2, TakenChanges
  <2>2. Cardinality(Busy') = Cardinality(Busy) + 1
    BY <1>0, <1>1, <1>5, BusyChanges
  <2> QED
    BY <2>1, <2>2, <1>0, <1>1, CountedSets DEF TotalIsExact
<1> QED
  BY <1>12, <1>13, <1>14, <1>15, <1>16, <1>17, <1>18, <1>19, <1>20 DEF IInv

(* The steps of a reset have the chunk to themselves.                      *)
LEMMA ResetterAlone ==
  ASSUME IInv, NEW t \in Threads, pc[t] \in Resetting
  PROVE  /\ victim[t] \in Chunks /\ inUse[victim[t]] = 1 /\ Out(victim[t]) = {}
         /\ alloc[victim[t]] = IF pc[t] = "reset" THEN ChunkSize ELSE 0
         /\ free[victim[t]] = IF pc[t] = "return" THEN 0 ELSE ChunkSize
         /\ \A u \in Threads : current[u] # victim[t]
         /\ \A u \in Threads \ {t} : pc[u] \in Resetting => victim[u] # victim[t]
<1>0. TypeOK /\ OwnChunk /\ ResetIsAlone
  BY DEF IInv
<1>1. victim[t] # Null /\ victim[t] \in Chunks
  BY <1>0 DEF ResetIsAlone, TypeOK
<1> QED
  BY <1>0, <1>1 DEF ResetIsAlone, OwnChunk

LEMMA ResetAllocKeeps ==
  ASSUME IInv, NEW t \in Threads, ResetAlloc(t) PROVE IInv'
<1>0. /\ TypeOK /\ HandedOnce /\ HandedBelow /\ StepKnowsChunk /\ OwnChunk
      /\ ResetIsAlone /\ PooledIsBlank /\ CountersAgree /\ TotalIsExact
  BY DEF IInv
<1>1. /\ pc[t] = "reset" /\ pc' = [pc EXCEPT ![t] = "resetFree"]
      /\ alloc' = [alloc EXCEPT ![victim[t]] = 0]
      /\ UNCHANGED <<inUse, free, current, held, total, got, victim>>
  BY DEF ResetAlloc, Go
<1>2. PICK c \in Chunks :
        /\ c = victim[t] /\ inUse[c] = 1 /\ Out(c) = {} /\ free[c] = ChunkSize
        /\ \A u \in Threads : current[u] # c
        /\ \A u \in Threads \ {t} : pc[u] \in Resetting => victim[u] # c
  BY <1>1, ResetterAlone, Steps
<1>3. /\ pc'[t] = "resetFree" /\ \A u \in Threads \ {t} : pc'[u] = pc[u]
      /\ alloc'[c] = 0 /\ \A d \in Chunks \ {c} : alloc'[d] = alloc[d]
  BY <1>0, <1>1, <1>2 DEF TypeOK
<1>4. \A u \in Threads : pc'[u] \in Resetting <=> pc[u] \in Resetting
  BY <1>1, <1>3, Steps
<1>5. \A d \in Chunks : Out(d)' = Out(d)
  BY <1>1 DEF Out
<1>6. TypeOK'
  <2>1. alloc' \in [Chunks -> 0..ChunkSize]
    <3>1. 0 \in 0..ChunkSize
      BY ChunkAssumption
    <3> QED
      BY <3>1, <1>0, <1>1 DEF TypeOK
  <2> QED
    BY <2>1, <1>0, <1>1, Steps DEF TypeOK
<1>7. HandedOnce'
  BY <1>0, <1>1 DEF HandedOnce
<1>8. HandedBelow'
  BY <1>0, <1>2, <1>3, <1>5 DEF HandedBelow
<1>9. StepKnowsChunk'
  BY <1>0, <1>1, <1>2, <1>3 DEF StepKnowsChunk, TypeOK
<1>10. OwnChunk'
  BY <1>0, <1>1, <1>2, <1>3, <1>4 DEF OwnChunk, TypeOK
<1>11. ResetIsAlone'
  <2>1. ASSUME NEW u \in Threads \ {t}, pc'[u] \in Resetting
        PROVE  /\ victim[u] \in Chunks \ {c} /\ pc'[u] = pc[u]
               /\ Out(victim[u])' = Out(victim[u])
               /\ alloc'[victim[u]] = alloc[victim[u]]
    <3>1. victim[u] \in Chunks \ {c}
      BY <2>1, <1>0, <1>2, <1>4 DEF ResetIsAlone, TypeOK
    <3> QED
      BY <3>1, <1>1, <1>3, <1>5
  <2>2. Out(victim[t])' = {}
    BY <1>1, <1>2, <1>5
  <2> QED
    BY <2>1, <2>2, <1>0, <1>1, <1>2, <1>3, <1>4 DEF ResetIsAlone
<1>12. PooledIsBlank'
  BY <1>0, <1>1, <1>2, <1>3 DEF PooledIsBlank
<1>13. CountersAgree'
  <2>1. ASSUME NEW d \in Chunks, Untouched(d)' PROVE d # c /\ Untouched(d)
    BY <2>1, <1>1, <1>2, <1>3, <1>4, Steps DEF Untouched
  <2> QED
    BY <2>1, <1>0, <1>1, <1>3, <1>5 DEF CountersAgree
<1>14. TotalIsExact'
  <2>1. Busy' = Busy
    BY <1>1, <1>3 DEF Busy
  <2>2. Taken' = Taken
    BY <1>1 DEF Taken
  <2> QED
    BY <2>1, <2>2, <1>0, <1>1 DEF TotalIsExact
<1> QED
  BY <1>6, <1>7, <1>8, <1>9, <1>10, <1>11, <1>12, <1>13, <1>14 DEF IInv

LEMMA ResetFreeKeeps ==
  ASSUME IInv, NEW t \in Threads, ResetFree(t) PROVE IInv'
<1>0. /\ TypeOK /\ HandedOnce /\ HandedBelow /\ StepKnowsChunk /\ OwnChunk
      /\ ResetIsAlone /\ PooledIsBlank /\ CountersAgree /\ TotalIsExact
  BY DEF IInv
<1>1. /\ pc[t] = "resetFree" /\ pc' = [pc EXCEPT ![t] = "return"]
      /\ free' = [free EXCEPT ![victim[t]] = 0]
      /\ UNCHANGED <<inUse, alloc, current, held, total, got, victim>>
  BY DEF ResetFree, Go
<1>2. PICK c \in Chunks :
        /\ c = victim[t] /\ inUse[c] = 1 /\ Out(c) = {} /\ alloc[c] = 0
        /\ \A u \in Threads : current[u] # c
        /\ \A u \in Threads \ {t} : pc[u] \in Resetting => victim[u] # c
  BY <1>1, ResetterAlone, Steps
<1>3. /\ pc'[t] = "return" /\ \A u \in Threads \ {t} : pc'[u] = pc[u]
      /\ free'[c] = 0 /\ \A d \in Chunks \ {c} : free'[d] = free[d]
  BY <1>0, <1>1, <1>2 DEF TypeOK
<1>4. \A u \in Threads : pc'[u] \in Resetting <=> pc[u] \in Resetting
  BY <1>1, <1>3, Steps
<1>5. \A d \in Chunks : Out(d)' = Out(d)
  BY <1>1 DEF Out
<1>6. TypeOK'
  <2>1. free' \in [Chunks -> 0..ChunkSize]
    <3>1. 0 \in 0..ChunkSize
      BY ChunkAssumption
    <3> QED
      BY <3>1, <1>0, <1>1 DEF TypeOK
  <2> QED
    BY <2>1, <1>0, <1>1, Steps DEF TypeOK
<1>7. HandedOnce'
  BY <1>0, <1>1 DEF HandedOnce
<1>8. HandedBelow'
  BY <1>0, <1>1, <1>5 DEF HandedBelow
<1>9. StepKnowsChunk'
  BY <1>0, <1>1, <1>2, <1>3 DEF StepKnowsChunk, TypeOK
<1>10. OwnChunk'
  BY <1>0, <1>1, <1>2, <1>3, <1>4 DEF OwnChunk, TypeOK
<1>11. ResetIsAlone'
  <2>1. ASSUME NEW u \in Threads \ {t}, pc'[u] \in Resetting
        PROVE  /\ victim[u] \in Chunks \ {c} /\ pc'[u] = pc[u]
               /\ Out(victim[u])' = Out(victim[u])
               /\ free'[victim[u]] = free[victim[u]]
    <3>1. victim[u] \in Chunks \ {c}
      BY <2>1, <1>0, <1>2, <1>4 DEF ResetIsAlone, TypeOK
    <3> QED
      BY <3>1, <1>1, <1>3, <1>5
  <2>2. Out(victim[t])' = {}
    BY <1>1, <1>2, <1>5
  <2> QED
    BY <2>1, <2>2, <1>0, <1>1, <1>2, <1>3, <1>4 DEF ResetIsAlone
<1>12. PooledIsBlank'
  BY <1>0, <1>1, <1>2, <1>3 DEF PooledIsBlank
<1>13. CountersAgree'
  <2>1. ASSUME NEW d \in Chunks, Untouched(d)' PROVE d # c /\ Untouched(d)
    BY <2>1, <1>1, <1>2, <1>3, <1>4, Steps DEF Untouched
  <2> QED
    BY <2>1, <1>0, <1>1, <1>3, <1>5 DEF CountersAgree
<1>14. TotalIsExact'
  <2>1. Busy' = Busy
    BY <1>1, <1>3 DEF Busy
  <2>2. Taken' = Taken
    BY <1>1 DEF Taken
  <2> QED
    BY <2>1, <2>2, <1>0, <1>1 DEF TotalIsExact
<1> QED
  BY <1>6, <1>7, <1>8, <1>9, <1>10, <1>11, <1>12, <1>13, <1>14 DEF IInv

LEMMA ReturnChunkKeeps ==
  ASSUME IInv, NEW t \in Threads, ReturnChunk(t) PROVE IInv'
<1>0. /\ TypeOK /\ HandedOnce /\ HandedBelow /\ StepKnowsChunk /\ OwnChunk
      /\ ResetIsAlone /\ PooledIsBlank /\ CountersAgree /\ TotalIsExact
  BY DEF IInv
<1>1. /\ pc[t] = "return" /\ pc' = [pc EXCEPT ![t] = "uncount"]
      /\ inUse' = [inUse EXCEPT ![victim[t]] = 0]
      /\ UNCHANGED <<alloc, free, current, held, total, got, victim>>
  BY DEF ReturnChunk, Go, Pool!Give
<1>2. PICK c \in Chunks :
        /\ c = victim[t] /\ inUse[c] = 1 /\ Out(c) = {} /\ alloc[c] = 0 /\ free[c] = 0
        /\ \A u \in Threads : current[u] # c
        /\ \A u \in Threads \ {t} : pc[u] \in Resetting => victim[u] # c
  BY <1>1, ResetterAlone, Steps
<1>3. /\ pc'[t] = "uncount" /\ \A u \in Threads \ {t} : pc'[u] = pc[u]
      /\ inUse'[c] = 0 /\ \A d \in Chunks \ {c} : inUse'[d] = inUse[d]
  BY <1>0, <1>1, <1>2 DEF TypeOK
<1>4. \A u \in Threads : pc'[u] \in Resetting <=> u # t /\ pc[u] \in Resetting
  BY <1>1, <1>3, Steps
<1>5. \A d \in Chunks : Out(d)' = Out(d)
  BY <1>1 DEF Out
<1>6. TypeOK'
  BY <1>0, <1>1, Steps, ChunkAssumption DEF TypeOK
<1>7. HandedOnce'
  BY <1>0, <1>1 DEF HandedOnce
<1>8. HandedBelow'
  BY <1>0, <1>1, <1>5 DEF HandedBelow
<1>9. StepKnowsChunk'
  BY <1>0, <1>1, <1>2, <1>3 DEF StepKnowsChunk, TypeOK
<1>10. OwnChunk'
  BY <1>0, <1>1, <1>2, <1>3, <1>4 DEF OwnChunk, TypeOK
<1>11. ResetIsAlone'
  <2>1. ASSUME NEW u \in Threads \ {t}, pc'[u] \in Resetting
        PROVE  /\ victim[u] \in Chunks \ {c} /\ pc'[u] = pc[u]
               /\ Out(victim[u])' = Out(victim[u])
               /\ inUse'[victim[u]] = inUse[victim[u]]
    <3>1. victim[u] \in Chunks \ {c}
      BY <2>1, <1>0, <1>2, <1>4 DEF ResetIsAlone, TypeOK
    <3> QED
      BY <3>1, <1>1, <1>3, <1>5
  <2> QED
    BY <2>1, <1>0, <1>1, <1>2, <1>3, <1>4 DEF ResetIsAlone
<1>12. PooledIsBlank'
  BY <1>0, <1>1, <1>2, <1>3 DEF PooledIsBlank
<1>13. CountersAgree'
  <2>1. ASSUME NEW d \in Chunks \ {c}, Untouched(d)' PROVE Untouched(d)
    BY <2>1, <1>1, <1>2, <1>3, <1>4 DEF Untouched
  <2> QED
    BY <2>1, <1>0, <1>1, <1>3, <1>5 DEF CountersAgree
<1>14. TotalIsExact'
  <2>1. Busy' = Busy
    BY <1>1, <1>3 DEF Busy
  <2>2. Taken' = Taken
    BY <1>1 DEF Taken
  <2> QED
    BY <2>1, <2>2, <1>0, <1>1 DEF TotalIsExact
<1> QED
  BY <1>6, <1>7, <1>8, <1>9, <1>10, <1>11, <1>12, <1>13, <1>14 DEF IInv

LEMMA UncountKeeps ==
  ASSUME IInv, NEW t \in Threads, Uncount(t) PROVE IInv'
<1>0. /\ TypeOK /\ HandedOnce /\ HandedBelow /\ StepKnowsChunk /\ OwnChunk
      /\ ResetIsAlone /\ PooledIsBlank /\ CountersAgree /\ TotalIsExact
  BY DEF IInv
<1>1. /\ pc[t] = "uncount" /\ pc' = [pc EXCEPT ![t] = "idle"]
      /\ total' = total - 1 /\ victim' = [victim EXCEPT ![t] = Null]
      /\ UNCHANGED <<inUse, alloc, free, current, held, got>>
  BY DEF Uncount, Go
<1>2. /\ pc'[t] = "idle" /\ \A u \in Threads \ {t} : pc'[u] = pc[u]
      /\ \A u \in Threads \ {t} : victim'[u] = victim[u]
  BY <1>0, <1>1 DEF TypeOK
<1>3. \A u \in Threads : /\ pc'[u] \in Resetting <=> pc[u] \in Resetting
                         /\ pc[u] \in Resetting => pc'[u] = pc[u] /\ victim'[u] = victim[u]
  BY <1>1, <1>2, Steps
<1>4. \A d \in Chunks : Out(d)' = Out(d)
  BY <1>1 DEF Out
<1>5. TotalIsExact' /\ total' \in Nat
  <2>1. Cardinality(Busy') = Cardinality(Busy) - 1
    BY <1>0, <1>1, BusyChanges
  <2>2. Taken' = Taken
    BY <1>1 DEF Taken
  <2>3. t \in Busy /\ Busy # {}
    BY <1>1 DEF Busy
  <2>4. Cardinality(Busy) # 0
    BY <2>3, CountedSets, FS_EmptySet
  <2> QED
    BY <2>1, <2>2, <2>4, <1>0, <1>1, CountedSets DEF TotalIsExact
<1>6. TypeOK'
  BY <1>0, <1>1, <1>5, Steps DEF TypeOK
<1>7. HandedOnce' /\ HandedBelow' /\ PooledIsBlank'
  BY <1>0, <1>1, <1>4 DEF HandedOnce, HandedBelow, PooledIsBlank
<1>8. StepKnowsChunk'
  BY <1>0, <1>1, <1>2 DEF StepKnowsChunk
<1>9. OwnChunk'
  BY <1>0, <1>1, <1>2, <1>3 DEF OwnChunk
<1>10. ResetIsAlone'
  <2>1. ASSUME NEW u \in Threads, pc[u] \in Resetting
        PROVE  Out(victim[u])' = Out(victim[u])
    BY <2>1, <1>0, <1>3, <1>4 DEF ResetIsAlone, TypeOK
  <2> QED
    BY <2>1, <1>0, <1>1, <1>3 DEF ResetIsAlone
<1>11. CountersAgree'
  BY <1>0, <1>1, <1>3, <1>4 DEF CountersAgree, Untouched
<1> QED
  BY <1>5, <1>6, <1>7, <1>8, <1>9, <1>10, <1>11 DEF IInv

LEMMA NextKeeps == IInv /\ [Next]_vars => IInv'
<1> SUFFICES ASSUME IInv, [Next]_vars PROVE IInv'
  OBVIOUS
<1>1. CASE UNCHANGED vars
  <2>1. \A c \in Chunks : Out(c)' = Out(c) /\ Untouched(c)' = Untouched(c)
    BY <1>1 DEF vars, Out, Untouched
  <2> QED
    BY <1>1, <2>1 DEF vars, IInv, TypeOK, HandedOnce, HandedBelow,
       StepKnowsChunk,
       OwnChunk, ResetIsAlone, PooledIsBlank, CountersAgree, TotalIsExact, Taken,
       Busy, Out, Untouched
<1>2. ASSUME NEW t \in Threads, AllocStep(t) PROVE IInv'
  BY <1>2, AllocBeginKeeps, FirstChunkKeeps, GetDataKeeps, RefillKeeps
     DEF AllocStep
<1>3. ASSUME NEW t \in Threads, FreeStep(t) PROVE IInv'
  BY <1>3, FreeObjectKeeps, ResetAllocKeeps, ResetFreeKeeps, ReturnChunkKeeps,
     UncountKeeps DEF FreeStep
<1> QED
  BY <1>1, <1>2, <1>3 DEF Next

LEMMA Invariant == Spec => []IInv
BY InitIInv, NextKeeps, PTL DEF Spec

-----------------------------------------------------------------------------
(* The theorems.                                                           *)

(* The types, among them that neither count of a chunk leaves its range    *)
(* and that the count of the pool is never negative.                       *)
THEOREM ChunkTypes == Spec => []TypeOK
<1>1. IInv => TypeOK
  BY DEF IInv
<1> QED
  BY <1>1, Invariant, PTL

(* Alloc never returns null (TlsObjectPool::Alloc, MemoryPool::Alloc): the *)
(* chunk of a thread has room whenever it looks into it.                   *)
THEOREM AllocFindsObject == Spec => []ChunkHasRoom
<1>1. IInv => ChunkHasRoom
  BY DEF IInv, StepKnowsChunk, OwnChunk, ChunkHasRoom
<1> QED
  BY <1>1, Invariant, PTL

(* A chunk returns to the pool blank and when nobody uses it, and its two  *)
(* counters, one of them unprotected, are the objects that left and those  *)
(* that came back (GetData, FreeWithIsAllFreed, ChunkReset).               *)
THEOREM ChunksAreKept == Spec => []ChunksAreAccounted
<1>1. IInv => ChunksAreAccounted
  <2> SUFFICES ASSUME IInv PROVE ChunksAreAccounted
    OBVIOUS
  <2>1. ASSUME NEW c \in Chunks, inUse[c] = 0
        PROVE  alloc[c] = 0 /\ free[c] = 0 /\ Out(c) = {}
    <3>1. alloc[c] = 0 /\ free[c] = 0
      BY <2>1 DEF IInv, PooledIsBlank
    <3>2. \A i \in 1..ChunkSize : <<c, i>> \notin Out(c)
      BY <3>1, ChunkAssumption DEF IInv, HandedBelow
    <3>3. Out(c) = {}
      BY <3>2 DEF Out
    <3> QED
      BY <3>1, <3>3
  <2>2. ASSUME NEW t \in Threads, NEW u \in Threads, current[t] # Null
        PROVE  /\ inUse[current[t]] = 1
               /\ current[t] = current[u] => t = u
               /\ pc[u] \in Resetting => victim[u] # current[t]
    BY <2>2 DEF IInv, OwnChunk
  <2>3. \A c \in Chunks : inUse[c] = 1 /\ Untouched(c) =>
          alloc[c] - free[c] = Cardinality(Out(c))
    BY DEF IInv, CountersAgree
  <2> QED
    BY <2>1, <2>2, <2>3 DEF ChunksAreAccounted, Untouched
<1> QED
  BY <1>1, Invariant, PTL

(* AllocCount of the pool is the objects that are out and the calls that   *)
(* are under way, so it is exact whenever nobody is inside Alloc or Free.  *)
THEOREM AllocCountIsExact ==
  Spec => [](Busy = {} => total = Cardinality({o \in Objects : held[o] > 0}))
<1>1. IInv /\ Busy = {} => total = Cardinality({o \in Objects : held[o] > 0})
  <2> SUFFICES ASSUME IInv, Busy = {}
               PROVE  total = Cardinality({o \in Objects : held[o] > 0})
    OBVIOUS
  <2>1. {o \in Objects : held[o] > 0} = Taken
    BY DEF IInv, HandedOnce, Taken
  <2>2. total = Cardinality(Taken) + Cardinality(Busy)
    BY DEF IInv, TotalIsExact
  <2>3. Cardinality(Busy) = 0
    BY FS_EmptySet
  <2>4. total = Cardinality(Taken)
    BY <2>2, <2>3, CountedSets
  <2> QED
    BY <2>1, <2>4
<1> QED
  BY <1>1, Invariant, PTL

(* The chunk pools are free lists of objects: an object that is handed out *)
(* is in nobody's hands, and comes back once before it is handed out again.*)
THEOREM ChunksImplementFreeList == Spec => ImplementsFreeList
<1>1. Init => ObjectList!Init
  BY DEF Init, ObjectList!Init
<1>2. IInv /\ [Next]_vars => [ObjectList!Next]_held
  <2> SUFFICES ASSUME IInv, [Next]_vars PROVE [ObjectList!Next]_held
    OBVIOUS
  <2>1. ASSUME NEW o \in Objects, held[o] = 0, held' = [held EXCEPT ![o] = @ + 1]
        PROVE  ObjectList!Next
    <3>1. held' = [held EXCEPT ![o] = 1]
      BY <2>1
    <3> QED
      BY <2>1, <3>1 DEF ObjectList!Next, ObjectList!Take
  <2>2. ASSUME NEW o \in Objects, held[o] > 0, held' = [held EXCEPT ![o] = @ - 1]
        PROVE  ObjectList!Next
    <3>1. held[o] = 1
      BY <2>2 DEF IInv, HandedOnce
    <3>2. held' = [held EXCEPT ![o] = 0]
      BY <2>2, <3>1
    <3> QED
      BY <3>1, <3>2 DEF ObjectList!Next, ObjectList!Give
  <2>3. ASSUME NEW t \in Threads, GetData(t) PROVE [ObjectList!Next]_held
    <3>1. /\ <<current[t], alloc[current[t]] + 1>> \in Objects
          /\ held[<<current[t], alloc[current[t]] + 1>>] = 0
      BY <2>3, GetDataTakes
    <3> QED
      BY <2>1, <2>3, <3>1 DEF GetData
  <2>4. ASSUME NEW t \in Threads, Refill(t) PROVE ObjectList!Next
    <3>1. current[t] \in Chunks /\ got[t] = <<current[t], ChunkSize>>
      BY <2>4 DEF Refill, Go, IInv, StepKnowsChunk, TypeOK
    <3>2. got[t] \in Objects /\ got[t] # Null
      BY <3>1, ChunkAssumption
    <3>3. held[got[t]] = 0
      BY <3>2 DEF IInv, HandedOnce
    <3> QED
      BY <2>1, <2>4, <3>2, <3>3 DEF Refill
  <2>5. ASSUME NEW t \in Threads, NEW c \in Chunks, NEW i \in 1..ChunkSize,
               FreeObject(t, c, i)
        PROVE  ObjectList!Next
    BY <2>2, <2>5 DEF FreeObject
  <2>6. ASSUME NEW t \in Threads,
               \/ AllocBegin(t) \/ FirstChunk(t) \/ ResetAlloc(t)
               \/ ResetFree(t) \/ ReturnChunk(t) \/ Uncount(t)
        PROVE  UNCHANGED held
    BY <2>6 DEF AllocBegin, FirstChunk, ResetAlloc, ResetFree, ReturnChunk,
       Uncount
  <2>7. CASE UNCHANGED vars
    BY <2>7 DEF vars
  <2> QED
    BY <2>3, <2>4, <2>5, <2>6, <2>7 DEF Next, AllocStep, FreeStep
<1> QED
  BY <1>1, <1>2, Invariant, PTL DEF Spec, ImplementsFreeList, ObjectList!Spec
=============================================================================
