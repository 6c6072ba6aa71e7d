----------------------------- MODULE SizeClasses -----------------------------
(***************************************************************************)
(* MemoryAllocator: which pool serves a request of a given size, and which *)
(* pool takes it back.  Shared pointers, unique pointers, arrays and the   *)
(* containers all come here with sizeof(T) * count, and return the same    *)
(* product.  The pools themselves are MemoryPool (module ChunkPool).       *)
(***************************************************************************)
EXTENDS Integers

SMALL_STRIDE == 256
LARGE_STRIDE == 4096
THRESHOLD    == 4096
MAX_SIZE     == 65536

SMALL_POOL_COUNT == (THRESHOLD \div SMALL_STRIDE) - 1
LARGE_POOL_COUNT == MAX_SIZE \div LARGE_STRIDE

getBucketIndex(size, stride) == (size - 1) \div stride

(* Alloc and Free choose alike, so a block goes back to the pool it came   *)
(* from.  A size of 0 gets null and a size above MAX_SIZE goes to mimalloc *)
(* with a checksum behind the data; Pool is about the sizes between.       *)
IsSmall(size) == size <= THRESHOLD - SMALL_STRIDE

Pool(size) ==
  [stride |-> IF IsSmall(size) THEN SMALL_STRIDE ELSE LARGE_STRIDE,
   index  |-> getBucketIndex(size, IF IsSmall(size) THEN SMALL_STRIDE
                                                    ELSE LARGE_STRIDE)]

(* The pools there are: the tuples of MemoryPool<(INDEX + 1) * STRIDE>.    *)
Pools == [stride : {SMALL_STRIDE}, index : 0..(SMALL_POOL_COUNT - 1)]
           \cup [stride : {LARGE_STRIDE}, index : 0..(LARGE_POOL_COUNT - 1)]

BlockSize(pool) == (pool.index + 1) * pool.stride
===============================================================================
