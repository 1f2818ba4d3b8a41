------------------------------ MODULE MemAdapter ------------------------------
(***************************************************************************)
(* src/mem: the five adapters between the allocation harness of the BMTH   *)
(* package and Zephyr's allocators.                                        *)
(*                                                                         *)
(* The harness is not in the repository: it creates the arena at a         *)
(* granularity 2^s, takes and returns pieces, and creates the arena anew   *)
(* while pieces may still be live (mem_blocks/README.md, W8), which it     *)
(* then forgets.  The allocators are modelled by what the adapters rely    *)
(* on: a heap is a row of chunks, the slab a free list with a count, and a *)
(* pool of sys_mem_blocks a bitmap.  mem_blocks has one pool for each      *)
(* step, all over one arena, and resets them itself.                       *)
(***************************************************************************)
EXTENDS Naturals, FiniteSetsExt

CONSTANTS
    MEM_S_MIN, MEM_S_MAX,   \* the sweep of granularities 2^s
    MEM_ARENA_SIZE,         \* bytes of every arena
    CHUNK_HEADER,           \* what a heap adds to a request
    HEAP_HEADER,            \* chunk 0 of a heap
    OBJECT                  \* the object of a slab or of a pool, bitmap included

S == MEM_S_MIN..MEM_S_MAX
Granularity == {2^s : s \in S}

\* mem_blocks.c asserts that the arena is a power of two: what the adapters
\* need of it is that every granularity divides it.
ASSUME SizeAssumption ==
    /\ MEM_S_MIN \in Nat /\ MEM_S_MAX \in Nat /\ MEM_S_MIN <= MEM_S_MAX
    /\ MEM_ARENA_SIZE \in Nat /\ Granularity \subseteq 1..MEM_ARENA_SIZE
    /\ \A g \in Granularity : MEM_ARENA_SIZE % g = 0
    /\ CHUNK_HEADER \in Nat /\ OBJECT \in Nat
    /\ HEAP_HEADER \in 1..(MEM_ARENA_SIZE - 1)

VARIABLES
    adapter,        \* which adapter is built
    granularity,    \* of the last mem_allocator_create_arena(), or 0
    heap,           \* the chunks of the heap: start to [size, used]
    slab,           \* the pieces in the slab's free list, and num_used
    bitmap,         \* the bitmap of each pool
    test_live,      \* index of the pool the arena is currently cut into
    live,           \* the pieces the harness holds: [base, bytes]
    asked, answer   \* the pieces the last call asked the allocator for, and
                    \* what it returned

memvars == <<adapter, granularity, heap, slab, bitmap, test_live, live, asked, answer>>

Heaps == {"sys_heap", "k_heap", "k_malloc"}
FixedSize == {"mem_slab", "mem_blocks"}

\* Count trailing zeros, of a granularity.
ctz(g) == CHOOSE s \in S : 2^s = g

-----------------------------------------------------------------------------
\* Heaps (external)

EmptyHeap ==
    [c \in {0, HEAP_HEADER} |->
        IF c = 0 THEN [size |-> HEAP_HEADER, used |-> TRUE]
        ELSE [size |-> MEM_ARENA_SIZE - HEAP_HEADER, used |-> FALSE]]

right_chunk(c) == c + heap[c].size

\* Free chunks that hold a request.
Fitting(bytes) ==
    {c \in DOMAIN heap : ~heap[c].used /\ heap[c].size >= bytes + CHUNK_HEADER}

\* Chunk c of a heap, cut to what the request needs.
Carve(c, bytes) ==
    LET need == bytes + CHUNK_HEADER
    IN  [d \in DOMAIN heap \cup ({c + need} \ {right_chunk(c)}) |->
            IF d = c THEN [size |-> need, used |-> TRUE]
            ELSE IF d = c + need /\ need < heap[c].size
                 THEN [size |-> heap[c].size - need, used |-> FALSE]
                 ELSE heap[d]]

\* Chunk c is free and merged with its free neighbours.
Merged(c) ==
    LET free(d) == d \in DOMAIN heap /\ ~heap[d].used
        first == IF \E d \in DOMAIN heap : free(d) /\ right_chunk(d) = c
                 THEN CHOOSE d \in DOMAIN heap : free(d) /\ right_chunk(d) = c
                 ELSE c
        end == IF free(right_chunk(c)) THEN right_chunk(right_chunk(c)) ELSE right_chunk(c)
    IN  [d \in DOMAIN heap \ (first + 1)..(end - 1) |->
            IF d = first THEN [size |-> end - first, used |-> FALSE] ELSE heap[d]]

-----------------------------------------------------------------------------
\* The readers of the adapters' own state

\* A slab and a pool hold as many pieces as the arena has room for.
MS_PIECES(g) == MEM_ARENA_SIZE \div (2^ctz(g))

\* Mutant: the table of the pools is in the opposite order.
MB_STEP_OF_Reversed(g) == MEM_S_MAX - ctz(g)

\* The index of a granularity in test_pool.
MB_STEP_OF(g) == ctz(g) - MEM_S_MIN

blk_size(k) == 2^(MEM_S_MIN + k)
num_blocks(k) == MEM_ARENA_SIZE \div blk_size(k)

mem_allocator_fixed_bytes ==
    IF adapter \in FixedSize THEN OBJECT
    ELSE IF heap = <<>> THEN 0 ELSE heap[0].size

\* The walk from chunk to chunk; the header is a used chunk.
mem_zephyr_heap_used_bytes ==
    LET total[c \in DOMAIN heap \cup {MEM_ARENA_SIZE}] ==
            IF c = MEM_ARENA_SIZE THEN 0
            ELSE (IF heap[c].used THEN heap[c].size ELSE 0) + total[right_chunk(c)]
    IN  IF heap = <<>> THEN 0 ELSE total[0]

mem_allocator_used_bytes ==
    CASE adapter \in Heaps -> mem_zephyr_heap_used_bytes
      [] adapter = "mem_slab" -> slab.num_used * granularity + OBJECT
      [] adapter = "mem_blocks" -> Cardinality(bitmap[test_live]) * blk_size(test_live) + OBJECT

mem_allocator_arena_bytes ==
    CASE adapter \in Heaps -> IF heap = <<>> THEN 0 ELSE MEM_ARENA_SIZE
      [] adapter = "mem_slab" -> slab.num_blocks * granularity
      [] adapter = "mem_blocks" -> num_blocks(test_live) * blk_size(test_live)

-----------------------------------------------------------------------------
\* Static memory; the kernel itself lays out the system heap at boot.
MemInit ==
    /\ adapter \in Heaps \cup FixedSize
    /\ granularity = 0
    /\ heap = IF adapter = "k_malloc" THEN EmptyHeap ELSE <<>>
    /\ slab = [free |-> {}, num_used |-> 0, num_blocks |-> 0]
    /\ bitmap = [k \in 0..(MEM_S_MAX - MEM_S_MIN) |-> {}]
    /\ test_live = 0
    /\ live = {}
    /\ asked = 0 /\ answer = "none"

\* mem_allocator_create_arena()

CreateHeap(g) ==
    /\ adapter \in Heaps
    /\ heap' = EmptyHeap
    /\ UNCHANGED <<slab, bitmap, test_live>>

CreateSlab(g) ==
    /\ adapter = "mem_slab"
    /\ slab' = [free |-> 0..(MS_PIECES(g) - 1), num_used |-> 0, num_blocks |-> MS_PIECES(g)]
    /\ UNCHANGED <<heap, bitmap, test_live>>

\* Mutant: a pool that has been laid out once is not cleared again.
CreateBlocks_NotCleared(g) ==
    /\ adapter = "mem_blocks"
    /\ test_live' = MB_STEP_OF(g)
    /\ UNCHANGED <<heap, slab, bitmap>>

CreateBlocks(g) ==
    /\ adapter = "mem_blocks"
    /\ test_live' = MB_STEP_OF(g)
    /\ bitmap' = [bitmap EXCEPT ![test_live'] = {}]
    /\ UNCHANGED <<heap, slab>>

CreateArena(g) ==
    /\ CreateHeap(g) \/ CreateSlab(g) \/ CreateBlocks(g)
    /\ granularity' = g
    /\ live' = {}
    /\ asked' = 0 /\ answer' = "none"
    /\ UNCHANGED adapter

\* mem_allocator_alloc(): a pointer, or NULL.

Refuse(count) ==
    /\ asked' = count /\ answer' = "NULL"
    /\ UNCHANGED <<adapter, granularity, heap, slab, bitmap, test_live, live>>

\* The harness holds the bytes it has asked for from base on.
Hand(base, bytes) ==
    /\ asked' = 1 /\ answer' = "piece"
    /\ live' = live \cup {[base |-> base, bytes |-> bytes]}
    /\ UNCHANGED <<adapter, granularity>>

AllocHeap(bytes) ==
    /\ adapter \in Heaps /\ granularity # 0
    /\ \/ /\ Fitting(bytes) = {} /\ Refuse(1)
       \/ \E c \in Fitting(bytes) :
             /\ heap' = Carve(c, bytes)
             /\ Hand(c + CHUNK_HEADER, bytes)
             /\ UNCHANGED <<slab, bitmap, test_live>>

\* The request is unused: a slab serves the granularity only.
AllocSlab ==
    /\ adapter = "mem_slab" /\ granularity # 0
    /\ \/ /\ slab.free = {} /\ Refuse(1)
       \/ \E k \in slab.free :
             /\ slab' = [slab EXCEPT !.free = @ \ {k}, !.num_used = @ + 1]
             /\ Hand(k * granularity, granularity)
             /\ UNCHANGED <<heap, bitmap, test_live>>

FreeBlocks == (0..(num_blocks(test_live) - 1)) \ bitmap[test_live]

AllocBlocks ==
    /\ adapter = "mem_blocks" /\ granularity # 0
    /\ \/ /\ FreeBlocks = {} /\ Refuse(1)
       \/ \E k \in FreeBlocks :
             /\ bitmap' = [bitmap EXCEPT ![test_live] = @ \cup {k}]
             /\ Hand(k * blk_size(test_live), granularity)
             /\ UNCHANGED <<heap, slab, test_live>>

TakeBlocks(K) ==
    /\ bitmap' = [bitmap EXCEPT ![test_live] = @ \cup K]
    /\ live' = live \cup
          {[base |-> k * blk_size(test_live), bytes |-> granularity] : k \in K}
    /\ answer' = "all"
    /\ UNCHANGED <<adapter, granularity, heap, slab, test_live>>

\* Mutant: the batch call takes what is left.
AllocN_Partial(count) ==
    /\ adapter = "mem_blocks" /\ granularity # 0
    /\ \/ /\ FreeBlocks = {} /\ Refuse(count)
       \/ /\ FreeBlocks # {} /\ asked' = count
          /\ \E K \in kSubset(Min({count, Cardinality(FreeBlocks)}), FreeBlocks) : TakeBlocks(K)

\* mem_allocator_alloc_n() of mem_blocks.
AllocN(count) ==
    /\ adapter = "mem_blocks" /\ granularity # 0
    /\ \/ /\ Cardinality(FreeBlocks) < count /\ Refuse(count)
       \/ \E K \in kSubset(count, FreeBlocks) : TakeBlocks(K) /\ asked' = count

\* The other adapters refuse a batch without asking the allocator.
AllocN_Unsupported ==
    /\ adapter # "mem_blocks" /\ granularity # 0
    /\ Refuse(0)

\* mem_allocator_free() of a piece that was taken since the last create.
Free(p) ==
    /\ live' = live \ {p}
    /\ asked' = 0 /\ answer' = "none"
    /\ \/ /\ adapter \in Heaps
          /\ heap' = Merged(p.base - CHUNK_HEADER)
          /\ UNCHANGED <<slab, bitmap>>
       \/ /\ adapter = "mem_slab"
          /\ slab' = [slab EXCEPT !.free = @ \cup {p.base \div granularity}, !.num_used = @ - 1]
          /\ UNCHANGED <<heap, bitmap>>
       \/ /\ adapter = "mem_blocks"
          /\ bitmap' = [bitmap EXCEPT ![test_live] = @ \ {p.base \div blk_size(test_live)}]
          /\ UNCHANGED <<heap, slab>>
    /\ UNCHANGED <<adapter, granularity, test_live>>

MemNext ==
    \/ \E g \in Granularity : CreateArena(g) \/ AllocHeap(g)
    \/ AllocSlab \/ AllocBlocks
    \/ \E count \in 1..MS_PIECES(2^MEM_S_MIN) : AllocN(count)
    \/ AllocN_Unsupported
    \/ \E p \in live : Free(p)

MemSpec == MemInit /\ [][MemNext]_memvars

-----------------------------------------------------------------------------
\* What the pieces of the harness take from the arena.
Space(p) == p.bytes + (IF adapter \in Heaps THEN CHUNK_HEADER ELSE 0)

LiveSpace == MapThenSumSet(Space, live)

\* No two pieces the harness holds at the same time overlap, none reaches
\* beyond the arena that is reported, and every adapter reports the same arena.
PiecesDisjoint ==
    /\ granularity # 0 => mem_allocator_arena_bytes = MEM_ARENA_SIZE
    /\ \A p \in live : p.base + p.bytes <= mem_allocator_arena_bytes
    /\ \A p, q \in live : p # q => p.base + p.bytes <= q.base \/ q.base + q.bytes <= p.base

\* The space in use is the fixed cost and the pieces the harness holds since
\* the last create: nothing that was live in an earlier layout of the arena,
\* in this pool or another, is counted, and nothing that was returned.
UsageExact == mem_allocator_used_bytes = mem_allocator_fixed_bytes + LiveSpace

\* An adapter that serves one size gives out the whole arena: it hands over as
\* many pieces as the call asks for whenever they fit beside the live ones, and
\* none at all otherwise.
FillsTheArena ==
    [][(adapter \in FixedSize /\ asked' > 0) =>
           IF (Cardinality(live) + asked') * granularity <= MEM_ARENA_SIZE
           THEN live \subseteq live' /\ Cardinality(live') = Cardinality(live) + asked'
           ELSE live' = live /\ answer' = "NULL"]_memvars
=============================================================================
