------------------------------- MODULE BlockAlloc -------------------------------
(***************************************************************************)
(* The allocators of the core (core/alloc.c): one free list per block      *)
(* size, kept in the free blocks themselves.                               *)
(*                                                                         *)
(* Memory is counted in words, and a word holds either a free_block.next   *)
(* or data of the client whose block it is in.  CoreHeap says who the      *)
(* clients are.                                                            *)
(***************************************************************************)
EXTENDS Naturals, FiniteSets, Sequences

CONSTANT Buffers   \* g_allocators: a sequence of [buf, block_size, blocks]

NULL == 0

ASSUME BuffersAreApart ==
  /\ Buffers \in Seq([buf : Nat \ {0}, block_size : Nat \ {0}, blocks : Nat \ {0}])
  /\ \A j, k \in DOMAIN Buffers : j < k =>
       /\ Buffers[j].block_size < Buffers[k].block_size
       /\ \/ Buffers[j].buf + Buffers[j].block_size * Buffers[j].blocks <= Buffers[k].buf
          \/ Buffers[k].buf + Buffers[k].block_size * Buffers[k].blocks <= Buffers[j].buf

Allocators == DOMAIN Buffers
buf_size(c) == Buffers[c].block_size * Buffers[c].blocks
Block(c, k) == Buffers[c].buf + k * Buffers[c].block_size
BlocksOf(c) == {Block(c, k) : k \in 0 .. (Buffers[c].blocks - 1)}
Blocks      == UNION {BlocksOf(c) : c \in Allocators}
Words       == UNION {Buffers[c].buf .. (Buffers[c].buf + buf_size(c) - 1) : c \in Allocators}

(* The room there is at the address of a block, whatever list it is in.     *)
Room(b) == Buffers[CHOOSE c \in Allocators : b \in BlocksOf(c)].block_size

VARIABLES
  head,   \* allocator -> its first free block, or NULL
  word,   \* word of memory -> <<"next", address>>, or <<"data", address of the block>>
  live,   \* allocations: address -> size asked for
  used    \* the allocations their clients have written to

vars == <<head, word, live, used>>

Ptr(b)  == <<"next", b>>
Data(b) == <<"data", b>>

-------------------------------------------------------------------------------
(* core_init_allocators chains the blocks of a buffer, the last one first.  *)
LastBlock(c) == Block(c, Buffers[c].blocks - 1)

Heads == [c \in Allocators |-> LastBlock(c)]
Chained(memory) ==
  [a \in Words |->
     IF \E c \in Allocators : a = Buffers[c].buf THEN Ptr(NULL)
     ELSE IF a \in Blocks THEN Ptr(a - Room(a)) ELSE memory[a]]

core_init_allocators ==
  /\ head' = Heads
  /\ word' = Chained(word)
  /\ live' = <<>>
  /\ used' = {}

Init ==
  /\ head = Heads
  /\ word = Chained([a \in Words |-> Ptr(NULL)])
  /\ live = <<>>
  /\ used = {}

First(S) == IF S = {} THEN NULL ELSE CHOOSE c \in S : \A d \in S : c <= d

(* Mutant: the smallest block that nearly fits. *)
find_allocator_for_size_less(size) ==
  First({c \in Allocators : Buffers[c].block_size + 1 >= size})

(* The smallest block size that fits. *)
find_allocator_for_size(size) == First({c \in Allocators : Buffers[c].block_size >= size})

(* Mutant: the first word of a buffer is taken for outside. *)
find_allocator_for_allocation_open(addr) ==
  First({c \in Allocators : Buffers[c].buf < addr /\ addr <= Buffers[c].buf + buf_size(c)})

(* The first buffer with addr in it or at its end. *)
find_allocator_for_allocation(addr) ==
  First({c \in Allocators : Buffers[c].buf <= addr /\ addr <= Buffers[c].buf + buf_size(c)})

(* The block an allocation gets, or NULL. *)
Found(size) ==
  LET c == find_allocator_for_size(size) IN IF c = NULL THEN NULL ELSE head[c]

Pop(size) ==
  /\ Found(size) # NULL
  /\ head' = [head EXCEPT ![find_allocator_for_size(size)] = word[Found(size)][2]]
  /\ live' = [p \in DOMAIN live \cup {Found(size)} |->
                IF p = Found(size) THEN size ELSE live[p]]

core_malloc(size) ==
  /\ Pop(size)
  /\ UNCHANGED <<word, used>>

(* memset: count * size bytes of the block, none of them a pointer. *)
core_calloc(size) ==
  /\ Pop(size)
  /\ word' = [a \in Words |->
                IF a \in Found(size) .. (Found(size) + size - 1) THEN Ptr(NULL) ELSE word[a]]
  /\ UNCHANGED used

(* A client fills its allocation. *)
Write(p) ==
  /\ p \in DOMAIN live
  /\ p \notin used
  /\ word' = [a \in Words |-> IF a \in p .. (p + live[p] - 1) THEN Data(p) ELSE word[a]]
  /\ used' = used \cup {p}
  /\ UNCHANGED <<head, live>>

(* The block becomes the first of its list. *)
Link(c) == Ptr(head[c])

core_free(p) ==
  /\ LET c == find_allocator_for_allocation(p)
     IN  IF c # NULL
         THEN /\ word' = [word EXCEPT ![p] = Link(c)]
              /\ head' = [head EXCEPT ![c] = p]
         ELSE UNCHANGED <<word, head>>
  /\ live' = [q \in DOMAIN live \ {p} |-> live[q]]
  /\ used' = used \ {p}

-------------------------------------------------------------------------------
(* Properties. *)

(* The n-th block of the free list of c, or NULL behind its end. *)
Nth(c) ==
  LET nth[n \in Nat] ==
        IF n = 0 THEN head[c]
        ELSE IF nth[n - 1] = NULL THEN NULL ELSE word[nth[n - 1]][2]
  IN  nth

FreeBlocks(c) == {Nth(c)[n] : n \in 0 .. Cardinality(Blocks)} \ {NULL}

(* Every block is in exactly one place: once in one free list, or with one *)
(* client.  A list is walked through memory its blocks share with clients. *)
BlocksConserved ==
  /\ \A c \in Allocators : Nth(c)[Cardinality(FreeBlocks(c))] = NULL
  /\ \A c, d \in Allocators : c # d => FreeBlocks(c) \cap FreeBlocks(d) = {}
  /\ DOMAIN live = Blocks \ UNION {FreeBlocks(c) : c \in Allocators}

(* An allocation has the room that was asked for, to itself: what a client *)
(* wrote there stays until it frees it, whoever allocates, writes or frees. *)
AllocationsArePrivate ==
  /\ \A p \in DOMAIN live : live[p] <= Room(p)
  /\ \A p \in used : \A a \in p .. (p + live[p] - 1) : word[a] = Data(p)

(* An allocation fails only while all the blocks of its size are taken.  A *)
(* block at the start of a buffer is the exception: when the buffer of a   *)
(* smaller size ends there, core_free gives it to that size for good.      *)
FailsOnlyWhenTaken ==
  \A c \in Allocators : head[c] = NULL =>
    \A b \in BlocksOf(c) \ DOMAIN live :
      b = Buffers[c].buf /\ \E d \in 1 .. (c - 1) : Buffers[d].buf + buf_size(d) = b
===============================================================================
