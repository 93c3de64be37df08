------------------------------- MODULE HeapProofs -------------------------------
(***************************************************************************)
(* Proofs about the heap of the core, for buffers of any number and size,  *)
(* any sizes of the queue and any allocations of uACPI.                    *)
(***************************************************************************)
EXTENDS CoreHeap, FiniteSetTheorems, WellFoundedInduction, TLAPS

End(c) == Buffers[c].buf + buf_size(c)

(* The blocks that core_free may put into the list of c: its own, and one   *)
(* at the start of a later buffer that begins where the one of c ends.      *)
MayHold(c, b) ==
  \/ b \in BlocksOf(c)
  \/ b = End(c) /\ \E d \in Allocators : c < d /\ b = Buffers[d].buf

(* The n-th block of a list, or NULL behind its end. *)
Elem(s, n) == IF n \in 1 .. Len(s) THEN s[n] ELSE NULL

(* f are the free lists: chained through their blocks, each block once in   *)
(* one list that may have it, and the others are the clients'.              *)
Lists(f) ==
  /\ \A c \in Allocators : head[c] = Elem(f[c], 1)
  /\ \A c \in Allocators : \A n \in 1 .. Len(f[c]) :
       word[f[c][n]] = Ptr(Elem(f[c], n + 1)) /\ MayHold(c, f[c][n])
  /\ \A c, d \in Allocators : \A i \in 1 .. Len(f[c]), j \in 1 .. Len(f[d]) :
       f[c][i] = f[d][j] => c = d /\ i = j
  /\ DOMAIN live \subseteq Blocks
  /\ \A b \in Blocks : b \notin DOMAIN live <=>
       \E c \in Allocators : \E n \in 1 .. Len(f[c]) : b = f[c][n]

Held ==
  /\ DOMAIN head = Allocators /\ DOMAIN word = Words
  /\ \A p \in DOMAIN live : live[p] \in Nat \ {0}
  /\ used \subseteq DOMAIN live
  /\ AllocationsArePrivate

HeapInv == Held /\ \E f \in [Allocators -> Seq(Blocks)] : Lists(f)

(* core_init_allocators has just run. *)
Fresh ==
  /\ head = Heads
  /\ \E memory : word = Chained(memory)
  /\ live = <<>>
  /\ used = {}

(* The first block of each list, and whether there is a second.             *)
Untouched ==
  /\ head = Heads
  /\ \A c \in Allocators : word[LastBlock(c)][2] = NULL <=> Buffers[c].blocks = 1

(* Whether the free lists of a fresh heap have a block for desc, and then   *)
(* one for avail.                                                           *)
DescFits  == find_allocator_for_size(part.desc) # NULL
AvailFits ==
  LET c == find_allocator_for_size(part.desc)
      d == find_allocator_for_size(part.avail)
  IN  d # NULL /\ (c = d => Buffers[c].blocks # 1)

Parts == {"desc", "avail", "used"}

(* These parts of the queue are different allocations, or NULL. *)
Mine(names) ==
  /\ \A n \in names : queue[n] \in DOMAIN live \cup {NULL}
  /\ \A n, m \in names : n # m /\ queue[n] # NULL => queue[n] # queue[m]

(* What is freed next is allocated. *)
Holdings ==
  /\ uacpi \subseteq DOMAIN live
  /\ step \notin {"acpi_setup", "acpi_destroy"} => uacpi = {}
  /\ request # NULL => step = "disk" /\ request \in DOMAIN live
  /\ step = "avail" => Mine({"desc"})
  /\ step = "used" => Mine({"desc", "avail"})
  /\ step \in {"configured", "free desc"} => Mine(Parts)
  /\ step = "free avail" => Mine({"avail", "used"})
  /\ step = "free used" => Mine({"used"})

(* A part that fails to be allocated in one run does so in all: what is     *)
(* left of the run before in the parts behind it is NULL.                   *)
Repeatable ==
  /\ queue["avail"] # NULL => DescFits
  /\ queue["used"] # NULL => DescFits /\ AvailFits
  /\ step = "init_virtio_blk_queue" => Untouched
  /\ step = "avail" =>
       /\ DescFits
       /\ \A c \in Allocators :
            head[c] = NULL <=> c = find_allocator_for_size(part.desc) /\ Buffers[c].blocks = 1
  /\ step = "used" => DescFits /\ AvailFits

Steps == {"acpi_destroy", "core_init_allocators", "init_virtio_blk_queue", "avail", "used",
          "configured", "free desc", "free avail", "free used", "disk", "acpi_setup"}

IInv ==
  /\ step \in Steps /\ part \in QueueParts /\ DOMAIN queue = Parts
  /\ HeapInv /\ Holdings /\ Repeatable

-------------------------------------------------------------------------------
(* How the blocks lie in the buffers.                                       *)
LEMMA Layout ==
  /\ \A c \in Allocators :
       /\ c \in Nat \ {0} /\ Buffers[c].buf \in Nat \ {0} /\ Buffers[c].block_size \in Nat \ {0}
       /\ Buffers[c].blocks \in Nat \ {0} /\ buf_size(c) \in Nat /\ End(c) \in Nat
  /\ \A b \in Blocks : /\ b \in Nat \ {0} /\ Room(b) \in Nat \ {0}
                       /\ b .. (b + Room(b) - 1) \subseteq Words
  /\ \A a, b \in Blocks : a # b => a + Room(a) <= b \/ b + Room(b) <= a
  /\ \A c \in Allocators : \A b \in BlocksOf(c) : Room(b) = Buffers[c].block_size /\ b \in Blocks
  /\ \A c \in Allocators : \A b \in Nat : MayHold(c, b) => b \in Blocks /\ Buffers[c].block_size <= Room(b)
  /\ \A c \in Allocators : \A b \in BlocksOf(c) : Buffers[c].buf <= b /\ b < End(c)
  /\ \A c, d \in Allocators : \A b \in BlocksOf(c) : b \in BlocksOf(d) => c = d
<1>1. ASSUME NEW s \in Nat \ {0}, NEW n \in Nat, NEW i \in 0 .. (n - 1)
      PROVE  i * s \in Nat /\ i * s + s <= s * n
  <2>1. s * n = i * s + s + (n - i - 1) * s
    OBVIOUS
  <2>2. (n - i - 1) * s \in Nat /\ i * s \in Nat
    OBVIOUS
  <2> QED
    BY <2>1, <2>2
<1>2. ASSUME NEW c \in Allocators
      PROVE  /\ Buffers[c].buf \in Nat \ {0} /\ Buffers[c].block_size \in Nat \ {0}
             /\ Buffers[c].blocks \in Nat \ {0} /\ c \in Nat \ {0} /\ buf_size(c) \in Nat
             /\ End(c) \in Nat
  <2>1. /\ Buffers[c].buf \in Nat \ {0} /\ Buffers[c].block_size \in Nat \ {0}
        /\ Buffers[c].blocks \in Nat \ {0} /\ c \in Nat \ {0}
    <3> DEFINE T == [buf : Nat \ {0}, block_size : Nat \ {0}, blocks : Nat \ {0}]
    <3>1. Buffers \in Seq(T)
      BY BuffersAreApart
    <3>2. c \in Nat \ {0} /\ Buffers[c] \in T
      <4> HIDE DEF T
      <4> QED
        BY <3>1 DEF Allocators
    <3> QED
      BY <3>2
  <2>2. \A x, y \in Nat : x * y \in Nat
    OBVIOUS
  <2> QED
    BY <2>1, <2>2 DEF buf_size, End
<1>3. ASSUME NEW c \in Allocators, NEW b \in BlocksOf(c)
      PROVE  Buffers[c].buf <= b /\ b + Buffers[c].block_size <= End(c) /\ b \in Nat /\ End(c) \in Nat
  <2>1. PICK i \in 0 .. (Buffers[c].blocks - 1) : b = Block(c, i)
    BY DEF BlocksOf
  <2>2. /\ i * Buffers[c].block_size \in Nat
        /\ i * Buffers[c].block_size + Buffers[c].block_size <= buf_size(c)
    BY <1>1, <1>2 DEF buf_size
  <2> QED
    BY <1>2, <2>1, <2>2 DEF Block, End
<1>4. ASSUME NEW c \in Allocators, NEW a \in BlocksOf(c), NEW b \in BlocksOf(c), a # b
      PROVE  a + Buffers[c].block_size <= b \/ b + Buffers[c].block_size <= a
  <2>1. PICK i, j \in 0 .. (Buffers[c].blocks - 1) : a = Block(c, i) /\ b = Block(c, j)
    BY DEF BlocksOf
  <2>2. ASSUME NEW x \in Nat, NEW y \in Nat, NEW s \in Nat, x < y PROVE x * s + s <= y * s
    <3>1. y * s = x * s + s + (y - x - 1) * s
      OBVIOUS
    <3>2. (y - x - 1) * s \in Nat
      BY <2>2
    <3> QED
      BY <3>1, <3>2
  <2>3. CASE i < j
    BY <1>2, <2>1, <2>2, <2>3 DEF Block
  <2>4. CASE j < i
    BY <1>2, <2>1, <2>2, <2>4 DEF Block
  <2> QED
    BY <1>4, <2>1, <2>3, <2>4
<1>5. ASSUME NEW c \in Allocators, NEW d \in Allocators, c # d
      PROVE  End(c) <= Buffers[d].buf \/ End(d) <= Buffers[c].buf
  <2>1. c < d \/ d < c
    BY <1>2, <1>5
  <2> QED
    BY <2>1, BuffersAreApart DEF Allocators, End, buf_size
<1>11. ASSUME NEW c \in Allocators, NEW d \in Allocators, NEW b \in BlocksOf(c), b \in BlocksOf(d)
       PROVE  c = d
  BY <1>2, <1>3, <1>5, <1>11
<1>6. ASSUME NEW c \in Allocators, NEW b \in BlocksOf(c)
      PROVE  b \in Blocks /\ Room(b) = Buffers[c].block_size
  <2>1. \A d \in Allocators : b \in BlocksOf(d) => d = c
    BY <1>11
  <2> QED
    BY <2>1 DEF Blocks, Room
<1>7. ASSUME NEW b \in Blocks PROVE \E c \in Allocators : b \in BlocksOf(c)
  BY DEF Blocks
<1>8. ASSUME NEW b \in Blocks
      PROVE  b \in Nat \ {0} /\ Room(b) \in Nat \ {0} /\ b .. (b + Room(b) - 1) \subseteq Words
  <2>1. PICK c \in Allocators : b \in BlocksOf(c)
    BY <1>7
  <2>2. b .. (b + Room(b) - 1) \subseteq Buffers[c].buf .. (Buffers[c].buf + buf_size(c) - 1)
    BY <1>2, <1>3, <1>6, <2>1 DEF End
  <2> QED
    BY <1>2, <1>3, <1>6, <2>1, <2>2 DEF Words
<1>9. ASSUME NEW a \in Blocks, NEW b \in Blocks, a # b
      PROVE  a + Room(a) <= b \/ b + Room(b) <= a
  <2>1. PICK c, d \in Allocators : a \in BlocksOf(c) /\ b \in BlocksOf(d)
    BY <1>7
  <2>2. Room(a) = Buffers[c].block_size /\ Room(b) = Buffers[d].block_size
    BY <1>6, <2>1
  <2>3. CASE c = d
    BY <1>4, <1>9, <2>1, <2>2, <2>3
  <2>4. CASE c # d
    BY <1>2, <1>3, <1>5, <2>1, <2>2, <2>4
  <2> QED
    BY <2>3, <2>4
<1>10. ASSUME NEW c \in Allocators, NEW b \in Nat, MayHold(c, b)
       PROVE  b \in Blocks /\ Buffers[c].block_size <= Room(b)
  <2>1. CASE b \in BlocksOf(c)
    BY <1>2, <1>6, <2>1
  <2>2. ASSUME NEW d \in Allocators, c < d, b = Buffers[d].buf
        PROVE  b \in Blocks /\ Buffers[c].block_size <= Room(b)
    <3>1. b = Block(d, 0) /\ 0 \in 0 .. (Buffers[d].blocks - 1)
      BY <1>2, <2>2 DEF Block
    <3>2. b \in BlocksOf(d)
      BY <3>1 DEF BlocksOf
    <3>3. Buffers[c].block_size < Buffers[d].block_size
      BY <2>2, BuffersAreApart DEF Allocators
    <3> QED
      BY <1>2, <1>6, <3>2, <3>3
  <2> QED
    BY <1>10, <2>1, <2>2 DEF MayHold
<1> QED
  BY <1>2, <1>3, <1>6, <1>8, <1>9, <1>10, <1>11

(* Which allocator a size or an address selects: one whose blocks are large *)
(* enough, and one whose list may have the block.                           *)
LEMMA Selected ==
  /\ \A size \in Nat :
       \/ find_allocator_for_size(size) = NULL
       \/ /\ find_allocator_for_size(size) \in Allocators
          /\ size <= Buffers[find_allocator_for_size(size)].block_size
  /\ \A b \in Blocks : /\ find_allocator_for_allocation(b) \in Allocators
                       /\ MayHold(find_allocator_for_allocation(b), b)
  /\ find_allocator_for_allocation(NULL) = NULL
  /\ NULL \notin Allocators
<1>1. ASSUME NEW T, T \subseteq Nat, T # {} PROVE First(T) \in T /\ \A d \in T : First(T) <= d
  <2> DEFINE R == OpToRel(<, Nat)
  <2>1. IsWellFoundedOn(R, Nat)
    BY NatLessThanWellFounded
  <2>2. PICK x \in T : \A y \in T : ~(<<y, x>> \in R)
    <3> HIDE DEF R
    <3> QED
      BY <1>1, <2>1, WFMin, Zenon
  <2>3. ASSUME NEW y \in T PROVE x <= y
    <3>1. x \in Nat /\ y \in Nat
      BY <1>1
    <3>2. ~(y < x)
      BY <2>2, <3>1, Zenon DEF OpToRel
    <3> QED
      BY <3>1, <3>2
  <2>4. First(T) = CHOOSE c \in T : \A d \in T : c <= d
    BY <1>1 DEF First
  <2> QED
    BY <2>3, <2>4
<1>2. ASSUME NEW c \in Allocators
      PROVE  /\ Buffers[c].buf \in Nat \ {0} /\ Buffers[c].block_size \in Nat \ {0}
             /\ c \in Nat \ {0} /\ buf_size(c) \in Nat
  BY Layout
<1>3. ASSUME NEW size \in Nat
      PROVE  \/ find_allocator_for_size(size) = NULL
             \/ /\ find_allocator_for_size(size) \in Allocators
                /\ size <= Buffers[find_allocator_for_size(size)].block_size
  <2> DEFINE S == {c \in Allocators : Buffers[c].block_size >= size}
  <2>1. S \subseteq Nat
    BY <1>2
  <2>2. CASE S = {}
    BY <2>2 DEF find_allocator_for_size, First
  <2>3. CASE S # {}
    <3>1. First(S) \in S
      <4> HIDE DEF S
      <4> QED
        BY <1>1, <2>1, <2>3
    <3> QED
      BY <1>2, <3>1 DEF find_allocator_for_size
  <2> QED
    BY <2>2, <2>3
<1>4. ASSUME NEW b \in Blocks
      PROVE  /\ find_allocator_for_allocation(b) \in Allocators
             /\ MayHold(find_allocator_for_allocation(b), b)
  <2> DEFINE S == {c \in Allocators : Buffers[c].buf <= b /\ b <= Buffers[c].buf + buf_size(c)}
             c == find_allocator_for_allocation(b)
  <2>1. PICK d \in Allocators : b \in BlocksOf(d)
    BY DEF Blocks
  <2>2. d \in S /\ b \in Nat /\ b < End(d)
    BY <1>2, <2>1, Layout DEF End
  <2>3. c \in S /\ c <= d
    <3>1. S \subseteq Nat /\ S # {}
      BY <1>2, <2>2
    <3>2. First(S) \in S /\ First(S) <= d
      <4> HIDE DEF S
      <4> QED
        BY <1>1, <2>2, <3>1
    <3> QED
      BY <3>2 DEF find_allocator_for_allocation
  <2>4. CASE c < d
    <3>1. End(c) <= Buffers[d].buf \/ End(d) <= Buffers[c].buf
      BY <2>3, <2>4, BuffersAreApart DEF Allocators, End, buf_size
    <3>2. b = End(c) /\ b = Buffers[d].buf
      BY <1>2, <2>1, <2>2, <2>3, <3>1, Layout DEF End
    <3> QED
      BY <2>3, <2>4, <3>2 DEF MayHold
  <2>5. CASE c = d
    BY <2>1, <2>5 DEF MayHold
  <2> QED
    BY <1>2, <2>3, <2>4, <2>5
<1>5. find_allocator_for_allocation(NULL) = NULL
  <2>1. {c \in Allocators : Buffers[c].buf <= NULL /\ NULL <= Buffers[c].buf + buf_size(c)} = {}
    BY <1>2 DEF NULL
  <2> QED
    BY <2>1 DEF find_allocator_for_allocation, First
<1> QED
  BY <1>2, <1>3, <1>4, <1>5 DEF NULL

(* An allocation takes the first block of its list.  What it writes stays   *)
(* in the block; when it fills the block it has used it.                    *)
LEMMA Take ==
  ASSUME HeapInv, NEW size \in Nat \ {0}, Pop(size), DOMAIN word' = Words,
         NEW T, T = Found(size) .. (Found(size) + size - 1),
         \A a \in Words \ T : word'[a] = word[a],
         \/ used' = used
         \/ used' = used \cup {Found(size)} /\ \A a \in T : word'[a] = Data(Found(size))
  PROVE  /\ HeapInv'
         /\ Found(size) \in Blocks \ DOMAIN live
         /\ DOMAIN live' = DOMAIN live \cup {Found(size)}
<1> DEFINE c == find_allocator_for_size(size)
           b == Found(size)
<1>1. PICK f \in [Allocators -> Seq(Blocks)] : Lists(f)
  BY DEF HeapInv
<1>2. c \in Allocators /\ size <= Buffers[c].block_size /\ b = head[c] /\ b # NULL
  BY Selected DEF Pop, Found
<1> HIDE DEF c
<1>3. b = f[c][1] /\ 1 \in 1 .. Len(f[c]) /\ Len(f[c]) \in Nat /\ f[c] \in Seq(Blocks)
  <2>1. b = Elem(f[c], 1) /\ f[c] \in Seq(Blocks)
    BY <1>1, <1>2 DEF Lists
  <2> QED
    BY <1>2, <2>1 DEF Elem
<1>4. b \in Blocks \ DOMAIN live /\ size <= Room(b) /\ b \in Nat
  <2>1. b \in Blocks /\ b \notin DOMAIN live /\ MayHold(c, b)
    BY <1>1, <1>2, <1>3 DEF Lists
  <2>2. b \in Nat /\ Room(b) \in Nat /\ Buffers[c].block_size <= Room(b)
    BY <1>2, <2>1, Layout
  <2> QED
    BY <1>2, <2>1, <2>2, Layout
<1>5. ASSUME NEW p \in Blocks, p # b, NEW a \in p .. (p + Room(p) - 1)
      PROVE  word'[a] = word[a]
  <2>1. p + Room(p) <= b \/ b + Room(b) <= p
    BY <1>4, <1>5, Layout
  <2>2. a \in Words /\ p \in Nat /\ Room(p) \in Nat /\ Room(b) \in Nat
    BY <1>4, <1>5, Layout
  <2>3. a \notin T
    BY <1>4, <1>5, <2>1, <2>2
  <2> QED
    BY <2>2, <2>3
<1>6. /\ head' = [head EXCEPT ![c] = word[b][2]]
      /\ live' = [p \in DOMAIN live \cup {b} |-> IF p = b THEN size ELSE live[p]]
  BY DEF Pop, c
<1> HIDE DEF b
<1>7. Held'
  <2>1. DOMAIN head' = Allocators
    BY <1>6 DEF HeapInv, Held
  <2>2. \A p \in DOMAIN live' : live'[p] \in Nat \ {0} /\ live'[p] <= Room(p)
    BY <1>4, <1>6 DEF HeapInv, Held, AllocationsArePrivate
  <2>3. used' \subseteq DOMAIN live'
    BY <1>6 DEF HeapInv, Held, b
  <2>4. ASSUME NEW p \in used', NEW a \in p .. (p + live'[p] - 1) PROVE word'[a] = Data(p)
    <3>1. CASE p = b
      <4>1. b \notin used
        BY <1>4 DEF HeapInv, Held
      <4>2. a \in T /\ used' # used
        BY <1>6, <2>4, <3>1, <4>1 DEF b
      <4> QED
        BY <3>1, <4>2 DEF b
    <3>2. CASE p # b
      <4>1. p \in used /\ p \in DOMAIN live /\ p \in Blocks
        BY <1>1, <2>4, <3>2 DEF HeapInv, Held, Lists, b
      <4>2. live'[p] = live[p] /\ live[p] \in Nat /\ live[p] <= Room(p) /\ p \in Nat /\ Room(p) \in Nat
        BY <1>6, <3>2, <4>1, Layout DEF HeapInv, Held, AllocationsArePrivate
      <4>3. a \in p .. (p + Room(p) - 1) /\ a \in p .. (p + live[p] - 1)
        BY <2>4, <4>2
      <4> QED
        BY <1>5, <3>2, <4>1, <4>3 DEF HeapInv, Held, AllocationsArePrivate
    <3> QED
      BY <3>1, <3>2
  <2> QED
    BY <2>1, <2>2, <2>3, <2>4 DEF Held, AllocationsArePrivate
<1> DEFINE g == [f EXCEPT ![c] = Tail(f[c])]
           off(d) == IF d = c THEN 1 ELSE 0
<1>8. /\ g \in [Allocators -> Seq(Blocks)]
      /\ \A d \in Allocators : /\ Len(f[d]) \in Nat /\ Len(g[d]) = Len(f[d]) - off(d)
                               /\ \A n \in 1 .. Len(g[d]) : g[d][n] = f[d][n + off(d)]
  <2>1. /\ Tail(f[c]) \in Seq(Blocks) /\ Len(Tail(f[c])) = Len(f[c]) - 1
        /\ \A n \in 1 .. Len(Tail(f[c])) : Tail(f[c])[n] = f[c][n + 1]
    BY <1>2, <1>3
  <2>2. \A d \in Allocators : g[d] = IF d = c THEN Tail(f[c]) ELSE f[d]
    BY <1>1, <1>2
  <2>3. g \in [Allocators -> Seq(Blocks)]
    BY <1>1, <1>2, <2>1
  <2>4. ASSUME NEW d \in Allocators, d # c
        PROVE  /\ Len(f[d]) \in Nat /\ Len(g[d]) = Len(f[d])
               /\ \A n \in 1 .. Len(g[d]) : n + 0 = n /\ g[d][n] = f[d][n]
    <3>1. f[d] \in Seq(Blocks)
      BY <1>1
    <3> QED
      BY <2>2, <2>4, <3>1
  <2>5. ASSUME NEW d \in Allocators
        PROVE  /\ Len(f[d]) \in Nat /\ Len(g[d]) = Len(f[d]) - off(d)
               /\ \A n \in 1 .. Len(g[d]) : g[d][n] = f[d][n + off(d)]
    <3>1. CASE d = c
      BY <1>3, <2>1, <2>2, <3>1
    <3>2. CASE d # c
      BY <2>4, <3>2
    <3> QED
      BY <3>1, <3>2
  <2> QED
    BY <2>3, <2>5
<1> HIDE DEF g
<1>9. ASSUME NEW d \in Allocators, NEW n \in Nat \ {0} PROVE Elem(g[d], n) = Elem(f[d], n + off(d))
  BY <1>8 DEF Elem
<1>10. Lists(g)'
  <2>1. ASSUME NEW d \in Allocators PROVE head'[d] = Elem(g[d], 1)
    <3>1. CASE d = c
      <4>1. word[b] = Ptr(Elem(f[c], 2))
        BY <1>1, <1>2, <1>3 DEF Lists
      <4>2. head'[c] = Elem(f[c], 2)
        BY <1>2, <1>6, <4>1 DEF Ptr, HeapInv, Held
      <4> QED
        BY <1>9, <3>1, <4>2
    <3>2. CASE d # c
      BY <1>1, <1>2, <1>6, <1>9, <3>2 DEF HeapInv, Held, Lists
    <3> QED
      BY <3>1, <3>2
  <2>2. ASSUME NEW d \in Allocators, NEW n \in 1 .. Len(g[d])
        PROVE  /\ g[d][n] = f[d][n + off(d)] /\ n + off(d) \in 1 .. Len(f[d])
               /\ g[d][n] # b /\ g[d][n] \in Blocks
    <3>1. g[d][n] = f[d][n + off(d)] /\ n + off(d) \in 1 .. Len(f[d])
      BY <1>8
    <3>2. f[d] \in Seq(Blocks)
      BY <1>1
    <3>3. g[d][n] \in Blocks
      BY <3>1, <3>2
    <3>4. d # c \/ n + off(d) # 1
      BY <2>2
    <3>5. f[d][n + off(d)] # f[c][1]
      BY <1>1, <1>2, <1>3, <3>1, <3>4 DEF Lists
    <3> QED
      BY <1>3, <3>1, <3>3, <3>5
  <2>3. ASSUME NEW d \in Allocators, NEW n \in 1 .. Len(g[d])
        PROVE  word'[g[d][n]] = Ptr(Elem(g[d], n + 1)) /\ MayHold(d, g[d][n])
    <3>1. word[g[d][n]] = Ptr(Elem(f[d], n + off(d) + 1)) /\ MayHold(d, g[d][n])
      BY <1>1, <2>2 DEF Lists
    <3>2. g[d][n] \in g[d][n] .. (g[d][n] + Room(g[d][n]) - 1)
      BY <2>2, Layout
    <3>3. word'[g[d][n]] = word[g[d][n]]
      BY <1>5, <2>2, <3>2
    <3>4. Elem(g[d], n + 1) = Elem(f[d], n + off(d) + 1)
      BY <1>9
    <3> QED
      BY <3>1, <3>3, <3>4
  <2>4. ASSUME NEW d \in Allocators, NEW e \in Allocators, NEW i \in 1 .. Len(g[d]),
               NEW j \in 1 .. Len(g[e]), g[d][i] = g[e][j]
        PROVE  d = e /\ i = j
    <3>1. /\ f[d][i + off(d)] = f[e][j + off(e)]
          /\ i + off(d) \in 1 .. Len(f[d]) /\ j + off(e) \in 1 .. Len(f[e])
      BY <2>2, <2>4
    <3>2. d = e /\ i + off(d) = j + off(e)
      <4> HIDE DEF off
      <4> QED
        BY <1>1, <3>1 DEF Lists
    <3> QED
      BY <3>2
  <2>5. ASSUME NEW x \in Blocks
        PROVE  x \notin DOMAIN live' <=> \E d \in Allocators : \E n \in 1 .. Len(g[d]) : x = g[d][n]
    <3>1. ASSUME x \notin DOMAIN live'
          PROVE  \E d \in Allocators : \E n \in 1 .. Len(g[d]) : x = g[d][n]
      <4>1. x \notin DOMAIN live /\ x # b
        BY <1>6, <3>1
      <4>2. PICK d \in Allocators : \E m \in 1 .. Len(f[d]) : x = f[d][m]
        BY <1>1, <4>1 DEF Lists
      <4>5. PICK m \in 1 .. Len(f[d]) : x = f[d][m]
        BY <4>2
      <4>6. m - off(d) \in 1 .. Len(g[d])
        BY <1>3, <1>8, <4>1, <4>5
      <4>7. g[d][m - off(d)] = f[d][m]
        BY <1>8, <4>6
      <4> QED
        BY <4>5, <4>6, <4>7
    <3>2. ASSUME NEW d \in Allocators, NEW n \in 1 .. Len(g[d]), x = g[d][n]
          PROVE  x \notin DOMAIN live'
      <4>1. x = f[d][n + off(d)] /\ n + off(d) \in 1 .. Len(f[d]) /\ x # b
        BY <2>2, <3>2
      <4>2. x \notin DOMAIN live
        <5> HIDE DEF off
        <5> QED
          BY <1>1, <4>1 DEF Lists
      <4> QED
        BY <1>6, <4>1, <4>2
    <3> QED
      BY <3>1, <3>2
  <2>6. DOMAIN live' \subseteq Blocks
    BY <1>1, <1>4, <1>6 DEF Lists
  <2> QED
    BY <2>1, <2>3, <2>4, <2>5, <2>6 DEF Lists
<1> QED
  BY <1>4, <1>6, <1>7, <1>8, <1>10 DEF HeapInv, b

(* A client writes within its allocations. *)
LEMMA Fill ==
  ASSUME HeapInv, NEW p, Write(p)
  PROVE  HeapInv' /\ live' = live
<1>1. PICK f \in [Allocators -> Seq(Blocks)] : Lists(f)
  BY DEF HeapInv
<1>2. /\ p \in DOMAIN live /\ used' = used \cup {p} /\ head' = head /\ live' = live
      /\ word' = [a \in Words |-> IF a \in p .. (p + live[p] - 1) THEN Data(p) ELSE word[a]]
  BY DEF Write
<1>3. ASSUME NEW q \in DOMAIN live
      PROVE  /\ q \in Blocks /\ q \in Nat /\ Room(q) \in Nat \ {0}
             /\ live[q] \in Nat \ {0} /\ live[q] <= Room(q)
  BY <1>1, Layout DEF Lists, HeapInv, Held, AllocationsArePrivate
<1>4. ASSUME NEW q \in Blocks, q # p, NEW a \in q .. (q + Room(q) - 1)
      PROVE  word'[a] = word[a]
  <2>1. a \in Words /\ q \in Nat /\ Room(q) \in Nat
    BY <1>4, Layout
  <2>2. p + Room(p) <= q \/ q + Room(q) <= p
    BY <1>2, <1>3, <1>4, Layout
  <2>3. a \notin p .. (p + live[p] - 1)
    BY <1>2, <1>3, <1>4, <2>1, <2>2
  <2> QED
    BY <1>2, <2>1, <2>3
<1>5. Held'
  <2>1. ASSUME NEW q \in used', NEW a \in q .. (q + live'[q] - 1) PROVE word'[a] = Data(q)
    <3>1. q \in DOMAIN live /\ live' = live /\ a \in q .. (q + Room(q) - 1) /\ q \in Blocks
      BY <1>2, <1>3, <2>1 DEF HeapInv, Held
    <3>2. CASE q = p
      <4>1. a \in Words
        BY <3>1, Layout
      <4> QED
        BY <1>2, <2>1, <3>2, <4>1
    <3>3. CASE q # p
      BY <1>2, <1>4, <2>1, <3>1, <3>3 DEF HeapInv, Held, AllocationsArePrivate
    <3> QED
      BY <3>2, <3>3
  <2> QED
    BY <1>2, <2>1 DEF HeapInv, Held, AllocationsArePrivate
<1>6. Lists(f)'
  <2>1. ASSUME NEW c \in Allocators, NEW n \in 1 .. Len(f[c]) PROVE word'[f[c][n]] = word[f[c][n]]
    <3>1. f[c][n] \in Blocks
      <4>1. f[c] \in Seq(Blocks)
        BY <1>1
      <4> QED
        BY <2>1, <4>1
    <3>2. f[c][n] # p
      BY <1>1, <1>2, <2>1, <3>1 DEF Lists
    <3>3. f[c][n] \in f[c][n] .. (f[c][n] + Room(f[c][n]) - 1)
      BY <3>1, Layout
    <3> QED
      BY <1>4, <3>1, <3>2, <3>3
  <2> QED
    BY <1>1, <1>2, <2>1 DEF Lists
<1> QED
  BY <1>1, <1>2, <1>5, <1>6 DEF HeapInv

(* A free puts the block in front of a list, and writes to nothing else.    *)
(* Nothing happens to NULL.                                                 *)
LEMMA Give ==
  ASSUME HeapInv, NEW p \in DOMAIN live \cup {NULL}, core_free(p)
  PROVE  HeapInv' /\ DOMAIN live' = DOMAIN live \ {p}
<1> DEFINE c == find_allocator_for_allocation(p)
<1>1. PICK f \in [Allocators -> Seq(Blocks)] : Lists(f)
  BY DEF HeapInv
<1>2. DOMAIN live \subseteq Blocks /\ NULL \notin Blocks
  BY <1>1, Layout DEF Lists, NULL
<1>3. /\ live' = [q \in DOMAIN live \ {p} |-> live[q]] /\ used' = used \ {p}
      /\ DOMAIN live' = DOMAIN live \ {p}
  BY DEF core_free
<1>4. CASE p = NULL
  <2>1. word' = word /\ head' = head /\ DOMAIN live' = DOMAIN live
    BY <1>2, <1>3, <1>4, Selected DEF core_free
  <2>2. Held'
    BY <1>2, <1>3, <1>4, <2>1 DEF HeapInv, Held, AllocationsArePrivate
  <2>3. Lists(f)'
    BY <1>1, <2>1 DEF Lists
  <2> QED
    BY <1>1, <1>3, <2>2, <2>3 DEF HeapInv
<1>5. CASE p # NULL
  <2>1. p \in DOMAIN live /\ p \in Blocks /\ c \in Allocators /\ MayHold(c, p) /\ c # NULL
    BY <1>2, <1>5, Selected
  <2>2. word' = [word EXCEPT ![p] = Ptr(head[c])] /\ head' = [head EXCEPT ![c] = p]
    BY <2>1 DEF core_free, Link
  <2> HIDE DEF c
  <2>3. ASSUME NEW q \in Blocks, q # p, NEW a \in q .. (q + Room(q) - 1)
        PROVE  word'[a] = word[a] /\ a \in Words
    <3>1. /\ a \in Words /\ q \in Nat /\ Room(q) \in Nat /\ p \in Nat /\ Room(p) \in Nat \ {0}
          /\ p + Room(p) <= q \/ q + Room(q) <= p
      BY <2>1, <2>3, Layout
    <3>2. a # p
      BY <2>3, <3>1
    <3> QED
      BY <2>2, <3>1, <3>2 DEF HeapInv, Held
  <2>4. p \in Words
    <3>1. p \in p .. (p + Room(p) - 1)
      BY <2>1, Layout
    <3> QED
      BY <2>1, <3>1, Layout
  <2>5. Held'
    <3>1. DOMAIN head' = Allocators /\ DOMAIN word' = Words /\ used' \subseteq DOMAIN live'
      BY <1>3, <2>2 DEF HeapInv, Held
    <3>2. \A q \in DOMAIN live' : live'[q] = live[q] /\ q \in DOMAIN live
      BY <1>3
    <3>3. ASSUME NEW q \in used', NEW a \in q .. (q + live'[q] - 1) PROVE word'[a] = Data(q)
      <4>1. q \in used /\ q # p /\ q \in DOMAIN live /\ q \in Blocks /\ live'[q] = live[q]
        BY <1>2, <1>3, <3>3 DEF HeapInv, Held
      <4>2. q \in Nat /\ Room(q) \in Nat /\ live[q] \in Nat /\ live[q] <= Room(q)
        BY <4>1, Layout DEF HeapInv, Held, AllocationsArePrivate
      <4>3. a \in q .. (q + Room(q) - 1) /\ a \in q .. (q + live[q] - 1)
        BY <3>3, <4>1, <4>2
      <4> QED
        BY <2>3, <4>1, <4>3 DEF HeapInv, Held, AllocationsArePrivate
    <3> QED
      BY <3>1, <3>2, <3>3 DEF HeapInv, Held, AllocationsArePrivate
  <2> DEFINE g == [f EXCEPT ![c] = <<p>> \o f[c]]
             off(d) == IF d = c THEN 1 ELSE 0
  <2>6. /\ g \in [Allocators -> Seq(Blocks)]
        /\ \A d \in Allocators : /\ Len(f[d]) \in Nat /\ Len(g[d]) = Len(f[d]) + off(d)
                                 /\ \A n \in 1 .. Len(f[d]) : g[d][n + off(d)] = f[d][n]
        /\ g[c][1] = p
    <3>1. f[c] \in Seq(Blocks)
      BY <1>1, <2>1
    <3>2. /\ <<p>> \o f[c] \in Seq(Blocks) /\ Len(<<p>> \o f[c]) = Len(f[c]) + 1
          /\ (<<p>> \o f[c])[1] = p
          /\ \A n \in 1 .. Len(f[c]) : (<<p>> \o f[c])[n + 1] = f[c][n]
      BY <2>1, <3>1
    <3>3. \A d \in Allocators : g[d] = IF d = c THEN <<p>> \o f[c] ELSE f[d]
      BY <1>1, <2>1
    <3>4. g \in [Allocators -> Seq(Blocks)]
      BY <1>1, <2>1, <3>2
    <3>5. ASSUME NEW d \in Allocators, d # c
          PROVE  /\ Len(f[d]) \in Nat /\ Len(g[d]) = Len(f[d])
                 /\ \A n \in 1 .. Len(f[d]) : n + 0 = n /\ g[d][n] = f[d][n]
      <4>1. f[d] \in Seq(Blocks)
        BY <1>1
      <4> QED
        BY <3>3, <3>5, <4>1
    <3>6. ASSUME NEW d \in Allocators
          PROVE  /\ Len(f[d]) \in Nat /\ Len(g[d]) = Len(f[d]) + off(d)
                 /\ \A n \in 1 .. Len(f[d]) : g[d][n + off(d)] = f[d][n]
      <4>1. CASE d = c
        BY <3>1, <3>2, <3>3, <4>1
      <4>2. CASE d # c
        BY <3>5, <4>2
      <4> QED
        BY <4>1, <4>2
    <3> QED
      BY <2>1, <3>2, <3>3, <3>4, <3>6
  <2> HIDE DEF g
  <2>7. ASSUME NEW d \in Allocators, NEW m \in 1 .. Len(g[d])
        PROVE  \/ d = c /\ m = 1
               \/ m - off(d) \in 1 .. Len(f[d]) /\ g[d][m] = f[d][m - off(d)]
    <3>1. d # c \/ m # 1 => m - off(d) \in 1 .. Len(f[d])
      BY <2>6
    <3>2. m - off(d) \in 1 .. Len(f[d]) => g[d][(m - off(d)) + off(d)] = f[d][m - off(d)]
      BY <2>6
    <3>3. (m - off(d)) + off(d) = m
      OBVIOUS
    <3> QED
      BY <3>1, <3>2, <3>3
  <2>8. ASSUME NEW d \in Allocators, NEW n \in Nat \ {0}
        PROVE  Elem(g[d], n + off(d)) = Elem(f[d], n)
    <3>1. n \in 1 .. Len(f[d]) <=> n + off(d) \in 1 .. Len(g[d])
      BY <2>6
    <3> QED
      BY <2>6, <3>1 DEF Elem
  <2>9. Lists(g)'
    <3>1. ASSUME NEW d \in Allocators PROVE head'[d] = Elem(g[d], 1)
      <4>1. CASE d = c
        BY <2>1, <2>2, <2>6, <4>1 DEF Elem, HeapInv, Held
      <4>2. CASE d # c
        BY <1>1, <2>2, <2>8, <4>2 DEF Lists, HeapInv, Held
      <4> QED
        BY <4>1, <4>2
    <3>2. ASSUME NEW d \in Allocators, NEW n \in 1 .. Len(f[d])
          PROVE  /\ f[d][n] \in Blocks /\ f[d][n] # p /\ word'[f[d][n]] = word[f[d][n]]
      <4>1. f[d][n] \in Blocks
        <5>1. f[d] \in Seq(Blocks)
          BY <1>1
        <5> QED
          BY <3>2, <5>1
      <4>2. f[d][n] # p
        BY <1>1, <2>1, <3>2, <4>1 DEF Lists
      <4>3. f[d][n] \in f[d][n] .. (f[d][n] + Room(f[d][n]) - 1)
        BY <4>1, Layout
      <4> QED
        BY <2>3, <4>1, <4>2, <4>3
    <3>3. ASSUME NEW d \in Allocators, NEW m \in 1 .. Len(g[d])
          PROVE  word'[g[d][m]] = Ptr(Elem(g[d], m + 1)) /\ MayHold(d, g[d][m])
      <4>1. CASE d = c /\ m = 1
        <5>1. Elem(g[c], 2) = Elem(f[c], 1)
          BY <2>1, <2>8
        <5>2. word'[p] = Ptr(head[c]) /\ head[c] = Elem(f[c], 1)
          BY <1>1, <2>1, <2>2, <2>4 DEF Lists, HeapInv, Held
        <5> QED
          BY <2>1, <2>6, <4>1, <5>1, <5>2
      <4>2. CASE m - off(d) \in 1 .. Len(f[d]) /\ g[d][m] = f[d][m - off(d)]
        <5> DEFINE n == m - off(d)
        <5>1. n \in 1 .. Len(f[d]) /\ g[d][m] = f[d][n] /\ n + 1 \in Nat \ {0}
              /\ (n + 1) + off(d) = m + 1
          BY <4>2
        <5>2. Elem(g[d], m + 1) = Elem(f[d], n + 1)
          <6>1. Elem(g[d], (n + 1) + off(d)) = Elem(f[d], n + 1)
            BY <2>8, <5>1
          <6> QED
            BY <5>1, <6>1
        <5> HIDE DEF n
        <5> QED
          BY <1>1, <3>2, <5>1, <5>2 DEF Lists
      <4> QED
        BY <2>7, <4>1, <4>2
    <3>4. ASSUME NEW d \in Allocators, NEW e \in Allocators, NEW i \in 1 .. Len(g[d]),
                 NEW j \in 1 .. Len(g[e]), g[d][i] = g[e][j]
          PROVE  d = e /\ i = j
      <4>1. CASE d = c /\ i = 1
        BY <2>6, <2>7, <3>2, <3>4, <4>1
      <4>2. CASE e = c /\ j = 1
        BY <2>6, <2>7, <3>2, <3>4, <4>2
      <4>3. CASE ~(d = c /\ i = 1) /\ ~(e = c /\ j = 1)
        <5>1. /\ i - off(d) \in 1 .. Len(f[d]) /\ j - off(e) \in 1 .. Len(f[e])
              /\ f[d][i - off(d)] = f[e][j - off(e)]
          BY <2>7, <3>4, <4>3
        <5>2. d = e /\ i - off(d) = j - off(e)
          <6> HIDE DEF off
          <6> QED
            BY <1>1, <5>1 DEF Lists
        <5> QED
          BY <5>2
      <4> QED
        BY <4>1, <4>2, <4>3
    <3>5. ASSUME NEW x \in Blocks
          PROVE  x \notin DOMAIN live' <=> \E d \in Allocators : \E n \in 1 .. Len(g[d]) : x = g[d][n]
      <4>1. ASSUME x \notin DOMAIN live'
            PROVE  \E d \in Allocators : \E n \in 1 .. Len(g[d]) : x = g[d][n]
        <5>1. CASE x = p
          BY <2>1, <2>6, <5>1
        <5>2. CASE x \notin DOMAIN live
          <6>1. PICK d \in Allocators : \E n \in 1 .. Len(f[d]) : x = f[d][n]
            BY <1>1, <5>2 DEF Lists
          <6>2. PICK n \in 1 .. Len(f[d]) : x = f[d][n]
            BY <6>1
          <6>3. n + off(d) \in 1 .. Len(g[d]) /\ g[d][n + off(d)] = f[d][n]
            BY <2>6
          <6> QED
            BY <6>2, <6>3
        <5> QED
          BY <1>3, <4>1, <5>1, <5>2
      <4>2. ASSUME NEW d \in Allocators, NEW m \in 1 .. Len(g[d]), x = g[d][m]
            PROVE  x \notin DOMAIN live'
        <5>1. CASE d = c /\ m = 1
          BY <1>3, <2>6, <4>2, <5>1
        <5>2. CASE m - off(d) \in 1 .. Len(f[d]) /\ g[d][m] = f[d][m - off(d)]
          <6>1. x \notin DOMAIN live
            <7> HIDE DEF off
            <7> QED
              BY <1>1, <4>2, <5>2 DEF Lists
          <6> QED
            BY <1>3, <6>1
        <5> QED
          BY <2>7, <5>1, <5>2
      <4> QED
        BY <4>1, <4>2
    <3>6. DOMAIN live' \subseteq Blocks
      BY <1>2, <1>3
    <3> QED
      BY <3>1, <3>3, <3>4, <3>5, <3>6 DEF Lists
  <2> QED
    BY <1>3, <2>5, <2>6, <2>9 DEF HeapInv
<1> QED
  BY <1>4, <1>5

(* The lists core_init_allocators builds have every block once. *)
LEMMA Built == Fresh => HeapInv /\ Untouched
<1> SUFFICES ASSUME Fresh PROVE HeapInv /\ Untouched
  OBVIOUS
<1>1. PICK memory : word = Chained(memory)
  BY DEF Fresh
<1>2. ASSUME NEW c \in Allocators, NEW k \in 0 .. (Buffers[c].blocks - 1)
      PROVE  /\ Block(c, k) \in BlocksOf(c) /\ Block(c, k) \in Blocks
             /\ \A i \in 0 .. (Buffers[c].blocks - 1) : Block(c, i) = Block(c, k) => i = k
             /\ word[Block(c, k)] = Ptr(IF k = 0 THEN NULL ELSE Block(c, k - 1))
  <2>1. Block(c, k) \in BlocksOf(c) /\ Block(c, k) \in Blocks
    BY DEF BlocksOf, Blocks
  <2>2. /\ Buffers[c].buf \in Nat \ {0} /\ Buffers[c].block_size \in Nat \ {0}
        /\ Buffers[c].blocks \in Nat \ {0}
    BY Layout
  <2>3. ASSUME NEW s \in Nat \ {0}, NEW x \in Nat, NEW y \in Nat, x * s = y * s PROVE x = y
    <3>1. (x - y) * s = 0
      BY <2>3
    <3>2. x > y => (x - y) * s >= s
      OBVIOUS
    <3>3. y > x => (y - x) * s >= s /\ (y - x) * s = 0
      BY <2>3
    <3> QED
      BY <3>1, <3>2, <3>3
  <2>4. \A x \in Nat : x * Buffers[c].block_size \in Nat
    BY <2>2
  <2>5. ASSUME NEW i \in 0 .. (Buffers[c].blocks - 1), Block(c, i) = Block(c, k) PROVE i = k
    <3>1. i * Buffers[c].block_size = k * Buffers[c].block_size
      BY <2>2, <2>4, <2>5 DEF Block
    <3>2. i \in Nat /\ k \in Nat
      BY <2>2
    <3> QED
      BY <2>2, <2>3, <3>1, <3>2, Zenon
  <2>6. Block(c, k) \in Words
    <3>1. Block(c, k) \in Block(c, k) .. (Block(c, k) + Room(Block(c, k)) - 1)
      BY <2>1, Layout
    <3> QED
      BY <2>1, <3>1, Layout
  <2>7. CASE k = 0
    <3>1. Block(c, k) = Buffers[c].buf
      BY <2>2, <2>7 DEF Block
    <3> QED
      BY <1>1, <2>1, <2>5, <2>6, <2>7, <3>1 DEF Chained
  <2>8. CASE k # 0
    <3>1. k * Buffers[c].block_size = (k - 1) * Buffers[c].block_size + Buffers[c].block_size
      BY <2>2
    <3>2. Block(c, k) - Buffers[c].block_size = Block(c, k - 1) /\ Block(c, k) # Buffers[c].buf
      BY <2>2, <2>4, <2>8, <3>1 DEF Block
    <3>3. ASSUME NEW d \in Allocators, Block(c, k) = Buffers[d].buf PROVE FALSE
      <4>1. Buffers[d].buf = Block(d, 0) /\ 0 \in 0 .. (Buffers[d].blocks - 1)
        BY Layout DEF Block
      <4>2. Block(c, k) \in BlocksOf(d)
        BY <3>3, <4>1 DEF BlocksOf
      <4>3. c = d
        BY <2>1, <4>2, Layout
      <4> QED
        BY <3>2, <3>3, <4>3
    <3>4. word[Block(c, k)] = Ptr(Block(c, k) - Room(Block(c, k)))
      BY <1>1, <2>1, <2>6, <3>3 DEF Chained
    <3> QED
      BY <2>1, <2>5, <2>8, <3>2, <3>4, Layout
  <2> QED
    BY <2>1, <2>5, <2>7, <2>8
<1> DEFINE f == [c \in Allocators |-> [n \in 1 .. Buffers[c].blocks |-> Block(c, Buffers[c].blocks - n)]]
<1>3. ASSUME NEW c \in Allocators
      PROVE  /\ Buffers[c].blocks \in Nat \ {0} /\ f[c] \in Seq(Blocks) /\ Len(f[c]) = Buffers[c].blocks
             /\ \A n \in 1 .. Len(f[c]) : /\ f[c][n] = Block(c, Buffers[c].blocks - n)
                                         /\ Buffers[c].blocks - n \in 0 .. (Buffers[c].blocks - 1)
  <2>1. Buffers[c].blocks \in Nat \ {0}
    BY Layout
  <2>2. \A n \in 1 .. Buffers[c].blocks : Buffers[c].blocks - n \in 0 .. (Buffers[c].blocks - 1)
    BY <2>1
  <2>3. f[c] \in [1 .. Buffers[c].blocks -> Blocks]
    BY <1>2, <2>2
  <2>4. f[c] \in Seq(Blocks) /\ Len(f[c]) = Buffers[c].blocks
    <3> HIDE DEF f
    <3> QED
      BY <2>1, <2>3
  <2> QED
    BY <2>1, <2>2, <2>4
<1> HIDE DEF f
<1>4. ASSUME NEW c \in Allocators PROVE head[c] = Elem(f[c], 1) /\ head[c] = f[c][1]
  BY <1>3 DEF Fresh, Heads, LastBlock, Elem
<1>5. ASSUME NEW c \in Allocators, NEW n \in 1 .. Len(f[c])
      PROVE  /\ word[f[c][n]] = Ptr(Elem(f[c], n + 1)) /\ MayHold(c, f[c][n])
             /\ f[c][n] \in BlocksOf(c)
  <2> DEFINE k == Buffers[c].blocks - n
  <2>1. /\ f[c][n] = Block(c, k) /\ k \in 0 .. (Buffers[c].blocks - 1)
        /\ k # 0 => n + 1 \in 1 .. Len(f[c]) /\ Buffers[c].blocks - (n + 1) = k - 1
        /\ k = 0 => n + 1 \notin 1 .. Len(f[c])
    <3>1. /\ Buffers[c].blocks \in Nat \ {0} /\ Len(f[c]) = Buffers[c].blocks
          /\ f[c][n] = Block(c, k)
      BY <1>3
    <3> QED
      BY <3>1
  <2>2. Elem(f[c], n + 1) = IF k = 0 THEN NULL ELSE Block(c, k - 1)
    BY <1>3, <2>1 DEF Elem
  <2> HIDE DEF k
  <2> QED
    BY <1>2, <2>1, <2>2 DEF MayHold
<1>6. ASSUME NEW c \in Allocators, NEW d \in Allocators, NEW i \in 1 .. Len(f[c]),
             NEW j \in 1 .. Len(f[d]), f[c][i] = f[d][j]
      PROVE  c = d /\ i = j
  <2>1. c = d
    <3>1. f[c][i] \in BlocksOf(c) /\ f[c][i] \in BlocksOf(d)
      BY <1>5, <1>6
    <3> QED
      BY <3>1, Layout
  <2>2. Buffers[c].blocks - i = Buffers[c].blocks - j
    BY <1>2, <1>3, <1>6, <2>1
  <2> QED
    BY <1>3, <2>1, <2>2
<1>7. ASSUME NEW b \in Blocks
      PROVE  \E c \in Allocators : \E n \in 1 .. Len(f[c]) : b = f[c][n]
  <2>1. PICK c \in Allocators : b \in BlocksOf(c)
    BY DEF Blocks
  <2>2. PICK k \in 0 .. (Buffers[c].blocks - 1) : b = Block(c, k)
    BY <2>1 DEF BlocksOf
  <2>3. Buffers[c].blocks - k \in 1 .. Len(f[c]) /\ Buffers[c].blocks - (Buffers[c].blocks - k) = k
    BY <1>3
  <2> QED
    BY <1>3, <2>2, <2>3
<1>8. DOMAIN live = {}
  BY DEF Fresh
<1>9. f \in [Allocators -> Seq(Blocks)]
  BY <1>3 DEF f
<1>10. HeapInv
  <2>1. Held
    BY <1>1, <1>8 DEF Fresh, Held, AllocationsArePrivate, Heads, Chained
  <2>2. Lists(f)
    BY <1>4, <1>5, <1>6, <1>7, <1>8 DEF Lists
  <2> QED
    BY <1>9, <2>1, <2>2 DEF HeapInv
<1>11. ASSUME NEW c \in Allocators
       PROVE  word[LastBlock(c)][2] = NULL <=> Buffers[c].blocks = 1
  <2>1. word[LastBlock(c)] = Ptr(Elem(f[c], 2)) /\ 1 \in 1 .. Len(f[c])
    BY <1>3, <1>5 DEF LastBlock
  <2>2. 2 \in 1 .. Len(f[c]) => f[c][2] \in Blocks /\ f[c][2] # NULL
    BY <1>3, Layout DEF NULL
  <2> QED
    BY <1>3, <2>1, <2>2 DEF Elem, Ptr
<1> QED
  BY <1>10, <1>11 DEF Untouched, Fresh

(* Walking a list by its pointers visits the blocks of the ghost list. *)
LEMMA Walked ==
  ASSUME NEW f \in [Allocators -> Seq(Blocks)], Lists(f), NEW c \in Allocators
  PROVE  /\ FreeBlocks(c) = {f[c][n] : n \in 1 .. Len(f[c])}
         /\ Nth(c)[Cardinality(FreeBlocks(c))] = NULL
<1> DEFINE s == f[c]
           Step(n, prev) == IF n = 0 THEN head[c] ELSE IF prev = NULL THEN NULL ELSE word[prev][2]
           g == [n \in Nat |-> Elem(s, n + 1)]
           h == Nth(c)
<1>1. /\ s \in Seq(Blocks) /\ Len(s) \in Nat
      /\ \A n \in 1 .. Len(s) : s[n] \in Blocks /\ s[n] # NULL
  <2>1. s \in Seq(Blocks)
    OBVIOUS
  <2> HIDE DEF s
  <2> QED
    BY <2>1, Layout DEF NULL
<1>2. ASSUME NEW n \in Nat PROVE g[n] = Step(n, g[n - 1])
  <2>1. CASE n = 0
    BY <2>1 DEF Lists
  <2>2. CASE n # 0
    <3>1. n - 1 \in Nat /\ (n - 1) + 1 = n
      BY <2>2
    <3>2. g[n - 1] = Elem(s, n) /\ g[n] = Elem(s, n + 1)
      BY <3>1
    <3>3. CASE n \in 1 .. Len(s)
      <4>1. Elem(s, n) = s[n] /\ s[n] # NULL /\ word[s[n]] = Ptr(Elem(s, n + 1))
        BY <1>1, <3>3 DEF Lists, Elem
      <4> QED
        <5>1. word[s[n]][2] = Elem(s, n + 1)
          BY <4>1 DEF Ptr
        <5> HIDE DEF g, s
        <5> QED
          BY <2>2, <3>2, <4>1, <5>1
    <3>4. CASE n \notin 1 .. Len(s)
      <4>1. Elem(s, n) = NULL /\ Elem(s, n + 1) = NULL
        BY <1>1, <2>2, <3>4 DEF Elem
      <4> HIDE DEF g, s
      <4> QED
        BY <2>2, <3>2, <4>1
    <3> QED
      BY <3>3, <3>4
  <2> QED
    BY <2>1, <2>2
<1>3. h = CHOOSE x : x = [n \in Nat |-> Step(n, x[n - 1])]
  BY DEF Nth
<1>4. h = [n \in Nat |-> Step(n, h[n - 1])]
  <2>1. g = [n \in Nat |-> Step(n, g[n - 1])]
    BY <1>2
  <2> HIDE DEF g, Step, h
  <2> QED
    BY <1>3, <2>1
<1> HIDE DEF h
<1>5. \A n \in Nat : h[n] = g[n]
  <2> DEFINE Bad == {n \in Nat : h[n] # g[n]}
             R == OpToRel(<, Nat)
  <2> SUFFICES ASSUME Bad # {} PROVE FALSE
    OBVIOUS
  <2>1. IsWellFoundedOn(R, Nat)
    BY NatLessThanWellFounded
  <2>2. PICK x \in Bad : \A y \in Bad : ~(<<y, x>> \in R)
    <3>1. Bad \subseteq Nat
      OBVIOUS
    <3> HIDE DEF R, Bad
    <3> QED
      BY <2>1, <3>1, WFMin, Zenon
  <2>3. x \in Nat /\ h[x] = Step(x, h[x - 1]) /\ g[x] = Step(x, g[x - 1])
    <3> HIDE DEF g, Step
    <3> QED
      BY <1>2, <1>4
  <2>4. CASE x = 0
    BY <2>2, <2>3, <2>4
  <2>5. CASE x # 0
    <3>1. x - 1 \in Nat /\ x - 1 < x
      BY <2>3, <2>5
    <3>2. <<x - 1, x>> \in R
      BY <2>3, <3>1, Zenon DEF OpToRel
    <3>3. h[x - 1] = g[x - 1]
      BY <2>2, <3>1, <3>2
    <3> HIDE DEF g, Step
    <3> QED
      BY <2>2, <2>3, <3>3
  <2> QED
    BY <2>4, <2>5
<1>6. IsFiniteSet(Blocks)
  <2>1. ASSUME NEW d \in Allocators PROVE IsFiniteSet(BlocksOf(d))
    <3>1. Buffers[d].blocks - 1 \in Int /\ 0 \in Int
      BY Layout
    <3>2. IsFiniteSet(0 .. (Buffers[d].blocks - 1))
      BY <3>1, FS_Interval
    <3>3. [k \in 0 .. (Buffers[d].blocks - 1) |-> Block(d, k)]
            \in Surjection(0 .. (Buffers[d].blocks - 1), BlocksOf(d))
      BY DEF BlocksOf, Surjection
    <3> QED
      BY <3>2, <3>3, FS_Surjection
  <2>2. IsFiniteSet(Allocators)
    <3>1. Allocators = 1 .. Len(Buffers) /\ Len(Buffers) \in Nat
      BY BuffersAreApart DEF Allocators
    <3> QED
      BY <3>1, FS_Interval
  <2>3. IsFiniteSet({BlocksOf(d) : d \in Allocators})
    <3>1. [d \in Allocators |-> BlocksOf(d)]
            \in Surjection(Allocators, {BlocksOf(d) : d \in Allocators})
      BY DEF Surjection
    <3> QED
      BY <2>2, <3>1, FS_Surjection
  <2> QED
    BY <2>1, <2>3, FS_UNION DEF Blocks
<1> DEFINE Listed == {s[n] : n \in 1 .. Len(s)}
<1>7. Listed \subseteq Blocks /\ IsFiniteSet(Listed) /\ Cardinality(Listed) = Len(s)
      /\ Len(s) <= Cardinality(Blocks) /\ Cardinality(Blocks) \in Nat
  <2>1. Listed \subseteq Blocks
    BY <1>1
  <2>2. Cardinality(1 .. Len(s)) = Len(s) /\ IsFiniteSet(1 .. Len(s))
    <3>1. 1 \in Int /\ Len(s) \in Int /\ Len(s) >= 0
      BY <1>1
    <3> DEFINE m == Len(s)
    <3>2. m \in Int /\ m >= 0
      BY <3>1
    <3> HIDE DEF m
    <3>3. IsFiniteSet(1 .. m) /\ Cardinality(1 .. m) = IF 1 > m THEN 0 ELSE m - 1 + 1
      BY <3>1, <3>2, FS_Interval
    <3>4. Cardinality(1 .. m) = m
      BY <3>2, <3>3
    <3> QED
      BY <3>3, <3>4 DEF m
  <2>3. s \in Bijection(1 .. Len(s), Listed)
    <3>1. s \in [1 .. Len(s) -> Listed]
      BY <1>1
    <3>2. \A i, j \in 1 .. Len(s) : s[i] = s[j] => i = j
      BY DEF Lists
    <3> QED
      BY <3>1, <3>2 DEF Bijection, Injection, Surjection, IsInjective
  <2>4. Cardinality(Listed) = Len(s) /\ IsFiniteSet(Listed)
    BY <2>2, <2>3, FS_Bijection DEF ExistsBijection
  <2>5. Cardinality(Listed) <= Cardinality(Blocks)
    BY <1>6, <2>1, FS_Subset
  <2> QED
    BY <1>6, <2>1, <2>4, <2>5, FS_CardinalityType
<1> HIDE DEF Listed
<1>10. \A n \in 0 .. Cardinality(Blocks) : n \in Nat
  BY <1>7
<1>11. \A n \in 1 .. Len(s) : n - 1 \in 0 .. Cardinality(Blocks) /\ n - 1 \in Nat /\ (n - 1) + 1 = n
  <2> DEFINE m == Len(s)
             M == Cardinality(Blocks)
  <2>1. m \in Nat /\ M \in Nat /\ m <= M
    BY <1>1, <1>7
  <2> HIDE DEF m, M
  <2>2. \A n \in 1 .. m : n - 1 \in 0 .. M /\ n - 1 \in Nat /\ (n - 1) + 1 = n
    BY <2>1
  <2> QED
    BY <2>2 DEF m, M
<1>8. FreeBlocks(c) = Listed
  <2>1. FreeBlocks(c) = {g[n] : n \in 0 .. Cardinality(Blocks)} \ {NULL}
    <3>1. FreeBlocks(c) = {h[n] : n \in 0 .. Cardinality(Blocks)} \ {NULL}
      BY DEF FreeBlocks, h
    <3>2. \A n \in 0 .. Cardinality(Blocks) : h[n] = g[n]
      BY <1>5, <1>10
    <3> HIDE DEF g
    <3> QED
      BY <3>1, <3>2
  <2>2. ASSUME NEW n \in 0 .. Cardinality(Blocks), g[n] # NULL PROVE g[n] \in Listed
    <3>1. n \in Nat /\ g[n] = Elem(s, n + 1)
      BY <1>10, <2>2
    <3>2. n + 1 \in 1 .. Len(s) /\ g[n] = s[n + 1]
      BY <2>2, <3>1 DEF Elem
    <3> QED
      BY <3>2 DEF Listed
  <2>3. ASSUME NEW n \in 1 .. Len(s)
        PROVE  n - 1 \in 0 .. Cardinality(Blocks) /\ s[n] = g[n - 1] /\ s[n] # NULL
    <3>1. n - 1 \in 0 .. Cardinality(Blocks) /\ n - 1 \in Nat /\ (n - 1) + 1 = n
      BY <1>11
    <3>2. g[n - 1] = Elem(s, n)
      BY <3>1
    <3> QED
      BY <1>1, <2>3, <3>1, <3>2 DEF Elem
  <2> HIDE DEF g
  <2> QED
    BY <2>1, <2>2, <2>3 DEF Listed
<1>9. h[Cardinality(FreeBlocks(c))] = NULL
  <2>1. h[Len(s)] = Elem(s, Len(s) + 1)
    BY <1>1, <1>5
  <2>2. Elem(s, Len(s) + 1) = NULL
    BY <1>1 DEF Elem
  <2> QED
    BY <1>7, <1>8, <2>1, <2>2
<1> QED
  BY <1>8, <1>9 DEF h, Listed

-------------------------------------------------------------------------------
(* Every call of every client, in every run, keeps the heap whole, because  *)
(* nobody frees what it does not hold.                                      *)
LEMMA Invariant == HeapSpec => []IInv
<1>1. HeapInit => IInv
  <2> SUFFICES ASSUME HeapInit PROVE IInv
    OBVIOUS
  <2>1. Fresh
    BY DEF HeapInit, Init, Fresh
  <2>2. HeapInv /\ Untouched
    BY <2>1, Built
  <2> QED
    BY <2>2 DEF HeapInit, IInv, Steps, Parts, Holdings, Repeatable
<1>2. Fresh' => HeapInv' /\ Untouched'
  BY Built, PTL
<1>3. ASSUME HeapInv, NEW size \in Nat \ {0},
             \/ core_malloc(size) \/ core_calloc(size)
             \/ size = 1 /\ uacpi_kernel_pci_device_open
      PROVE  /\ HeapInv'
             /\ Found(size) \in Blocks \ DOMAIN live /\ Found(size) # NULL
             /\ DOMAIN live' = DOMAIN live \cup {Found(size)}
  <2> DEFINE T == Found(size) .. (Found(size) + size - 1)
  <2>1. Pop(size) /\ Found(size) # NULL
    BY <1>3 DEF core_malloc, core_calloc, uacpi_kernel_pci_device_open, Pop
  <2>2. DOMAIN word = Words
    BY <1>3 DEF HeapInv, Held
  <2>3. /\ DOMAIN word' = Words /\ \A a \in Words \ T : word'[a] = word[a]
        /\ \/ used' = used
           \/ used' = used \cup {Found(size)} /\ \A a \in T : word'[a] = Data(Found(size))
    <3>1. CASE core_malloc(size)
      BY <2>2, <3>1 DEF core_malloc
    <3>2. CASE core_calloc(size)
      BY <2>2, <3>2 DEF core_calloc
    <3>3. CASE size = 1 /\ uacpi_kernel_pci_device_open
      <4>1. Found(1) \in Nat /\ Found(1) \in Words
        <5>1. find_allocator_for_size(1) \in Allocators
          BY <2>1, <3>3, Selected DEF Found
        <5>2. PICK f \in [Allocators -> Seq(Blocks)] : Lists(f)
          BY <1>3 DEF HeapInv
        <5>3. f[find_allocator_for_size(1)] \in Seq(Blocks)
          BY <5>1
        <5>4. Found(1) = Elem(f[find_allocator_for_size(1)], 1)
          BY <5>1, <5>2, Selected DEF Found, Lists
        <5>5. Found(1) \in Blocks
          BY <2>1, <3>3, <5>3, <5>4 DEF Elem
        <5>6. Found(1) \in Found(1) .. (Found(1) + Room(Found(1)) - 1)
          BY <5>5, Layout
        <5> QED
          BY <5>5, <5>6, Layout
      <4>2. T = {Found(1)}
        BY <3>3, <4>1
      <4> QED
        BY <2>2, <3>3, <4>1, <4>2 DEF uacpi_kernel_pci_device_open
    <3> QED
      BY <1>3, <3>1, <3>2, <3>3
  <2> HIDE DEF T
  <2> QED
    BY <1>3, <2>1, <2>3, Take DEF T
<1>4. ASSUME IInv, [HeapNext]_heapVars PROVE IInv'
  <2> USE <1>4 DEF IInv
  <2>1. After("acpi_destroy") = "core_init_allocators"
        /\ After("core_init_allocators") = "init_virtio_blk_queue" /\ CoreMain[1] = "acpi_destroy"
    <3>1. /\ CoreMain[1] = "acpi_destroy" /\ CoreMain[2] = "core_init_allocators"
          /\ CoreMain[3] = "init_virtio_blk_queue"
      BY DEF CoreMain
    <3>2. \A n \in 1 .. 3 : n > 1 /\ CoreMain[n - 1] = "acpi_destroy" <=> n = 2
      BY <3>1
    <3>3. \A n \in 1 .. 3 : n > 1 /\ CoreMain[n - 1] = "core_init_allocators" <=> n = 3
      BY <3>1
    <3>4. After("acpi_destroy") = CoreMain[2]
      BY <3>2 DEF After
    <3>5. After("core_init_allocators") = CoreMain[3]
      BY <3>3 DEF After
    <3> QED
      BY <3>1, <3>4, <3>5
  <2>2. \A n \in Parts : part[n] \in Nat \ {0}
    BY SizesAreSizes DEF Parts
  <2>3. NULL \notin DOMAIN live /\ DOMAIN live \subseteq Blocks
    BY Layout DEF HeapInv, Lists, NULL
  <2>4. ASSUME UNCHANGED heap PROVE HeapInv'
    <3>1. PICK f \in [Allocators -> Seq(Blocks)] : Lists(f)
      BY DEF HeapInv
    <3>2. Lists(f)' /\ Held'
      BY <2>4, <3>1 DEF Lists, Held, HeapInv, AllocationsArePrivate, heap
    <3> QED
      BY <3>2 DEF HeapInv
  <2>5. ASSUME UNCHANGED part PROVE UNCHANGED <<DescFits, AvailFits>>
    BY <2>5 DEF DescFits, AvailFits
  <2>6. CASE UNCHANGED heapVars
    <3>1. UNCHANGED <<heap, head, word, live, step, part, queue, request, uacpi>>
      BY <2>6 DEF heapVars, heap
    <3> QED
      BY <2>4, <2>5, <3>1 DEF Holdings, Mine, Repeatable, Untouched
  <2>7. CASE acpi_destroy
    <3>1. CASE UNCHANGED heap /\ uacpi = {} /\ step' = After(step) /\ UNCHANGED uacpi
      <4>1. /\ step' = "core_init_allocators"
            /\ UNCHANGED <<heap, live, part, queue, request, uacpi>> /\ step = "acpi_destroy"
        BY <2>1, <2>7, <3>1 DEF acpi_destroy, heap
      <4> QED
        BY <2>4, <2>5, <3>1, <4>1 DEF Steps, Holdings, Repeatable
    <3>2. ASSUME NEW p \in uacpi, core_free(p), uacpi' = uacpi \ {p}, UNCHANGED step PROVE IInv'
      <4>1. step = "acpi_destroy" /\ UNCHANGED <<step, part, queue, request>>
        BY <2>7, <3>2 DEF acpi_destroy
      <4>2. HeapInv' /\ DOMAIN live' = DOMAIN live \ {p}
        BY <3>2, Give DEF Holdings
      <4> QED
        BY <2>5, <3>2, <4>1, <4>2 DEF Steps, Holdings, Repeatable
    <3> QED
      BY <2>7, <3>1, <3>2 DEF acpi_destroy
  <2>8. CASE init_allocators
    <3>1. Fresh'
      BY <2>8 DEF init_allocators, core_init_allocators, Fresh
    <3>2. HeapInv' /\ Untouched'
      BY <1>2, <3>1
    <3>3. /\ step = "core_init_allocators" /\ step' = "init_virtio_blk_queue"
          /\ UNCHANGED <<part, queue, request, uacpi>>
      BY <2>1, <2>8 DEF init_allocators
    <3> QED
      BY <2>5, <3>2, <3>3 DEF Steps, Holdings, Repeatable
  <2>9. ASSUME NEW from \in {"init_virtio_blk_queue", "avail", "used"}, NEW name \in Parts, NEW to,
               CallocPart(from, name, to), Found(part[name]) # NULL
        PROVE  /\ HeapInv' /\ step = from /\ step' = to
               /\ queue' = [queue EXCEPT ![name] = Found(part[name])]
               /\ DOMAIN queue' = Parts /\ queue'[name] = Found(part[name])
               /\ Found(part[name]) \in Blocks \ DOMAIN live
               /\ DOMAIN live' = DOMAIN live \cup {Found(part[name])}
               /\ Pop(part[name]) /\ UNCHANGED <<part, request, uacpi>>
    <3>1. part[name] \in Nat \ {0} /\ core_calloc(part[name]) /\ step' = to
      BY <2>2, <2>9 DEF CallocPart
    <3> QED
      BY <1>3, <2>9, <3>1 DEF CallocPart, core_calloc
  <2>10. ASSUME NEW from \in {"init_virtio_blk_queue", "avail", "used"}, NEW name \in Parts, NEW to,
                CallocPart(from, name, to), Found(part[name]) = NULL
         PROVE  /\ HeapInv' /\ step = from /\ step' = "free desc" /\ UNCHANGED <<live, head, word>>
                /\ queue' = [queue EXCEPT ![name] = NULL]
                /\ DOMAIN queue' = Parts /\ queue'[name] = NULL
                /\ UNCHANGED <<part, request, uacpi>>
    <3>1. UNCHANGED heap /\ step' = "free desc"
      BY <2>10 DEF CallocPart, core_calloc, Pop
    <3> QED
      BY <2>4, <2>10, <3>1 DEF CallocPart, heap
  <2>11. CASE CallocPart("init_virtio_blk_queue", "desc", "avail")
    <3> DEFINE c == find_allocator_for_size(part["desc"])
    <3>1. step = "init_virtio_blk_queue" /\ Untouched
      BY <2>11 DEF CallocPart, Repeatable
    <3>2. \A d \in Allocators : head[d] = LastBlock(d) /\ head[d] # NULL
      <4>1. ASSUME NEW d \in Allocators PROVE LastBlock(d) # NULL
        <5>1. Buffers[d].blocks - 1 \in 0 .. (Buffers[d].blocks - 1)
          BY Layout
        <5> QED
          BY <5>1, Layout DEF LastBlock, BlocksOf, NULL
      <4> QED
        BY <3>1, <4>1 DEF Untouched, Heads
    <3>3. CASE Found(part["desc"]) # NULL
      <4>1. /\ HeapInv' /\ step' = "avail"
            /\ queue' = [queue EXCEPT !["desc"] = Found(part["desc"])]
            /\ DOMAIN queue' = Parts /\ queue'["desc"] = Found(part["desc"])
            /\ Found(part["desc"]) \in Blocks \ DOMAIN live
            /\ DOMAIN live' = DOMAIN live \cup {Found(part["desc"])}
            /\ Pop(part["desc"]) /\ UNCHANGED <<part, request, uacpi>>
        BY <2>9, <2>11, <3>3 DEF Parts
      <4>2. c \in Allocators /\ DescFits
        BY <2>2, <3>3, Selected DEF Found, DescFits, Parts
      <4>3. head' = [head EXCEPT ![c] = word[LastBlock(c)][2]]
        BY <3>2, <4>1, <4>2, Selected DEF Pop, Found
      <4>4. \A d \in Allocators : head'[d] = NULL <=> d = c /\ Buffers[d].blocks = 1
        BY <3>1, <3>2, <4>2, <4>3 DEF Untouched, HeapInv, Held
      <4>5. queue'["avail"] = queue["avail"] /\ queue'["used"] = queue["used"]
        BY <4>1 DEF Parts
      <4>6. Repeatable'
        BY <2>5, <4>1, <4>2, <4>4, <4>5 DEF Repeatable
      <4>7. Holdings'
        BY <3>1, <4>1 DEF Holdings, Mine
      <4> QED
        BY <4>1, <4>6, <4>7 DEF Steps
    <3>4. CASE Found(part["desc"]) = NULL
      <4>1. /\ HeapInv' /\ step' = "free desc" /\ UNCHANGED <<live, head, word>>
            /\ queue' = [queue EXCEPT !["desc"] = NULL]
            /\ DOMAIN queue' = Parts /\ queue'["desc"] = NULL
            /\ UNCHANGED <<part, request, uacpi>>
        BY <2>10, <2>11, <3>4 DEF Parts
      <4>2. ~DescFits
        BY <2>2, <3>2, <3>4, Selected DEF Found, DescFits, Parts
      <4>3. \A n \in Parts : queue'[n] = NULL
        BY <4>1, <4>2 DEF Parts, Repeatable
      <4>4. Repeatable'
        BY <4>1, <4>3 DEF Repeatable, Parts
      <4>5. Holdings'
        BY <3>1, <4>1, <4>3 DEF Holdings, Mine
      <4> QED
        BY <4>1, <4>4, <4>5 DEF Steps
    <3> QED
      BY <3>3, <3>4
  <2>12. CASE CallocPart("avail", "avail", "used")
    <3> DEFINE c == find_allocator_for_size(part["desc"])
               d == find_allocator_for_size(part["avail"])
    <3>1. /\ step = "avail" /\ DescFits /\ Mine({"desc"})
          /\ \A e \in Allocators : head[e] = NULL <=> e = c /\ Buffers[e].blocks = 1
      BY <2>12 DEF CallocPart, Repeatable, Holdings
    <3>2. d = NULL \/ d \in Allocators
      BY <2>2, Selected DEF Parts
    <3>3. Found(part["avail"]) # NULL <=> AvailFits
      BY <3>1, <3>2, Selected DEF Found, AvailFits
    <3>4. CASE Found(part["avail"]) # NULL
      <4>1. /\ HeapInv' /\ step' = "used"
            /\ queue' = [queue EXCEPT !["avail"] = Found(part["avail"])]
            /\ DOMAIN queue' = Parts /\ queue'["avail"] = Found(part["avail"])
            /\ Found(part["avail"]) \in Blocks \ DOMAIN live
            /\ DOMAIN live' = DOMAIN live \cup {Found(part["avail"])}
            /\ UNCHANGED <<part, request, uacpi>>
        BY <2>9, <2>12, <3>4 DEF Parts
      <4>2. queue'["desc"] = queue["desc"] /\ queue'["used"] = queue["used"]
        BY <4>1 DEF Parts
      <4>3. Repeatable'
        BY <2>5, <3>1, <3>3, <3>4, <4>1, <4>2 DEF Repeatable
      <4>4. Holdings'
        BY <3>1, <4>1, <4>2 DEF Holdings, Mine
      <4> QED
        BY <4>1, <4>3, <4>4 DEF Steps
    <3>5. CASE Found(part["avail"]) = NULL
      <4>1. /\ HeapInv' /\ step' = "free desc" /\ UNCHANGED <<live, head, word>>
            /\ queue' = [queue EXCEPT !["avail"] = NULL]
            /\ DOMAIN queue' = Parts /\ queue'["avail"] = NULL
            /\ UNCHANGED <<part, request, uacpi>>
        BY <2>10, <2>12, <3>5 DEF Parts
      <4>2. queue'["desc"] = queue["desc"] /\ queue'["used"] = NULL
        BY <3>3, <3>5, <4>1 DEF Parts, Repeatable
      <4>3. Repeatable'
        BY <4>1, <4>2 DEF Repeatable
      <4>4. Holdings'
        BY <3>1, <4>1, <4>2 DEF Holdings, Mine, Parts
      <4> QED
        BY <4>1, <4>3, <4>4 DEF Steps
    <3> QED
      BY <3>4, <3>5
  <2>13. CASE CallocPart("used", "used", "configured")
    <3>1. step = "used" /\ DescFits /\ AvailFits /\ Mine({"desc", "avail"})
      BY <2>13 DEF CallocPart, Repeatable, Holdings
    <3>2. CASE Found(part["used"]) # NULL
      <4>1. /\ HeapInv' /\ step' = "configured"
            /\ queue' = [queue EXCEPT !["used"] = Found(part["used"])]
            /\ DOMAIN queue' = Parts /\ queue'["used"] = Found(part["used"])
            /\ Found(part["used"]) \in Blocks \ DOMAIN live
            /\ DOMAIN live' = DOMAIN live \cup {Found(part["used"])}
            /\ UNCHANGED <<part, request, uacpi>>
        BY <2>9, <2>13, <3>2 DEF Parts
      <4>2. queue'["desc"] = queue["desc"] /\ queue'["avail"] = queue["avail"]
        BY <4>1 DEF Parts
      <4>3. Repeatable'
        BY <2>5, <3>1, <4>1 DEF Repeatable
      <4>4. Holdings'
        BY <3>1, <4>1, <4>2 DEF Holdings, Mine, Parts
      <4> QED
        BY <4>1, <4>3, <4>4 DEF Steps
    <3>3. CASE Found(part["used"]) = NULL
      <4>1. /\ HeapInv' /\ step' = "free desc" /\ UNCHANGED <<live, head, word>>
            /\ queue' = [queue EXCEPT !["used"] = NULL]
            /\ DOMAIN queue' = Parts /\ queue'["used"] = NULL
            /\ UNCHANGED <<part, request, uacpi>>
        BY <2>10, <2>13, <3>3 DEF Parts
      <4>2. queue'["desc"] = queue["desc"] /\ queue'["avail"] = queue["avail"]
        BY <4>1 DEF Parts
      <4>3. Repeatable'
        BY <2>5, <3>1, <4>1 DEF Repeatable
      <4>4. Holdings'
        BY <3>1, <4>1, <4>2 DEF Holdings, Mine, Parts
      <4> QED
        BY <4>1, <4>3, <4>4 DEF Steps
    <3> QED
      BY <3>2, <3>3
  <2>14. ASSUME NEW from \in {"free desc", "free avail", "free used"}, NEW name \in Parts, NEW to,
                FreePart(from, name, to), queue[name] \in DOMAIN live \cup {NULL}
         PROVE  /\ HeapInv' /\ step = from /\ step' = to /\ UNCHANGED <<part, queue, request, uacpi>>
                /\ DOMAIN live' = DOMAIN live \ {queue[name]}
    BY <2>14, Give DEF FreePart
  <2>15. CASE FreePart("free desc", "desc", "free avail")
    <3>1. step = "free desc" /\ Mine(Parts)
      BY <2>15 DEF FreePart, Holdings
    <3>2. /\ HeapInv' /\ step' = "free avail" /\ UNCHANGED <<part, queue, request, uacpi>>
          /\ DOMAIN live' = DOMAIN live \ {queue["desc"]}
      BY <2>14, <2>15, <3>1 DEF Mine, Parts
    <3>3. Repeatable'
      BY <2>5, <3>2 DEF Repeatable
    <3>4. Holdings'
      BY <3>1, <3>2 DEF Holdings, Mine, Parts
    <3> QED
      BY <3>2, <3>3, <3>4 DEF Steps
  <2>16. CASE FreePart("free avail", "avail", "free used")
    <3>1. step = "free avail" /\ Mine({"avail", "used"})
      BY <2>16 DEF FreePart, Holdings
    <3>2. /\ HeapInv' /\ step' = "free used" /\ UNCHANGED <<part, queue, request, uacpi>>
          /\ DOMAIN live' = DOMAIN live \ {queue["avail"]}
      BY <2>14, <2>16, <3>1 DEF Mine, Parts
    <3>3. Repeatable'
      BY <2>5, <3>2 DEF Repeatable
    <3>4. Holdings'
      BY <3>1, <3>2 DEF Holdings, Mine
    <3> QED
      BY <3>2, <3>3, <3>4 DEF Steps
  <2>17. CASE FreePart("free used", "used", "acpi_setup")
    <3>1. step = "free used" /\ Mine({"used"})
      BY <2>17 DEF FreePart, Holdings
    <3>2. /\ HeapInv' /\ step' = "acpi_setup" /\ UNCHANGED <<part, queue, request, uacpi>>
          /\ DOMAIN live' = DOMAIN live \ {queue["used"]}
      BY <2>14, <2>17, <3>1 DEF Mine, Parts
    <3>3. Repeatable'
      BY <2>5, <3>2 DEF Repeatable
    <3>4. Holdings'
      BY <3>1, <3>2 DEF Holdings
    <3> QED
      BY <3>2, <3>3, <3>4 DEF Steps
  <2>18. CASE UseQueue
    <3>1. step = "configured" /\ UNCHANGED <<part, queue, request, uacpi>>
      BY <2>18 DEF UseQueue
    <3>2. HeapInv' /\ live' = live /\ step' \in {"configured", "disk", "free desc"}
      BY <2>4, <2>18, <3>1, Fill DEF UseQueue, heap
    <3> QED
      BY <2>5, <3>1, <3>2 DEF Steps, Holdings, Mine, Repeatable
  <2>19. CASE request_virtio_blk
    <3>1. step = "disk" /\ UNCHANGED <<step, part, queue, uacpi>>
      BY <2>19 DEF request_virtio_blk
    <3>2. HeapInv' /\ (request' # NULL => request' \in DOMAIN live')
      <4>1. CASE request = NULL /\ core_calloc(HeaderSize) /\ request' = Found(HeaderSize)
        BY <1>3, <4>1, SizesAreSizes
      <4>2. CASE request # NULL /\ Write(request) /\ UNCHANGED request
        BY <4>2, Fill DEF Holdings
      <4>3. CASE request # NULL /\ core_free(request) /\ request' = NULL
        BY <4>3, Give DEF Holdings
      <4> QED
        BY <2>19, <4>1, <4>2, <4>3 DEF request_virtio_blk
    <3> QED
      BY <2>5, <3>1, <3>2 DEF Steps, Holdings, Repeatable
  <2>20. CASE DiskDone
    <3>1. /\ step' = "acpi_setup" /\ request = NULL
          /\ UNCHANGED <<heap, live, part, queue, request, uacpi>>
      BY <2>20 DEF DiskDone, Holdings, heap
    <3> QED
      BY <2>4, <2>5, <3>1 DEF Steps, Holdings, Repeatable
  <2>21. CASE acpi_setup
    <3>1. step = "acpi_setup" /\ UNCHANGED <<step, part, queue, request>>
      BY <2>21 DEF acpi_setup
    <3>2. HeapInv' /\ uacpi' \subseteq DOMAIN live'
      <4>1. ASSUME NEW size \in UacpiSizes, core_malloc(size) \/ core_calloc(size), UacpiGets(size)
            PROVE  HeapInv' /\ uacpi' \subseteq DOMAIN live'
        <5>1. size \in Nat \ {0}
          BY SizesAreSizes
        <5>2. HeapInv' /\ DOMAIN live' = DOMAIN live \cup {Found(size)}
          BY <1>3, <4>1, <5>1
        <5> QED
          BY <4>1, <5>2 DEF UacpiGets, Holdings
      <4>2. ASSUME core_malloc(1) \/ uacpi_kernel_pci_device_open, UacpiGets(1)
            PROVE  HeapInv' /\ uacpi' \subseteq DOMAIN live'
        <5>1. HeapInv' /\ DOMAIN live' = DOMAIN live \cup {Found(1)}
          BY <1>3, <4>2
        <5> QED
          BY <4>2, <5>1 DEF UacpiGets, Holdings
      <4>3. ASSUME NEW p \in uacpi, core_free(p), uacpi' = uacpi \ {p}
            PROVE  HeapInv' /\ uacpi' \subseteq DOMAIN live'
        <5>1. HeapInv' /\ DOMAIN live' = DOMAIN live \ {p}
          BY <4>3, Give DEF Holdings
        <5> QED
          BY <4>3, <5>1 DEF Holdings
      <4>4. ASSUME NEW p \in uacpi, Write(p), UNCHANGED uacpi
            PROVE  HeapInv' /\ uacpi' \subseteq DOMAIN live'
        BY <4>4, Fill DEF Holdings
      <4> QED
        BY <2>21, <4>1, <4>2, <4>3, <4>4
           DEF acpi_setup, Create, Release, uacpi_kernel_alloc, uacpi_kernel_calloc,
               uacpi_kernel_free, uacpi_kernel_create_mutex, uacpi_kernel_create_event,
               uacpi_kernel_create_spinlock, uacpi_kernel_free_mutex, uacpi_kernel_free_event,
               uacpi_kernel_free_spinlock, uacpi_kernel_pci_device_close
    <3> QED
      BY <2>5, <3>1, <3>2 DEF Steps, Holdings, Repeatable
  <2>22. CASE acpi_return_kernel
    <3>1. /\ step = "acpi_setup" /\ step' = "acpi_destroy"
          /\ UNCHANGED <<heap, live, part, queue, request, uacpi>>
      BY <2>1, <2>22 DEF acpi_return_kernel, heap
    <3> QED
      BY <2>4, <2>5, <3>1 DEF Steps, Holdings, Repeatable
  <2> QED
    BY <2>6, <2>7, <2>8, <2>11, <2>12, <2>13, <2>15, <2>16, <2>17, <2>18, <2>19, <2>20, <2>21, <2>22
       DEF HeapNext, init_virtio_blk_queue
<1> QED
  BY <1>1, <1>4, PTL DEF HeapSpec

(* Whatever core_malloc, core_calloc and core_free are asked for, in any    *)
(* number of runs, each block is once in one free list or with one client.  *)
THEOREM BlocksAreConserved == HeapSpec => []BlocksConserved
<1>1. ASSUME IInv PROVE BlocksConserved
  <2>1. PICK f \in [Allocators -> Seq(Blocks)] : Lists(f)
    BY <1>1 DEF IInv, HeapInv
  <2>2. ASSUME NEW c \in Allocators
        PROVE  /\ FreeBlocks(c) = {f[c][n] : n \in 1 .. Len(f[c])}
               /\ Nth(c)[Cardinality(FreeBlocks(c))] = NULL
    BY <2>1, Walked
  <2>3. \A c, d \in Allocators : c # d => FreeBlocks(c) \cap FreeBlocks(d) = {}
    <3> SUFFICES ASSUME NEW c \in Allocators, NEW d \in Allocators, c # d
                 PROVE  FreeBlocks(c) \cap FreeBlocks(d) = {}
      OBVIOUS
    <3>1. /\ FreeBlocks(c) = {f[c][n] : n \in 1 .. Len(f[c])}
          /\ FreeBlocks(d) = {f[d][n] : n \in 1 .. Len(f[d])}
      BY <2>2
    <3> QED
      BY <2>1, <3>1 DEF Lists
  <2>4. DOMAIN live = Blocks \ UNION {FreeBlocks(c) : c \in Allocators}
    <3>1. ASSUME NEW b
          PROVE  b \in UNION {FreeBlocks(c) : c \in Allocators} <=>
                   \E c \in Allocators : \E n \in 1 .. Len(f[c]) : b = f[c][n]
      BY <2>2
    <3>2. \A b \in Blocks : b \notin DOMAIN live <=>
            \E c \in Allocators : \E n \in 1 .. Len(f[c]) : b = f[c][n]
      BY <2>1 DEF Lists
    <3>3. DOMAIN live \subseteq Blocks
      BY <2>1 DEF Lists
    <3> QED
      BY <3>1, <3>2, <3>3
  <2> QED
    BY <2>2, <2>3, <2>4 DEF BlocksConserved
<1> QED
  BY <1>1, Invariant, PTL

(* No client's data is overwritten by an allocator, by its lists or by      *)
(* another client, and each allocation has the room it asked for.           *)
THEOREM AllocationsStayPrivate == HeapSpec => []AllocationsArePrivate
<1>1. IInv => AllocationsArePrivate
  BY DEF IInv, HeapInv, Held
<1> QED
  BY <1>1, Invariant, PTL

(* core_malloc returns NULL only when the blocks of the size are taken, or  *)
(* core_free has given the first of them to the size before.                *)
THEOREM FailuresAreHonest == HeapSpec => []FailsOnlyWhenTaken
<1>1. ASSUME IInv PROVE FailsOnlyWhenTaken
  <2> SUFFICES ASSUME NEW c \in Allocators, head[c] = NULL, NEW b \in BlocksOf(c) \ DOMAIN live
               PROVE  /\ b = Buffers[c].buf
                      /\ \E d \in 1 .. (c - 1) : Buffers[d].buf + buf_size(d) = b
    BY DEF FailsOnlyWhenTaken
  <2>1. PICK f \in [Allocators -> Seq(Blocks)] : Lists(f)
    BY <1>1 DEF IInv, HeapInv
  <2>2. b \in Blocks
    BY Layout
  <2>3. PICK d \in Allocators : \E n \in 1 .. Len(f[d]) : b = f[d][n]
    BY <2>1, <2>2 DEF Lists
  <2>4. PICK n \in 1 .. Len(f[d]) : b = f[d][n]
    BY <2>3
  <2>5. d # c
    <3> SUFFICES ASSUME d = c PROVE FALSE
      OBVIOUS
    <3>1. f[c] \in Seq(Blocks) /\ Len(f[c]) \in Nat
      BY <2>1
    <3>2. 1 \in 1 .. Len(f[c]) /\ f[c][1] \in Blocks
      BY <2>4, <3>1
    <3> QED
      BY <2>1, <3>2, Layout DEF Lists, Elem, NULL
  <2>6. MayHold(d, b) /\ b \notin BlocksOf(d)
    BY <2>1, <2>4, <2>5, Layout DEF Lists
  <2>7. PICK e \in Allocators : b = End(d) /\ d < e /\ b = Buffers[e].buf
    BY <2>6 DEF MayHold
  <2>8. e = c
    <3>1. b = Block(e, 0) /\ 0 \in 0 .. (Buffers[e].blocks - 1)
      <4>1. /\ Buffers[e].buf \in Nat /\ Buffers[e].block_size \in Nat
            /\ Buffers[e].blocks \in Nat \ {0}
        BY Layout
      <4> QED
        BY <2>7, <4>1 DEF Block
    <3>2. b \in BlocksOf(e)
      BY <3>1 DEF BlocksOf
    <3> QED
      BY <3>2, Layout
  <2> QED
    <3>1. c \in Nat /\ d \in Nat \ {0}
      BY Layout
    <3>2. d \in 1 .. (c - 1)
      BY <2>7, <2>8, <3>1
    <3> QED
      BY <2>7, <2>8, <3>2 DEF End
<1> QED
  BY <1>1, Invariant, PTL
===============================================================================
