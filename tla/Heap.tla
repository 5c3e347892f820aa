-------------------------------- MODULE Heap --------------------------------
(***************************************************************************)
(* The kernel heap (alloc.c), the object allocator of the managed runtime  *)
(* (gc.c), which is built the same way, and the small stacks of the cores  *)
(* (stack.c).  A critical section of a region's lock is one step; the      *)
(* steps of mem_realloc and of small_stack_alloc interleave with others.   *)
(*                                                                         *)
(* Sizes are scaled down.  A pointer is 0 (NULL) or an address.  Memory is *)
(* kept byte by byte: an owner writes its name into every byte it asked    *)
(* for, and mem_free writes its link over the first bytes of a block.      *)
(***************************************************************************)
EXTENDS Powers, Sequences, FiniteSets, FiniteSetsExt

CONSTANTS
    Callers,      \* the threads that use the heap
    MinShift,     \* per heap: log2 of the smallest block (3 and 5)
    OrderCount,   \* per heap: the number of regions (24 and 27)
    IntBits,      \* the width of the int that 1 is shifted in (32)
    RegionBytes,  \* the size of a region (512 GB)
    HeapBase,     \* per heap: the address of its first region
    AllocSizes,   \* the sizes callers ask for
    MaxBlocks,    \* how many blocks a caller keeps at a time
    StackBytes    \* the size of a small stack (32 KB)

Heaps == {"mem", "gc"}
OrdersOf(h) == 0 .. OrderCount[h] - 1
HeapRegions == UNION {{h} \X OrdersOf(h) : h \in Heaps}

HeapTop(h) == HeapBase[h] + OrderCount[h] * RegionBytes

(* A size_t has twice the bits of an int; a region is a multiple of the    *)
(* blocks it is cut into, and the two heaps lie apart.                     *)
ASSUME HeapAssumption ==
    /\ 0 \notin Callers /\ MaxBlocks \in Nat
    /\ IntBits \in Nat \ {0} /\ RegionBytes \in Nat \ {0} /\ StackBytes \in Nat \ {0}
    /\ AllocSizes \subseteq 0 .. Pow2[2 * IntBits] - 1
    /\ MinShift \in [Heaps -> Nat] /\ HeapBase \in [Heaps -> Nat \ {0}]
    /\ OrderCount \in [Heaps -> 1 .. IntBits]
    /\ \A h \in Heaps : MinShift[h] + OrderCount[h] <= IntBits
    /\ \A h \in Heaps : RegionBytes % Pow2[MinShift[h] + OrderCount[h] - 1] = 0
    /\ HeapTop("mem") <= HeapBase["gc"] \/ HeapTop("gc") <= HeapBase["mem"]

VARIABLES
    freelist,         \* per heap and order: the freed blocks
    watermark,        \* per heap and order: the first address never handed out
    blocks,           \* what callers keep: [heap, ptr, size, owner, var], where
                      \* var is the owner's variable that holds the pointer
    content,          \* every byte of the heaps: the name of a caller, or 0
    m_small_stack_watermark,
    stacks,           \* the bottoms of the small stacks, by caller
    call              \* per caller: [at, old, new, size] of the call under way

heapVars == <<freelist, watermark, blocks, content, m_small_stack_watermark, stacks, call>>
regionVars == <<freelist, watermark>>
stackVars == <<m_small_stack_watermark, stacks>>

NoCall == [at |-> "idle", old |-> 0, new |-> 0, size |-> 0]
Free(c) == call[c].at = "idle"

(***************************************************************************)
(* The class of a size.  The power of two is computed in an int: a shift   *)
(* into its sign bit gives a value no region serves, and a longer one      *)
(* wraps around.                                                           *)
(***************************************************************************)
Shift(size) == Min({s \in 0 .. 2 * IntBits : Pow2[s] >= size})
AlignedShift(size) == Shift(size) % IntBits
TooLarge(h, size) ==
    \/ AlignedShift(size) = IntBits - 1
    \/ AlignedShift(size) - MinShift[h] >= OrderCount[h]

AtLeastMin(h, size) == IF size < Pow2[MinShift[h]] THEN Pow2[MinShift[h]] ELSE size

order_of_size(h, size) ==
    LET o == AlignedShift(size) - MinShift[h] IN IF o < 0 THEN 0 ELSE o

RegionBottom(h, o) == HeapBase[h] + o * RegionBytes
RegionTop(h, o) == RegionBottom(h, o + 1)
order_of_pointer(h, p) == (p - HeapBase[h]) \div RegionBytes
ClassBytes(h, o) == Pow2[o + MinShift[h]]

(***************************************************************************)
(* The locked part of mem_alloc and tdn_host_gc_alloc: the block region o  *)
(* gives out, 0 if it is exhausted, and the region afterwards.             *)
(***************************************************************************)
Next_block(h, o) ==
    IF freelist[h][o] # <<>> THEN Head(freelist[h][o])
    ELSE IF watermark[h][o] < RegionTop(h, o) THEN watermark[h][o]
    ELSE 0

(* Mutant: the block is not unlinked from the free list.                   *)
Take_block_linked(h, o, size) ==
    /\ watermark' = [watermark EXCEPT ![h][o] =
                        IF freelist[h][o] = <<>> /\ @ < RegionTop(h, o) THEN @ + Pow2[AlignedShift(size)] ELSE @]
    /\ UNCHANGED freelist

Take_block(h, o, size) ==
    IF freelist[h][o] # <<>>
    THEN freelist' = [freelist EXCEPT ![h][o] = Tail(@)] /\ UNCHANGED watermark
    ELSE /\ watermark' = [watermark EXCEPT ![h][o] =
                            IF @ < RegionTop(h, o) THEN @ + Pow2[AlignedShift(size)] ELSE @]
         /\ UNCHANGED freelist

Owned(c) == {b \in blocks : b.owner = c /\ b.heap = "mem"}
FreeVars(c) == {v \in 1 .. MaxBlocks : \A b \in blocks : b.owner = c => b.var # v}
NextVar(c) == {v \in FreeVars(c) : \A u \in FreeVars(c) : v <= u}
Block(h, p, size, c, v) == [heap |-> h, ptr |-> p, size |-> size, owner |-> c, var |-> v]

(***************************************************************************)
(* Memory: n bytes from p on, what writing and copying them makes of it.   *)
(* The link of mem_free is as large as the smallest block.                 *)
(***************************************************************************)
Bytes(p, n) == p .. p + n - 1
LinkBytes == Pow2[MinShift["mem"]]
Written(mem, p, n, x) == [a \in DOMAIN mem |-> IF a \in Bytes(p, n) THEN x ELSE mem[a]]
memcpy(mem, dst, src, n) == [a \in DOMAIN mem |-> IF a \in Bytes(dst, n) THEN mem[a - dst + src] ELSE mem[a]]

(* The caller keeps the pointer and writes to every byte it asked for.     *)
GiveTo(h, c, v, p, size) ==
    IF p = 0 THEN UNCHANGED <<blocks, content>>
    ELSE /\ blocks' = blocks \cup {Block(h, p, size, c, v)}
         /\ content' = Written(content, p, size, c)

mem_alloc(c, v, request) ==
    LET size == AtLeastMin("mem", request)
        o == order_of_size("mem", size)
    IN  /\ Free(c)
        /\ ~TooLarge("mem", size)
        /\ Take_block("mem", o, size)
        /\ GiveTo("mem", c, v, Next_block("mem", o), request)
        /\ UNCHANGED <<stackVars, call>>

(* The locked part of mem_free, which writes the link into the block.      *)
Push(p) ==
    LET o == order_of_pointer("mem", p) IN
    /\ freelist' = [freelist EXCEPT !["mem"][o] = <<p>> \o @]
    /\ UNCHANGED watermark
LinkStored(mem, p) == Written(mem, p, LinkBytes, 0)

mem_free(c, b) ==
    /\ Free(c)
    /\ b \in Owned(c)
    /\ Push(b.ptr)
    /\ content' = LinkStored(content, b.ptr)
    /\ blocks' = blocks \ {b}
    /\ UNCHANGED <<stackVars, call>>

(***************************************************************************)
(* mem_realloc of a block: to size 0 it frees, in the class of the block   *)
(* it returns the same pointer, otherwise it allocates, copies and frees.  *)
(* When the allocation fails the caller keeps the old block.  The caller   *)
(* then writes to the bytes it did not have before.                        *)
(***************************************************************************)
old_max_size(p) == ClassBytes("mem", order_of_pointer("mem", p))

realloc_in_place(c, b, size) ==
    /\ Free(c)
    /\ b \in Owned(c)
    /\ size # 0
    /\ size <= old_max_size(b.ptr)
    /\ blocks' = (blocks \ {b}) \cup {Block("mem", b.ptr, size, c, b.var)}
    /\ content' = Written(content, b.ptr + b.size, size - b.size, c)
    /\ UNCHANGED <<regionVars, stackVars, call>>

realloc_move(c, b, size) ==
    LET o == order_of_size("mem", size)
        p == Next_block("mem", o)
    IN  /\ Free(c)
        /\ b \in Owned(c)
        /\ size > old_max_size(b.ptr)
        /\ ~TooLarge("mem", size)
        /\ Take_block("mem", o, size)
        /\ call' = [call EXCEPT ![c] = IF p = 0 THEN NoCall
                                       ELSE [at |-> "copy", old |-> b.ptr, new |-> p, size |-> size]]
        /\ UNCHANGED <<blocks, content, stackVars>>

(* Mutant: the old block is freed before it is copied.                     *)
realloc_copy_late(c) ==
    LET k == call[c] IN
    /\ k.at = "copy"
    /\ Push(k.old)
    /\ content' = memcpy(LinkStored(content, k.old), k.new, k.old, old_max_size(k.old))
    /\ call' = [call EXCEPT ![c].at = "free"]
    /\ UNCHANGED <<blocks, stackVars>>

realloc_copy(c) ==
    LET k == call[c] IN
    /\ k.at = "copy"
    /\ content' = memcpy(content, k.new, k.old, old_max_size(k.old))
    /\ call' = [call EXCEPT ![c].at = "free"]
    /\ UNCHANGED <<regionVars, blocks, stackVars>>

realloc_free(c, b) ==
    LET k == call[c] IN
    /\ k.at = "free"
    /\ b \in Owned(c) /\ b.ptr = k.old
    /\ Push(k.old)
    /\ content' = Written(LinkStored(content, k.old), k.new + b.size, k.size - b.size, c)
    /\ blocks' = (blocks \ {b}) \cup {Block("mem", k.new, k.size, c, b.var)}
    /\ call' = [call EXCEPT ![c] = NoCall]
    /\ UNCHANGED stackVars

(***************************************************************************)
(* tdn_host_gc_alloc: like mem_alloc with the other heap, but the result   *)
(* is written through: an exhausted region stops the thread.               *)
(***************************************************************************)
tdn_host_gc_alloc(c, v, request) ==
    LET size == AtLeastMin("gc", request)
        o == order_of_size("gc", size)
        p == Next_block("gc", o)
    IN  /\ Free(c)
        /\ ~TooLarge("gc", size)
        /\ Take_block("gc", o, size)
        /\ GiveTo("gc", c, v, p, request)
        /\ call' = [call EXCEPT ![c].at = IF p = 0 THEN "stopped" ELSE "idle"]
        /\ UNCHANGED stackVars

(***************************************************************************)
(* small_stack_alloc, once per core: the watermark is advanced twice, the  *)
(* stack is what the first of the two atomic additions returned.           *)
(***************************************************************************)
small_stack_add(c) ==
    /\ Free(c)
    /\ stacks[c] = 0
    /\ m_small_stack_watermark' = m_small_stack_watermark + StackBytes
    /\ call' = [call EXCEPT ![c] = [NoCall EXCEPT !.at = "stack", !.new = m_small_stack_watermark]]
    /\ UNCHANGED <<regionVars, blocks, content, stacks>>

small_stack_add_again(c) ==
    /\ call[c].at = "stack"
    /\ m_small_stack_watermark' = m_small_stack_watermark + StackBytes
    /\ stacks' = [stacks EXCEPT ![c] = call[c].new]
    /\ call' = [call EXCEPT ![c] = NoCall]
    /\ UNCHANGED <<regionVars, blocks, content>>

-----------------------------------------------------------------------------
BlockAddresses == {RegionBottom(x[1], x[2]) + k : x \in HeapRegions, k \in 0 .. RegionBytes - 1}

(* init_alloc and gc_init.                                                 *)
HeapInit ==
    /\ freelist = [h \in Heaps |-> [o \in OrdersOf(h) |-> <<>>]]
    /\ watermark = [h \in Heaps |-> [o \in OrdersOf(h) |-> RegionBottom(h, o)]]
    /\ blocks = {}
    /\ content = [p \in BlockAddresses |-> 0]
    /\ m_small_stack_watermark = StackBytes
    /\ stacks = [c \in Callers |-> 0]
    /\ call = [c \in Callers |-> NoCall]

HeapStep(c) ==
    \/ \E v \in NextVar(c), size \in AllocSizes : mem_alloc(c, v, size) \/ tdn_host_gc_alloc(c, v, size)
    \/ \E b \in blocks : mem_free(c, b)
    \/ \E b \in blocks, size \in AllocSizes : realloc_in_place(c, b, size) \/ realloc_move(c, b, size)
    \/ realloc_copy(c) \/ \E b \in blocks : realloc_free(c, b)
    \/ small_stack_add(c) \/ small_stack_add_again(c)

HeapNext == \E c \in Callers : HeapStep(c)

HeapSpec == HeapInit /\ [][HeapNext]_heapVars

-----------------------------------------------------------------------------
(* A watermark stays in its region, and free blocks are blocks of their    *)
(* region below it.                                                        *)
InRegions ==
    \A h \in Heaps : \A o \in OrdersOf(h) :
        /\ watermark[h][o] \in RegionBottom(h, o) .. RegionTop(h, o)
        /\ \A i \in DOMAIN freelist[h][o] :
             /\ freelist[h][o][i] \in RegionBottom(h, o) .. watermark[h][o] - 1
             /\ (freelist[h][o][i] - RegionBottom(h, o)) % ClassBytes(h, o) = 0

(* Who holds which block: a caller, in one of its variables, a mem_realloc *)
(* that has not returned it yet, or a place of a free list.  A block is    *)
(* all bytes of its class, however few of them were asked for.             *)
Holding(who, h, p) == [who |-> who, first |-> p, bytes |-> ClassBytes(h, order_of_pointer(h, p))]
Moving(k) == k.at \in {"copy", "free"}
Holdings ==
    {Holding(<<"caller", b.owner, b.var>>, b.heap, b.ptr) : b \in blocks}
      \cup {Holding(<<"realloc", c>>, "mem", call[c].new) : c \in {d \in Callers : Moving(call[d])}}
      \cup UNION {{Holding(<<"free", x, i>>, x[1], freelist[x[1]][x[2]][i]) : i \in DOMAIN freelist[x[1]][x[2]]} :
                    x \in HeapRegions}
Overlap(x, y) == x.first < y.first + y.bytes /\ y.first < x.first + x.bytes

(***************************************************************************)
(* No byte is handed out twice: the blocks that callers keep, that a       *)
(* mem_realloc has taken and that wait in a free list are apart for every  *)
(* two holders, the same caller's included; blocks stay in their region,   *)
(* one is large enough for its request, and each core has its own small    *)
(* stack.                                                                  *)
(***************************************************************************)
HandedOutOnce ==
    /\ InRegions
    /\ \A x, y \in Holdings : x # y => ~Overlap(x, y)
    /\ \A b \in blocks : b.size <= ClassBytes(b.heap, order_of_pointer(b.heap, b.ptr))
    /\ \A c, d \in Callers : c # d /\ stacks[c] # 0 => stacks[c] # stacks[d]

(***************************************************************************)
(* A block keeps what its owner wrote, in every byte the owner asked for,  *)
(* across the copies of mem_realloc, the links mem_free writes into free   *)
(* blocks and what the owners of other blocks write.                       *)
(***************************************************************************)
DataIntact == \A b \in blocks : \A a \in Bytes(b.ptr, b.size) : content[a] = b.owner
=============================================================================
