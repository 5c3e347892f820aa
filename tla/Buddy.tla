------------------------------- MODULE Buddy -------------------------------
(***************************************************************************)
(* The buddy allocator of phys.c, from the memory map the boot loader      *)
(* passes to splitting and merging blocks.  The caller holds               *)
(* m_memory_region_lock (see Memory), so an operation is one step; filling *)
(* the regions at boot takes one step per call of free_at_level.           *)
(*                                                                         *)
(* Addresses are in bytes, scaled down: a level-0 block has 2^FIRST bytes, *)
(* a page is a block of level PAGE.  A free list is the set of its blocks: *)
(* which of several blocks of a list comes first is left open.             *)
(***************************************************************************)
EXTENDS Powers, Sequences, FiniteSets, FiniteSetsExt

CONSTANTS
    LEVELS,      \* BUDDY_LEVEL_COUNT
    FIRST,       \* BUDDY_FIRST_LEVEL
    PAGE,        \* get_level_by_size(SIZE_4KB)
    SizeBits,    \* the width of get_level_by_size's argument (32)
    RegionSize,  \* sizeof(memory_region_t)
    MemMap,      \* the memory map: a sequence of [type, base, pages], base a page number
    Sizes,       \* the sizes callers of phys_alloc ask for
    FreeLevels   \* the levels of the blocks callers of phys_free return

BlockSize(l) == Pow2[l + FIRST]
PAGE_SIZE == BlockSize(PAGE)
TopPages == Pow2[LEVELS - 1 - PAGE]

(* The boot loader's map is sorted, without overlaps or empty entries.     *)
ASSUME BuddyAssumption ==
    /\ LEVELS \in Nat /\ PAGE \in 0 .. LEVELS - 1
    /\ FIRST \in Nat /\ SizeBits \in Nat /\ RegionSize \in Nat /\ Sizes \subseteq Nat
    /\ MemMap \in Seq([type : STRING, base : Nat, pages : Nat \ {0}])
    /\ FreeLevels \subseteq 0 .. LEVELS - 1
    /\ \A i \in 1 .. Len(MemMap) - 1 : MemMap[i].base + MemMap[i].pages <= MemMap[i + 1].base

VARIABLES
    added,      \* the progress of add_memory: <<entry, pages of it already added>>
    free_list,  \* the free blocks of all regions and levels, as <<addr, level>>
    metadata,   \* page_metadata_t of every page of a region: [level, free]
    held        \* the blocks callers own: [addr, span, size]

vars == <<added, free_list, metadata, held>>

(***************************************************************************)
(* create_memory_regions: memory is grouped into regions of adjacent       *)
(* entries that are or may become usable; any other entry, or a hole,      *)
(* breaks the chain.                                                       *)
(***************************************************************************)
Entries == DOMAIN MemMap
InRegion(i) ==
    MemMap[i].type \in {"usable", "bootloader", "executable", "acpi_reclaimable"}

OpensRegion(i) ==
    /\ InRegion(i)
    /\ \/ i = 1
       \/ ~InRegion(i - 1)
       \/ MemMap[i - 1].base + MemMap[i - 1].pages # MemMap[i].base

RegionOfEntry(i) == Cardinality({j \in 1 .. i : OpensRegion(j)})
Regions == 1 .. RegionOfEntry(Len(MemMap))
RegionPages ==
    [r \in Regions |->
       UNION {MemMap[i].base .. MemMap[i].base + MemMap[i].pages - 1 :
                i \in {j \in Entries : InRegion(j) /\ RegionOfEntry(j) = r}}]
Pages == UNION {RegionPages[r] : r \in Regions}

(* find_region, and page_metadata: a page outside the region has none.     *)
PageOf(addr) == addr \div PAGE_SIZE
FindRegion(addr) == CHOOSE r \in Regions : PageOf(addr) \in RegionPages[r]
HasMetadata(r, addr) == addr >= 0 /\ PageOf(addr) \in RegionPages[r]

(***************************************************************************)
(* The region array and one byte of metadata per page are carved from the  *)
(* end of the largest usable entry (the first of several).                 *)
(***************************************************************************)
LargestEntry ==
    LET usable == {i \in Entries : MemMap[i].type = "usable"}
        size == Max({MemMap[i].pages : i \in usable})
    IN  Min({i \in usable : MemMap[i].pages = size})

OverheadPages ==
    (Cardinality(Regions) * RegionSize + Cardinality(Pages) + PAGE_SIZE - 1) \div PAGE_SIZE

EntryPages(i) ==
    IF i = LargestEntry THEN MemMap[i].pages - OverheadPages ELSE MemMap[i].pages

(***************************************************************************)
(* get_level_by_size: the level of the smallest block that is large        *)
(* enough, -1 if there is none.  The size is truncated on the way in.      *)
(***************************************************************************)
(* Mutant: the power of two below instead of above the size.               *)
get_level_by_size_down(size) ==
    LET s == size % Pow2[SizeBits] IN
    IF s > BlockSize(LEVELS - 1) THEN -1
    ELSE Max({l \in 0 .. LEVELS - 1 : l = 0 \/ BlockSize(l) <= s})

get_level_by_size(size) ==
    LET s == size % Pow2[SizeBits] IN
    IF s > BlockSize(LEVELS - 1) THEN -1
    ELSE Min({l \in 0 .. LEVELS - 1 : BlockSize(l) >= s})

(***************************************************************************)
(* free_at_level: climb while the neighbour at the current level is inside *)
(* the region, free and whole according to its metadata; the neighbours    *)
(* merged on the way leave their lists, only the merged block's first page *)
(* gets new metadata.                                                      *)
(***************************************************************************)
BlockAt(addr, l) == addr - (addr % BlockSize(l))
Neighbor(addr, l) ==
    IF addr % BlockSize(l + 1) = 0 THEN addr + BlockSize(l) ELSE addr - BlockSize(l)

CanMerge(addr, l) ==
    LET n == Neighbor(BlockAt(addr, l), l) IN
    /\ HasMetadata(FindRegion(addr), n)
    /\ metadata[PageOf(n)].free
    /\ metadata[PageOf(n)].level = l

(* Mutant: the level is raised once more when the climb ends.              *)
MergedLevel_once_more(addr, l) ==
    1 + Max({m \in l .. LEVELS - 1 : \A k \in l .. m - 1 : CanMerge(addr, k)})

(* Mutant: only neighbours above the block are merged.                     *)
MergedLevel_upwards(addr, l) ==
    Max({m \in l .. LEVELS - 1 : \A k \in l .. m - 1 :
           CanMerge(addr, k) /\ BlockAt(addr, k) % BlockSize(k + 1) = 0})

MergedLevel(addr, l) ==
    Max({m \in l .. LEVELS - 1 : \A k \in l .. m - 1 : CanMerge(addr, k)})

(* Mutant: the merged neighbours stay in their lists.                      *)
free_at_level_linked(addr, l) ==
    LET m == MergedLevel(addr, l)
        base == BlockAt(addr, m)
    IN  /\ free_list' = free_list \cup {<<base, m>>}
        /\ metadata' = [metadata EXCEPT ![PageOf(base)] = [level |-> m, free |-> TRUE]]

free_at_level(addr, l) ==
    LET m == MergedLevel(addr, l)
        base == BlockAt(addr, m)
        merged == {Neighbor(BlockAt(addr, k), k) : k \in l .. m - 1}
    IN  /\ free_list' = {b \in free_list : b[1] \notin merged} \cup {<<base, m>>}
        /\ metadata' = [metadata EXCEPT ![PageOf(base)] = [level |-> m, free |-> TRUE]]

(***************************************************************************)
(* Filling the regions at boot.  add_memory takes the usable entries in    *)
(* turn; add_memory_to_region frees single pages up to a top-level         *)
(* boundary, then whole top-level blocks, then the pages that are left.    *)
(***************************************************************************)
Booting == added[1] <= Len(MemMap)

add_memory_skip ==
    /\ Booting
    /\ \/ MemMap[added[1]].type # "usable"
       \/ added[2] = EntryPages(added[1])
    /\ added' = <<added[1] + 1, 0>>
    /\ UNCHANGED <<free_list, metadata, held>>

add_memory_to_region ==
    LET page == MemMap[added[1]].base + added[2]
        left == EntryPages(added[1]) - added[2]
        whole == page % TopPages = 0 /\ left >= TopPages
    IN  /\ Booting
        /\ MemMap[added[1]].type = "usable"
        /\ left > 0
        /\ free_at_level(page * PAGE_SIZE, IF whole THEN LEVELS - 1 ELSE PAGE)
        /\ added' = <<added[1], added[2] + (IF whole THEN TopPages ELSE 1)>>
        /\ UNCHANGED held

(***************************************************************************)
(* allocate_from_level in the first region that has a block for it: take a *)
(* block of the lowest level that has one, put the upper half of each      *)
(* split into the list below, and record the levels.  The block's own page *)
(* is written last, so halves that share it with the block leave no trace. *)
(***************************************************************************)
FreeFor(r, l) == {b \in free_list : b[2] >= l /\ PageOf(b[1]) \in RegionPages[r]}

(* Mutant: a block is handed out without clearing its free bit.            *)
allocate_from_level_marked(b, l) ==
    LET upper == {<<b[1] + BlockSize(k), k>> : k \in l .. b[2] - 1} IN
    /\ free_list' = (free_list \ {b}) \cup upper
    /\ metadata' = [p \in Pages |->
         IF p = PageOf(b[1]) THEN [level |-> l, free |-> TRUE]
         ELSE IF \E u \in upper : PageOf(u[1]) = p
              THEN [level |-> (CHOOSE u \in upper : PageOf(u[1]) = p)[2], free |-> TRUE]
              ELSE metadata[p]]

allocate_from_level(b, l) ==
    LET upper == {<<b[1] + BlockSize(k), k>> : k \in l .. b[2] - 1} IN
    /\ free_list' = (free_list \ {b}) \cup upper
    /\ metadata' = [p \in Pages |->
         IF p = PageOf(b[1]) THEN [level |-> l, free |-> FALSE]
         ELSE IF \E u \in upper : PageOf(u[1]) = p
              THEN [level |-> (CHOOSE u \in upper : PageOf(u[1]) = p)[2], free |-> TRUE]
              ELSE metadata[p]]

(* The blocks internal_phys_alloc may take for level l.                    *)
Candidates(l) ==
    LET able == {r \in Regions : FreeFor(r, l) # {}} IN
    IF able = {} THEN {}
    ELSE LET blocks == FreeFor(Min(able), l)
         IN  {b \in blocks : \A o \in blocks : b[2] <= o[2]}

phys_alloc(size) ==
    LET l == get_level_by_size(size) IN
    /\ ~Booting
    /\ l # -1
    /\ \E b \in Candidates(l) :
         /\ allocate_from_level(b, l)
         /\ held' = held \cup {[addr |-> b[1], span |-> BlockSize(l), size |-> size]}
    /\ UNCHANGED added

(***************************************************************************)
(* phys_free: the level comes from the metadata of the pointer's page, and *)
(* the pointer must be aligned for it: the assertion stops the kernel      *)
(* otherwise.                                                              *)
(***************************************************************************)
FreeAssert(h) == h.addr % BlockSize(metadata[PageOf(h.addr)].level) = 0

phys_free(h) ==
    /\ h \in held
    /\ FreeAssert(h)
    /\ free_at_level(h.addr, metadata[PageOf(h.addr)].level)
    /\ held' = held \ {h}
    /\ UNCHANGED added

(***************************************************************************)
(* The workload decides which blocks are ever returned.  The kernel's one  *)
(* call of phys_free (virt.c:157) returns pages; PagesReturned is the      *)
(* workloads that return nothing smaller than that.                        *)
(***************************************************************************)
Returned(h) == \E l \in FreeLevels : h.span = BlockSize(l)

PagesReturned == FreeLevels \subseteq PAGE .. LEVELS - 1

Init ==
    /\ added = <<1, 0>>
    /\ free_list = {}
    /\ metadata = [p \in Pages |-> [level |-> 0, free |-> FALSE]]
    /\ held = {}

Next ==
    \/ add_memory_skip
    \/ add_memory_to_region
    \/ \E size \in Sizes : phys_alloc(size)
    \/ \E h \in held : Returned(h) /\ phys_free(h)

Spec == Init /\ [][Next]_vars

-----------------------------------------------------------------------------
Levels == 0 .. LEVELS - 1
Addresses == {p * PAGE_SIZE + o : p \in Pages, o \in 0 .. PAGE_SIZE - 1}
Bytes(addr, l) == addr .. addr + BlockSize(l) - 1

(* Types: list entries are aligned blocks inside a region.                 *)
BuddyTypeOK ==
    /\ added \in (1 .. Len(MemMap) + 1) \X Nat
    /\ \A b \in free_list : b[2] \in Levels /\ b[1] % BlockSize(b[2]) = 0 /\ b[1] \in Addresses
    /\ metadata \in [Pages -> [level : Levels, free : BOOLEAN]]
    /\ \A h \in held : h.addr \in Addresses /\ h.size \in Sizes

AddedBytes ==
    UNION {LET n == IF i < added[1] THEN EntryPages(i) ELSE IF i = added[1] THEN added[2] ELSE 0
           IN  MemMap[i].base * PAGE_SIZE .. (MemMap[i].base + n) * PAGE_SIZE - 1 :
             i \in {j \in Entries : MemMap[j].type = "usable"}}

(***************************************************************************)
(* Every byte add_memory has added is in exactly one block, free or held:  *)
(* splitting and merging (allocate_from_level, free_at_level) neither lose *)
(* memory nor put a byte into two blocks.  It needs PagesReturned.         *)
(***************************************************************************)
NothingLostOrShared ==
    LET blocks == {Bytes(b[1], b[2]) : b \in free_list} \cup {h.addr .. h.addr + h.span - 1 : h \in held}
    IN  /\ UNION blocks = AddedBytes
        /\ Cardinality(blocks) = Cardinality(free_list) + Cardinality(held)
        /\ \A x, y \in blocks : x # y => x \cap y = {}

(***************************************************************************)
(* When phys_free consults the metadata of a neighbour (free_at_level),    *)
(* "free at this level" means that the neighbour really is in that free    *)
(* list: list_del is never applied to memory in use.  And phys_free finds  *)
(* the level the block was allocated with, so its assertion holds.  This   *)
(* is said of the blocks callers return (FreeLevels).  It needs            *)
(* PagesReturned: blocks smaller than a page share the one level and free  *)
(* bit of their page, and returning them breaks it.                        *)
(***************************************************************************)
MetadataIsTrue ==
    \A h \in held, l \in FreeLevels : h.span = BlockSize(l) =>
        /\ metadata[PageOf(h.addr)].level = l
        /\ \A k \in l .. MergedLevel(h.addr, l) - 1 :
              <<Neighbor(BlockAt(h.addr, k), k), k>> \in free_list

(***************************************************************************)
(* phys_alloc returns NULL only when there is no aligned free run of the   *)
(* size: free buddies are merged at once, so any aligned block of a page   *)
(* or more that is free as a whole is part of one free block.  It needs    *)
(* PagesReturned: a page returned in smaller pieces stays in pieces.       *)
(***************************************************************************)
NoSpuriousFailure ==
    LET freeBytes == UNION {Bytes(b[1], b[2]) : b \in free_list} IN
    \A l \in PAGE .. LEVELS - 1 : (\A b \in free_list : b[2] < l) =>
        ~\E a \in {x \in Addresses : x % BlockSize(l) = 0} : Bytes(a, l) \subseteq freeBytes

UsableMemory ==
    UNION {MemMap[i].base * PAGE_SIZE .. (MemMap[i].base + EntryPages(i)) * PAGE_SIZE - 1 :
             i \in {j \in Entries : MemMap[j].type = "usable"}}

Abstract == INSTANCE PhysSpec WITH Memory <- UsableMemory, Sizes <- Sizes, held <- held

(***************************************************************************)
(* The allocator implements PhysSpec: blocks are usable memory outside the *)
(* region array and metadata, aligned, large enough and nobody else's, as  *)
(* long as what is returned are pages or more.                             *)
(***************************************************************************)
ImplementsPhysSpec == Abstract!Spec
=============================================================================
