-------------------------------- MODULE PMM --------------------------------
(***************************************************************************)
(* The physical memory manager of KnutOS: kernel/memory/pmm.c with the     *)
(* bitmap of libk/alloc/bitmap.c and the address arithmetic of             *)
(* kernel/memory/mem.h.                                                    *)
(*                                                                         *)
(* Memory is counted in pages.  A pointer is the number of the virtual     *)
(* page it points to, the physical page p is seen at the pointers p        *)
(* (identity map) and HigherHalf + p, and NULL is the pointer 0.  The      *)
(* bitmap is the set of its bits that are 1; a bit outside of the bitmap   *)
(* is a bit of somebody else's memory, so it reads as anything.            *)
(***************************************************************************)
EXTENDS Integers, Sequences, FiniteSets

CONSTANTS
  MemMaps,      \* the memory maps the bootloader may hand over
  Clients,      \* the callers that hold pages, one block each
  PageCounts,   \* the page counts the clients ask for
  PageSize,     \* bytes per page (4096)
  ByteBits,     \* bits per byte of the bitmap (8)
  KbFactor,     \* the factor KB_TO_PAGES multiplies with (1024)
  AddrPages,    \* pages of the address space (2^64 / 4096)
  HigherHalf,   \* first page of the higher half (0xFFFF800000000000 / 4096)
  IntMod,       \* values of an int, the type of a bit number (2^32)
  CounterMod    \* values of a uint32_t, the type of used_pages (2^32)

NULL == 0

\* get_memory_map_entry_type's types, those pmm_init tells apart.
Types == {"usable", "bootloader_reclaimable", "kernel_and_modules", "other"}
Entry == [base : Nat, length : Nat, type : Types]

EntryPages(e) == e.base .. (e.base + e.length - 1)

\* The pages the map reports as usable.
UsablePages(map) ==
  UNION {EntryPages(map[i]) : i \in {j \in DOMAIN map : map[j].type = "usable"}}

\* What the stivale2 protocol guarantees of a map (usable entries do not
\* overlap), on machines whose page numbers are not negative as an int.
WellFormedMap(map) ==
  /\ map \in Seq(Entry)
  /\ \A i \in DOMAIN map :
       map[i].type # "other" => 2 * (map[i].base + map[i].length) <= IntMod
  /\ \A i, j \in DOMAIN map :
       (i # j /\ map[i].type = "usable" /\ map[j].type = "usable")
         => EntryPages(map[i]) \cap EntryPages(map[j]) = {}

ASSUME ParametersAssumption ==
  /\ PageSize \in Nat \ {0} /\ ByteBits \in Nat \ {0} /\ KbFactor \in Nat \ {0}
  /\ IntMod \in Nat \ {0} /\ CounterMod \in Nat \ {0}
  /\ PageCounts \subseteq {n \in Nat : 2 * n <= IntMod}

\* An int range divides the address space (2^52 pages) and the part of it
\* from the higher half on (2^35 pages, or 2^44 with five levels).
ASSUME AddressAssumption ==
  /\ AddrPages \in Nat /\ HigherHalf \in Nat
  /\ IntMod <= HigherHalf /\ HigherHalf + IntMod <= AddrPages
  /\ (AddrPages - HigherHalf) % IntMod = 0

ASSUME MemMapsAssumption == \A map \in MemMaps : WellFormedMap(map)

VARIABLES
  phase,         \* "boot" until pmm_init has run, then "ready"
  memory_map,    \* pmm_info.memory_map, which pmm_init also writes
  highest_page,  \* highest address of the memory in use
  bitmap,        \* where the bitmap lies and which of its bits are 1
  used_pages,    \* pmm_info.used_pages
  stray,         \* a bit outside of the bitmap was written
  held           \* the block each client holds

pmmVars == <<phase, memory_map, highest_page, bitmap, used_pages, stray>>
vars == <<phase, memory_map, highest_page, bitmap, used_pages, stray, held>>
----------------------------------------------------------------------------
(* Address arithmetic (mem.h) and bit numbers (bitmap.c).                  *)

phys_to_higher_half_data(page) == (HigherHalf + page) % AddrPages
higher_half_data_to_phys(page) == (page - HigherHalf) % AddrPages

\* The bit a size_t page index names once it is passed as an int.
BitOf(index) == index % IntMod

\* Mutant: the loop over the run does one step more.
RunBitsOneMore(index, page_count) ==
  {BitOf(index + i) : i \in 0 .. page_count}

\* The bits pmm_alloc and pmm_free touch for a run of pages.
RunBits(index, page_count) ==
  {BitOf(index + i) : i \in 0 .. (page_count - 1)}

\* Bits the bitmap has room for, given its size in bytes.
BitsIn(bytes) == ByteBits * bytes

\* bitmap_set_bit and bitmap_unset_bit over a set of bits.
SetBits(b, bits)   == [b EXCEPT !.ones = @ \cup {x \in bits : x < BitsIn(b.size)}]
UnsetBits(b, bits) == [b EXCEPT !.ones = @ \ bits]
Outside(b, bits)   == \E x \in bits : x >= BitsIn(b.size)
----------------------------------------------------------------------------
(* pmm_init.                                                               *)

\* Step 2: the ends of the entries that count as memory.
Tops(map) ==
  {map[i].base + map[i].length : i \in {j \in DOMAIN map : map[j].type # "other"}}

\* Mutant: the size is aligned down.
BitmapPagesDown(pages) == (pages \div ByteBits) \div PageSize

\* Step 3: ALIGN_UP(highest_page / 8, PAGE_SIZE) bytes, in pages.
BitmapPages(pages) == ((pages \div ByteBits) + PageSize - 1) \div PageSize

\* Mutant: the first usable entry is taken whatever its length.
IsHostAnyLength(map, pages, i) ==
  /\ i \in DOMAIN map /\ map[i].type = "usable"
  /\ \A j \in DOMAIN map : j < i => map[j].type # "usable"

\* Step 4: the first usable entry that is long enough hosts the bitmap.
IsHost(map, pages, i) ==
  /\ i \in DOMAIN map /\ map[i].type = "usable" /\ map[i].length >= pages
  /\ \A j \in DOMAIN map :
       (j < i /\ map[j].type = "usable") => map[j].length < pages
\* Where the bitmap goes; bitmap.map stays NULL if no entry is long enough.
MapPointers(map, pages) ==
  LET hosts == {map[i].base : i \in {j \in DOMAIN map : IsHost(map, pages, j)}}
  IN IF hosts = {} THEN {NULL} ELSE hosts

\* Mutant: the host entry keeps reporting the bitmap's pages as usable.
ShrinkNothing(map, pages) == map

Shrink(map, pages) ==
  [i \in DOMAIN map |-> IF IsHost(map, pages, i)
                          THEN [base |-> map[i].base + pages,
                                length |-> map[i].length - pages, type |-> "usable"]
                          ELSE map[i]]

\* Step 5: "default - all bits used".
BlankBitmap(at, pages) ==
  [at |-> at, size |-> pages * PageSize,
   ones |-> 0 .. (BitsIn(pages * PageSize) - 1)]

\* Step 6: the bits pmm_free clears for the usable entries.
FreedBits(map) ==
  UNION {RunBits(higher_half_data_to_phys(map[i].base), map[i].length) :
           i \in {j \in DOMAIN map : map[j].type = "usable"}}

\* Mutant: step 7 is missing.
ReserveNothing(b) == b

\* Step 7: "reserve the null pointer".
ReserveNull(b) == SetBits(b, {0})

pmm_init ==
  /\ phase = "boot"
  /\ phase' = "ready"
  /\ highest_page' \in
       {top \in {0} \cup Tops(memory_map) : \A t \in Tops(memory_map) : t <= top}
  /\ LET pages == BitmapPages(highest_page')
         map   == Shrink(memory_map, pages)
     IN /\ memory_map' = map
        /\ \E at \in MapPointers(memory_map, pages) :
             LET blank == BlankBitmap(at, pages)
             IN /\ bitmap' = ReserveNull(UnsetBits(blank, FreedBits(map)))
                /\ stray' = Outside(blank, FreedBits(map) \cup {0})
        \* max_pages less the usable entries' lengths (the entries are disjoint)
        /\ used_pages' = (KbFactor * highest_page'
                            - Cardinality(UsablePages(map))) % CounterMod
  /\ UNCHANGED held
----------------------------------------------------------------------------
(* pmm_find_first_free_page, pmm_alloc and pmm_free.                       *)

\* The bits below highest_page that read as 0, garbage giving those of them
\* that lie behind the end of the bitmap.
FreeBits(garbage) ==
  {i \in 0 .. (highest_page - 1) :
     IF i < BitsIn(bitmap.size) THEN i \notin bitmap.ones ELSE i \in garbage}

\* The search stops at the first free page, however many pages are wanted.
pmm_find_first_free_page(page_count, free, page) ==
  \/ (page_count = 0 \/ free = {}) /\ page = NULL
  \/ page_count # 0 /\ page \in free /\ \A other \in free : page <= other

\* Mutants: used_pages is not increased; the bits are not set.
pmm_alloc_uncounted(page_count, pointer) ==
  \E garbage \in SUBSET (BitsIn(bitmap.size) .. (highest_page - 1)),
     page \in 0 .. highest_page :
    /\ pmm_find_first_free_page(page_count, FreeBits(garbage), page)
    /\ \/ /\ used_pages = 0 \/ page = NULL
          /\ pointer = NULL
          /\ UNCHANGED <<bitmap, used_pages, stray>>
       \/ /\ used_pages # 0 /\ page # NULL
          /\ pointer = phys_to_higher_half_data(page)
          /\ bitmap' = SetBits(bitmap, RunBits(page, page_count))
          /\ stray' = (stray \/ Outside(bitmap, RunBits(page, page_count)))
          /\ UNCHANGED used_pages

pmm_alloc_unmarked(page_count, pointer) ==
  \E garbage \in SUBSET (BitsIn(bitmap.size) .. (highest_page - 1)),
     page \in 0 .. highest_page :
    /\ pmm_find_first_free_page(page_count, FreeBits(garbage), page)
    /\ \/ /\ used_pages = 0 \/ page = NULL
          /\ pointer = NULL
          /\ UNCHANGED <<bitmap, used_pages, stray>>
       \/ /\ used_pages # 0 /\ page # NULL
          /\ pointer = phys_to_higher_half_data(page)
          /\ UNCHANGED bitmap
          /\ stray' = (stray \/ Outside(bitmap, RunBits(page, page_count)))
          /\ used_pages' = (used_pages + page_count) % CounterMod

pmm_alloc(page_count, pointer) ==
  \E garbage \in SUBSET (BitsIn(bitmap.size) .. (highest_page - 1)),
     page \in 0 .. highest_page :
    /\ pmm_find_first_free_page(page_count, FreeBits(garbage), page)
    /\ \/ /\ used_pages = 0 \/ page = NULL
          /\ pointer = NULL
          /\ UNCHANGED <<bitmap, used_pages, stray>>
       \/ /\ used_pages # 0 /\ page # NULL
          /\ pointer = phys_to_higher_half_data(page)
          /\ bitmap' = SetBits(bitmap, RunBits(page, page_count))
          /\ stray' = (stray \/ Outside(bitmap, RunBits(page, page_count)))
          /\ used_pages' = (used_pages + page_count) % CounterMod

pmm_free(pointer, page_count) ==
  LET bits == RunBits(higher_half_data_to_phys(pointer), page_count)
  IN /\ bitmap' = UnsetBits(bitmap, bits)
     /\ stray' = (stray \/ Outside(bitmap, bits))
     /\ used_pages' = (used_pages - page_count) % CounterMod
----------------------------------------------------------------------------
(* The clients: each allocates a block and gives it back once, as a whole. *)

Block == [pointer : 1 .. (AddrPages - 1), count : PageCounts]
NoBlock == [pointer |-> NULL, count |-> 0]

Allocate(c, page_count) ==
  /\ phase = "ready" /\ held[c] = NoBlock
  /\ \E pointer \in 0 .. (AddrPages - 1) :
       /\ pmm_alloc(page_count, pointer)
       /\ held' = IF pointer = NULL THEN held
                  ELSE [held EXCEPT ![c] = [pointer |-> pointer, count |-> page_count]]
  /\ UNCHANGED <<phase, memory_map, highest_page>>

Release(c) ==
  /\ phase = "ready" /\ held[c] # NoBlock
  /\ pmm_free(held[c].pointer, held[c].count)
  /\ held' = [held EXCEPT ![c] = NoBlock]
  /\ UNCHANGED <<phase, memory_map, highest_page>>

Init ==
  /\ phase = "boot"
  /\ memory_map \in MemMaps
  /\ highest_page = 0
  /\ bitmap = [at |-> NULL, size |-> 0, ones |-> {}]
  /\ used_pages = 0
  /\ stray = FALSE
  /\ held = [c \in Clients |-> NoBlock]

Next ==
  \/ pmm_init
  \/ \E c \in Clients : \/ \E page_count \in PageCounts : Allocate(c, page_count)
                        \/ Release(c)

Spec == Init /\ [][Next]_vars
----------------------------------------------------------------------------
(* Properties.                                                             *)

\* The pages that have a bit in the bitmap, and those whose bit is 0.
Covered == 0 .. (BitsIn(bitmap.size) - 1)
ClearBits == {x \in Covered : x \notin bitmap.ones}

\* The physical pages of a client's block, those of them the bitmap knows, and
\* the pages of the bitmap itself.
HeldPages(c) ==
  LET first == higher_half_data_to_phys(held[c].pointer)
  IN first .. (first + held[c].count - 1)
Owned(c) == HeldPages(c) \cap Covered
BitmapStorage == bitmap.at .. (bitmap.at + (bitmap.size \div PageSize) - 1)

\* The pages pmm_alloc has to give away: usable, not the bitmap's, not NULL's.
Pool == IF phase = "ready" THEN UsablePages(memory_map) \ {0} ELSE {}

\* Each variable has its type; a block's pointer is never NULL.
TypeOK ==
  /\ phase \in {"boot", "ready"}
  /\ memory_map \in Seq(Entry)
  /\ highest_page \in Nat
  /\ bitmap \in [at : Nat, size : Nat, ones : SUBSET Nat]
  /\ used_pages \in 0 .. (CounterMod - 1)
  /\ stray \in BOOLEAN
  /\ held \in [Clients -> Block \cup {NoBlock}]

\* "reserve the null pointer" (pmm.c:160): no sequence of allocations and
\* releases makes page 0, whose search result is NULL, free again.
NullPageReserved == phase = "ready" => 0 \notin ClearBits

\* No page is lost and none is given to two clients: a page of the pool that
\* has a bit is either clear in the bitmap or part of exactly one block.
PageConservation ==
  phase = "ready" =>
    /\ ClearBits \cup UNION {Owned(c) : c \in Clients} = Pool \cap Covered
    /\ \A c \in Clients : Owned(c) \cap ClearBits = {}
    /\ \A c, d \in Clients : c # d => Owned(c) \cap Owned(d) = {}

\* pmm_init takes the bitmap's pages out of the host's entry before it frees
\* the usable entries (pmm.c:132-133, 153): the bitmap, which everybody else
\* finds in no entry any more, is not handed out as a page.
BitmapSafe ==
  phase = "ready" => \A c \in Clients : HeldPages(c) \cap BitmapStorage = {}

\* "check if there is still memory left" (pmm.c:225): used_pages says none
\* is left only if no bit of the bitmap is clear.
NeverRefusesFreePage == phase = "ready" /\ ClearBits # {} => used_pages # 0

\* pmm_init rounds the number of bytes down before it rounds it up to pages
\* (pmm.c:93).  Bits behind the bitmap are written if usable memory reaches
\* there, and only if memory ends by less than a byte's bits behind what whole
\* pages of bitmap describe.
WritesAtBitmapEnd ==
  phase = "ready" =>
    /\ UsablePages(memory_map) \subseteq Covered \/ stray
    /\ stray => highest_page % BitsIn(PageSize) \in 1 .. (ByteBits - 1)

\* The allocator keeps the promise of PageAllocator for the pages that have a
\* bit, page counts being 1.
Abstract == INSTANCE PageAllocator
              WITH pool <- Pool \cap Covered, owned <- [c \in Clients |-> Owned(c)]
ImplementsPageAllocator == Abstract!Spec

\* "nothing big enough" and "physical memory allocation for n pages"
\* (pmm.c:221, 229): each page of a new block was free in the bitmap.
AllocatedRunWasFree ==
  [][\A c \in Clients :
       held[c] = NoBlock /\ held'[c] # NoBlock => HeldPages(c)' \subseteq ClearBits]_vars
=============================================================================
