------------------------------ MODULE Kmalloc ------------------------------
(***************************************************************************)
(* kmalloc and kfree of libk/alloc/kmalloc.c on top of the physical memory *)
(* manager (PMM) and the slab allocator (Slab), set up in kmain's order.   *)
(*                                                                         *)
(* Addresses are numbers of bytes.  Of the memory, only the words that     *)
(* kmalloc writes are modelled: kmalloc_metadata_t.size, by address.       *)
(***************************************************************************)
EXTENDS Integers, Sequences, FiniteSets

CONSTANTS
  Clients,     \* the callers of kmalloc, one block each
  Requests,    \* the sizes the clients ask for
  MetaBytes,   \* sizeof(kmalloc_metadata_t) (8)
  MaxPower,    \* 2^MaxPower is the largest power of two in a size_t (63)
  SlabPages,   \* the pages the slabs take (6)
  MemMaps, PageSize, ByteBits, KbFactor, AddrPages, HigherHalf, IntMod, CounterMod,
  SlabCount, Size, MaxSlabSize, RangeBytes

\* The metadata leaves room in a page, and a power of two that is not less
\* than a page is made of whole pages.
ASSUME KmallocAssumption ==
  /\ MaxPower \in Nat \ {0}
  /\ Requests \subseteq {size \in Nat : size + MetaBytes <= 2 ^ MaxPower}
  /\ MetaBytes \in Nat \ {0} /\ MetaBytes < PageSize
  /\ \A k \in 1 .. MaxPower : 2 ^ k >= PageSize => 2 ^ k % PageSize = 0
  /\ SlabPages \in Nat \ {0} /\ SlabCount * MaxSlabSize <= SlabPages * PageSize

VARIABLES
  phase, memory_map, highest_page, bitmap, used_pages, stray,  \* of PMM
  slabs,     \* of Slab
  pages,     \* the pages slab_init has allocated so far
  metadata,  \* the size words kmalloc has written, by their address
  held       \* the block each client holds

vars == <<phase, memory_map, highest_page, bitmap, used_pages, stray,
          slabs, pages, metadata, held>>
memVars == <<phase, memory_map, highest_page, bitmap, used_pages, stray>>

P == INSTANCE PMM WITH
       PageCounts <- 1 .. IntMod \div 2,
       held <- [c \in Clients |-> [pointer |-> 0, count |-> 0]]
S == INSTANCE Slab WITH
       PageBytes <- PageSize, AddrBytes <- AddrPages * PageSize, PageSupplies <- {},
       ready <- TRUE, held <- [c \in Clients |-> [pointer |-> 0, size |-> 0]]

\* What PMM and Slab assume of their constants.
ASSUME InstancesAssumption ==
  /\ P!ParametersAssumption /\ P!AddressAssumption /\ P!MemMapsAssumption
  /\ S!SlabAssumption

NULL == 0
SlabsReady == Len(pages) = SlabPages
----------------------------------------------------------------------------
(* Boot: pmm_init, then slab_init's pmm_alloc(1) calls, then its slabs.    *)

BootPMM == P!pmm_init /\ UNCHANGED <<slabs, pages, metadata, held>>

BootSlabs ==
  /\ phase = "ready" /\ ~SlabsReady
  /\ \E page \in 0 .. (AddrPages - 1) :
       /\ P!pmm_alloc(1, page)
       /\ pages' = Append(pages, page * PageSize)
       /\ IF Len(pages') = SlabPages THEN S!slab_init(pages') ELSE UNCHANGED slabs
  /\ UNCHANGED <<phase, memory_map, highest_page, metadata, held>>
----------------------------------------------------------------------------
(* kmalloc and kfree.                                                      *)

\* The smallest power of two that is not less than num, and at least 2.
next_pow_of_two(num) ==
  LET powers == {2 ^ k : k \in 1 .. MaxPower}
  IN CHOOSE result \in powers :
       result >= num /\ \A other \in powers : other >= num => result <= other

IsBig(size) == next_pow_of_two(size) >= PageSize
BigPages(new_size) == (new_size \div PageSize) + 1

Write(address, size) ==
  metadata' = [a \in DOMAIN metadata \cup {address} |->
                 IF a = address THEN size ELSE metadata[a]]

NoBlock == [pointer |-> NULL, size |-> 0]
Return(c, size, pointer) ==
  held' = [held EXCEPT ![c] = [pointer |-> pointer, size |-> size]]

big_alloc(c, size) ==
  /\ IsBig(size)
  /\ \E page \in 0 .. (AddrPages - 1) :
       /\ P!pmm_alloc(BigPages(next_pow_of_two(size)), page)
       /\ Write(page * PageSize, next_pow_of_two(size))
       /\ Return(c, size, page * PageSize + PageSize)
  /\ UNCHANGED <<phase, memory_map, highest_page, slabs>>

\* Mutant: the pointer is not moved behind the metadata.
small_alloc_unmoved(c, size) ==
  /\ ~IsBig(size)
  /\ \E object \in {NULL} \cup UNION {S!FreeObjects(i) : i \in S!Slabs} :
       /\ S!slab_alloc(next_pow_of_two(size + MetaBytes), object)
       /\ Write(object, next_pow_of_two(size + MetaBytes))
       /\ Return(c, size, object)
  /\ UNCHANGED memVars

\* Mutant: the size is rounded up before the metadata is added.
small_alloc_unrounded(c, size) ==
  /\ ~IsBig(size)
  /\ \E object \in {NULL} \cup UNION {S!FreeObjects(i) : i \in S!Slabs} :
       /\ S!slab_alloc(next_pow_of_two(size), object)
       /\ Write(object, next_pow_of_two(size))
       /\ Return(c, size, object + MetaBytes)
  /\ UNCHANGED memVars

\* Mutant: the metadata holds the size that was asked for.
small_alloc_plain_size(c, size) ==
  /\ ~IsBig(size)
  /\ \E object \in {NULL} \cup UNION {S!FreeObjects(i) : i \in S!Slabs} :
       /\ S!slab_alloc(next_pow_of_two(size + MetaBytes), object)
       /\ Write(object, size)
       /\ Return(c, size, object + MetaBytes)
  /\ UNCHANGED memVars

small_alloc(c, size) ==
  /\ ~IsBig(size)
  /\ \E object \in {NULL} \cup UNION {S!FreeObjects(i) : i \in S!Slabs} :
       /\ S!slab_alloc(next_pow_of_two(size + MetaBytes), object)
       /\ Write(object, next_pow_of_two(size + MetaBytes))
       /\ Return(c, size, object + MetaBytes)
  /\ UNCHANGED memVars

\* Mutant: a big block is freed without the page of its metadata.
kfree_without_metadata(pointer) ==
  \/ /\ pointer # NULL /\ pointer % PageSize = 0
     /\ LET block == pointer - PageSize
        IN P!pmm_free(block \div PageSize, metadata[block] \div PageSize)
     /\ UNCHANGED <<phase, memory_map, highest_page, slabs>>
  \/ /\ pointer % PageSize # 0
     /\ S!slab_free(pointer - MetaBytes)
     /\ UNCHANGED memVars

kfree(pointer) ==
  \/ /\ pointer # NULL /\ pointer % PageSize = 0
     /\ LET block == pointer - PageSize
        IN P!pmm_free(block \div PageSize, BigPages(metadata[block]))
     /\ UNCHANGED <<phase, memory_map, highest_page, slabs>>
  \/ /\ pointer % PageSize # 0
     /\ S!slab_free(pointer - MetaBytes)
     /\ UNCHANGED memVars
----------------------------------------------------------------------------
(* The clients: each frees the block it holds, once.                       *)

Kmalloc(c, size) ==
  /\ SlabsReady /\ held[c] = NoBlock
  /\ big_alloc(c, size) \/ small_alloc(c, size)
  /\ UNCHANGED pages

Kfree(c) ==
  /\ held[c] # NoBlock
  /\ kfree(held[c].pointer)
  /\ held' = [held EXCEPT ![c] = NoBlock]
  /\ UNCHANGED <<pages, metadata>>

Init ==
  /\ phase = "boot" /\ memory_map \in MemMaps /\ highest_page = 0
  /\ bitmap = [at |-> NULL, size |-> 0, ones |-> {}]
  /\ used_pages = 0 /\ stray = FALSE
  /\ slabs = [i \in S!Slabs |-> [is_full |-> FALSE, start |-> NULL, end |-> NULL,
                                 objects |-> [slot \in S!Slots(i) |-> NULL]]]
  /\ pages = <<>>
  /\ metadata = [a \in {} |-> 0]
  /\ held = [c \in Clients |-> NoBlock]

Next ==
  \/ BootPMM \/ BootSlabs
  \/ \E c \in Clients : \/ \E size \in Requests : Kmalloc(c, size)
                        \/ Kfree(c)

Spec == Init /\ [][Next]_vars
----------------------------------------------------------------------------
(* Properties.                                                             *)

Holders == {c \in Clients : held[c] # NoBlock}

\* The block is not made from a NULL the allocator below returned.
IsBacked(c) == held[c].pointer > PageSize

\* The bytes of a block with its metadata, as its owner may use them.
BlockBytes(c) ==
  LET before == IF IsBig(held[c].size) THEN PageSize ELSE MetaBytes
  IN (held[c].pointer - before) .. (held[c].pointer + held[c].size - 1)

PageOf(address) == P!higher_half_data_to_phys(address \div PageSize)
BlockPages(c) ==
  IF IsBig(held[c].size)
    THEN LET first == PageOf(held[c].pointer - PageSize)
         IN first .. (first + next_pow_of_two(held[c].size) \div PageSize)
  ELSE {}
SlabPageSet == {PageOf(pages[k]) : k \in DOMAIN pages}

\* Each variable has its type, the slabs' slots hold objects of their slab.
TypeOK ==
  /\ P!TypeOK
  /\ S!TypeOK
  /\ pages \in Seq(Nat)
  /\ DOMAIN metadata \subseteq Nat
  /\ \A a \in DOMAIN metadata : metadata[a] \in {2 ^ k : k \in 1 .. MaxPower}
  /\ held \in [Clients -> [pointer : Nat, size : Requests \cup {0}]]

\* "find out if the pointers belongs to a pmm_alloc or a slab_alloc"
\* (kmalloc.c:76): the test of the pointer's low bits tells them apart, and the
\* size that kfree reads before a big block is the one of this block, not one
\* that an earlier or another block has left there.
FreeFindsAllocator ==
  \A c \in Holders :
    /\ (held[c].pointer % PageSize = 0) <=> IsBig(held[c].size)
    /\ IsBig(held[c].size) /\ IsBacked(c)
         => metadata[held[c].pointer - PageSize] = next_pow_of_two(held[c].size)

\* No byte of a block or its metadata belongs to another block, if memory
\* was left for both.
BlocksDisjoint ==
  \A c, d \in Holders : c # d /\ IsBacked(c) /\ IsBacked(d)
    => BlockBytes(c) \cap BlockBytes(d) = {}

\* A page is marked in the bitmap exactly while a block or the slabs own it:
\* kfree gives back all that kmalloc took, from a size read out of memory.
PagesAccounted ==
  SlabsReady =>
    P!Pool \ P!ClearBits = SlabPageSet \cup UNION {BlockPages(c) : c \in Holders}
=============================================================================
