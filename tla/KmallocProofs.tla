--------------------------- MODULE KmallocProofs ---------------------------
(***************************************************************************)
(* Theorems about kmalloc and kfree on the physical memory manager and the *)
(* slab allocator, for every number of clients, every set of requested     *)
(* sizes, every memory map and every size of pages, slabs and metadata.    *)
(***************************************************************************)
EXTENDS Kmalloc, ArithmeticProofs, FiniteSetTheorems, TLAPS
----------------------------------------------------------------------------
(* The constants.                                                          *)

LEMMA PmmConstants ==
  /\ PageSize \in Nat \ {0} /\ ByteBits \in Nat \ {0} /\ KbFactor \in Nat \ {0}
  /\ IntMod \in Nat \ {0} /\ CounterMod \in Nat \ {0}
  /\ AddrPages \in Nat /\ HigherHalf \in Nat
  /\ IntMod <= HigherHalf /\ HigherHalf + IntMod <= AddrPages
  /\ (AddrPages - HigherHalf) % IntMod = 0
BY InstancesAssumption

LEMMA SlabConstants ==
  /\ SlabCount \in Nat /\ MaxSlabSize \in Nat \ {0} /\ AddrPages * PageSize \in Nat
  /\ RangeBytes \in 0 .. MaxSlabSize
  /\ Size \in [S!Slabs -> Nat \ {0}]
  /\ \A i \in S!Slabs : MaxSlabSize % Size[i] = 0
  /\ \A i, j \in S!Slabs : i # j => Size[i] # Size[j]
  /\ PageSize \in Nat \ {0} /\ PageSize % MaxSlabSize = 0
BY InstancesAssumption

\* next_pow_of_two returns a power of two, not less than what it is given.
LEMMA NextPowOfTwo ==
  ASSUME NEW num \in Nat, num <= 2 ^ MaxPower
  PROVE  /\ next_pow_of_two(num) \in {2 ^ k : k \in 1 .. MaxPower}
         /\ next_pow_of_two(num) \in Nat /\ next_pow_of_two(num) >= num
<1> DEFINE powers == {2 ^ k : k \in 1 .. MaxPower}
           enough == {power \in powers : power >= num}
<1>1. \A power \in powers : power \in Int
  BY KmallocAssumption
<1>2. enough \in SUBSET Nat
  BY <1>1
<1>3. 2 ^ MaxPower \in enough
  BY KmallocAssumption
<1> HIDE DEF powers
<1>4. PICK least \in enough : \A power \in enough : least <= power
  BY <1>2, <1>3, LeastElement
<1>5. /\ least \in powers /\ least >= num
      /\ \A other \in powers : other >= num => least <= other
  BY <1>4
<1>6. next_pow_of_two(num) = CHOOSE result \in powers :
        result >= num /\ \A other \in powers : other >= num => result <= other
  BY DEF next_pow_of_two, powers
<1>7. next_pow_of_two(num) \in powers /\ next_pow_of_two(num) >= num
  BY <1>5, <1>6, Zenon
<1>8. next_pow_of_two(num) \in Int
  BY <1>1, <1>7
<1>9. QED
  BY <1>7, <1>8 DEF powers
----------------------------------------------------------------------------
(* The physical memory manager.  The proof system does not cite theorems of *)
(* an instance, so the lemmas about pmm_init are proved again for P.       *)

LEMMA CardinalityInP ==
  ASSUME NEW pageset
  PROVE  P!Cardinality(pageset) = Cardinality(pageset)
BY Zenon DEF P!Cardinality, Cardinality

\* The higher-half pointer of a page is not NULL and names the page again.
LEMMA HigherHalfInverse ==
  ASSUME NEW page \in 0 .. (IntMod - 1)
  PROVE  /\ P!phys_to_higher_half_data(page) \in 1 .. (AddrPages - 1)
         /\ P!higher_half_data_to_phys(P!phys_to_higher_half_data(page)) = page
  <1>. USE PmmConstants
  <1>1. HigherHalf + page \in 1 .. (AddrPages - 1)
    OBVIOUS
  <1>2. P!phys_to_higher_half_data(page) = HigherHalf + page
    BY <1>1, RemainderSmall DEF P!phys_to_higher_half_data
  <1>3. page \in Nat /\ page < AddrPages /\ AddrPages \in Nat \ {0}
    OBVIOUS
  <1>4. (HigherHalf + page) - HigherHalf = page
    OBVIOUS
  <1> QED  BY <1>1, <1>2, <1>3, <1>4, RemainderSmall DEF P!higher_half_data_to_phys

\* P!pmm_init passes physical addresses to pmm_free, which takes higher-half
\* ones: as an int the bit number is the same.
LEMMA PhysicalPointerBit ==
  ASSUME NEW page \in Nat, NEW i \in Nat, page + i < IntMod
  PROVE  P!BitOf(P!higher_half_data_to_phys(page) + i) = page + i
  <1>. DEFINE upper == AddrPages - HigherHalf
  <1>1. /\ page - HigherHalf < 0 /\ page - HigherHalf + AddrPages >= 0
        /\ AddrPages \in Nat \ {0} /\ HigherHalf \in Nat
    BY PmmConstants
  <1>2. (page - HigherHalf) % AddrPages = (page - HigherHalf) + AddrPages
    BY <1>1
  <1>3. P!higher_half_data_to_phys(page) + i = (page + i) + upper
    BY <1>1, <1>2 DEF P!higher_half_data_to_phys
  <1>4. /\ upper \in Int /\ upper % IntMod = 0
        /\ page + i \in Nat /\ IntMod \in Nat \ {0}
    BY PmmConstants
  <1>. HIDE DEF upper
  <1>5. ((page + i) + upper) % IntMod = (page + i) % IntMod
    BY <1>4, RemainderShift
  <1>6. (page + i) % IntMod = page + i
    BY <1>4, RemainderSmall
  <1> QED  BY <1>3, <1>5, <1>6 DEF P!BitOf

\* The page numbers of the memory in use are not negative as an int.
Bounded(map) ==
  \A i \in DOMAIN map :
    map[i].type # "other" => 2 * (map[i].base + map[i].length) <= IntMod

\* Taking the bitmap's pages from the host entry keeps where entries end.
LEMMA ShrinkKeepsEntries ==
  ASSUME NEW map \in Seq(P!Entry), Bounded(map), NEW span \in Nat
  PROVE  /\ P!Shrink(map, span) \in Seq(P!Entry)
         /\ Bounded(P!Shrink(map, span))
         /\ DOMAIN P!Shrink(map, span) = DOMAIN map
         /\ \A i \in DOMAIN map :
              /\ P!Shrink(map, span)[i].type = map[i].type
              /\ P!Shrink(map, span)[i].base + P!Shrink(map, span)[i].length
                   = map[i].base + map[i].length
  <1>. DEFINE new == P!Shrink(map, span)
  <1>1. DOMAIN new = DOMAIN map
    BY DEF P!Shrink
  <1>2. ASSUME NEW i \in DOMAIN map
        PROVE  /\ new[i] \in P!Entry /\ new[i].type = map[i].type
               /\ new[i].base + new[i].length = map[i].base + map[i].length
    <2>1. map[i] \in P!Entry
      OBVIOUS
    <2>2. CASE P!IsHost(map, span, i)
      <3>1. new[i] = [base |-> map[i].base + span,
                      length |-> map[i].length - span, type |-> "usable"]
        BY <2>2 DEF P!Shrink
      <3>2. map[i].length >= span /\ map[i].type = "usable"
        BY <2>2 DEF P!IsHost
      <3>. QED  BY <2>1, <3>1, <3>2 DEF P!Entry
    <2>3. CASE ~P!IsHost(map, span, i)
      BY <2>1, <2>3 DEF P!Shrink
    <2>. QED  BY <2>2, <2>3
  <1>3. new \in Seq(P!Entry)
    <2>1. PICK n \in Nat : DOMAIN map = 1 .. n
      OBVIOUS
    <2>2. new \in [1 .. n -> P!Entry]
      BY <1>1, <1>2, <2>1 DEF P!Shrink
    <2>. QED  BY <2>2
  <1>4. Bounded(new)
    BY <1>1, <1>2 DEF Bounded
  <1> QED  BY <1>1, <1>2, <1>3, <1>4

LEMMA UsablePagesBounded ==
  ASSUME NEW map \in Seq(P!Entry), Bounded(map)
  PROVE  /\ P!UsablePages(map) \subseteq Nat
         /\ \A page \in P!UsablePages(map) : 2 * page < IntMod
         /\ P!Cardinality(P!UsablePages(map)) \in Nat
  <1>1. \A page \in P!UsablePages(map) : page \in Nat /\ 2 * page < IntMod
    <2>. SUFFICES ASSUME NEW i \in DOMAIN map, map[i].type = "usable",
                         NEW page \in P!EntryPages(map[i])
                  PROVE  page \in Nat /\ 2 * page < IntMod
      BY DEF P!UsablePages
    <2>1. map[i] \in P!Entry
      OBVIOUS
    <2>2. 2 * (map[i].base + map[i].length) <= IntMod
      BY DEF Bounded
    <2>. QED  BY <2>1, <2>2, PmmConstants DEF P!Entry, P!EntryPages
  <1>2. IsFiniteSet(P!UsablePages(map))
    <2>1. P!UsablePages(map) \in SUBSET Nat /\ IntMod \in Nat
      BY <1>1, PmmConstants
    <2>2. \A page \in P!UsablePages(map) : page <= IntMod
      BY <1>1, <2>1
    <2>. QED  BY <2>1, <2>2, FS_BoundedSetOfNaturals
  <1> QED  BY <1>1, <1>2, FS_CardinalityType, CardinalityInP

\* Step 6 of P!pmm_init clears the bits of the usable pages and no others.
LEMMA FreedBitsAreUsable ==
  ASSUME NEW map \in Seq(P!Entry), Bounded(map)
  PROVE  P!FreedBits(map) = P!UsablePages(map)
  <1>1. ASSUME NEW i \in DOMAIN map, map[i].type = "usable"
        PROVE  P!RunBits(P!higher_half_data_to_phys(map[i].base), map[i].length)
                 = P!EntryPages(map[i])
    <2>1. map[i].base \in Nat /\ map[i].length \in Nat
      <3>1. map[i] \in P!Entry
        OBVIOUS
      <3>. QED  BY <3>1 DEF P!Entry
    <2>2. 2 * (map[i].base + map[i].length) <= IntMod /\ IntMod \in Nat \ {0}
      BY <1>1, PmmConstants DEF Bounded
    <2>3. ASSUME NEW k \in 0 .. (map[i].length - 1)
          PROVE  P!BitOf(P!higher_half_data_to_phys(map[i].base) + k) = map[i].base + k
      <3>1. k \in Nat /\ map[i].base + k < IntMod
        BY <2>1, <2>2
      <3>. QED  BY <2>1, <3>1, PhysicalPointerBit
    <2>4. P!RunBits(P!higher_half_data_to_phys(map[i].base), map[i].length)
            = {map[i].base + k : k \in 0 .. (map[i].length - 1)}
      BY <2>3 DEF P!RunBits
    <2>5. \A page \in P!EntryPages(map[i]) :
            /\ page - map[i].base \in 0 .. (map[i].length - 1)
            /\ page = map[i].base + (page - map[i].base)
      BY <2>1 DEF P!EntryPages
    <2>6. \A k \in 0 .. (map[i].length - 1) : map[i].base + k \in P!EntryPages(map[i])
      BY <2>1 DEF P!EntryPages
    <2>. QED  BY <2>4, <2>5, <2>6
  <1> QED  BY <1>1 DEF P!FreedBits, P!UsablePages

LEMMA BitmapPagesType ==
  ASSUME NEW span \in Nat
  PROVE  P!BitmapPages(span) \in Nat
  <1>1. /\ PageSize \in Nat \ {0} /\ ByteBits \in Nat \ {0}
        /\ span \div ByteBits \in Nat
    BY PmmConstants
  <1>2. (span \div ByteBits) + PageSize - 1 \in Nat
    BY <1>1
  <1>3. \A a \in Nat : a \div PageSize \in Nat
    BY <1>1
  <1> QED  BY <1>2, <1>3 DEF P!BitmapPages

LEMMA RunBitsType ==
  ASSUME NEW index \in Int, NEW page_count \in Nat
  PROVE  P!RunBits(index, page_count) \subseteq Nat
  BY DivisionWithRemainder, PmmConstants DEF P!RunBits, P!BitOf
----------------------------------------------------------------------------
(* Addresses of physical pages in the higher half.                         *)

Address(page) == (HigherHalf + page) * PageSize

LEMMA AddressType ==
  ASSUME NEW page \in Nat
  PROVE  /\ Address(page) \in Nat /\ Address(page) % PageSize = 0
         /\ Address(page + 1) = Address(page) + PageSize /\ Address(page) >= PageSize
<1>1. /\ HigherHalf + page \in Nat /\ PageSize \in Nat \ {0} /\ HigherHalf + page >= 1
      /\ HigherHalf \in Nat
  BY PmmConstants
<1> DEFINE v == HigherHalf + page
<1>2. v \in Nat /\ v >= 1 /\ Address(page) = v * PageSize
      /\ Address(page + 1) = (v + 1) * PageSize
  BY <1>1 DEF Address
<1> HIDE DEF v
<1>3. v * PageSize \in Nat /\ v * PageSize >= PageSize /\ v * PageSize = PageSize * v
      /\ (v + 1) * PageSize = v * PageSize + PageSize
  BY <1>1, <1>2
<1>4. (v * PageSize) % PageSize = 0
  BY <1>1, <1>2, <1>3, MultipleRemainder
<1>5. QED
  BY <1>2, <1>3, <1>4

\* The bytes of a run of pages lie in those pages.
LEMMA BytesOfRun ==
  ASSUME NEW page \in Nat, NEW count \in Nat, page + count <= IntMod,
         NEW byte \in Address(page) .. (Address(page + count) - 1)
  PROVE  PageOf(byte) \in page .. (page + count - 1)
<1> DEFINE low == HigherHalf + page
           high == HigherHalf + (page + count)
           v == byte \div PageSize
<1>1. /\ PageSize \in Nat \ {0} /\ low \in Nat /\ high \in Nat /\ AddrPages \in Nat \ {0}
      /\ high <= AddrPages /\ HigherHalf \in Nat /\ low >= HigherHalf
  BY PmmConstants
<1>2. /\ byte \in Int /\ low * PageSize \in Int /\ high * PageSize \in Int
      /\ low * PageSize <= byte /\ byte < high * PageSize
  <2>1. Address(page) = low * PageSize /\ Address(page + count) = high * PageSize
    BY DEF Address
  <2>2. low * PageSize \in Int /\ high * PageSize \in Int
    BY <1>1
  <2> HIDE DEF low, high
  <2>3. QED
    BY <2>1, <2>2
<1>3. /\ v \in Int /\ byte % PageSize \in 0 .. (PageSize - 1)
      /\ byte = PageSize * v + (byte % PageSize)
  BY <1>1, <1>2, DivisionWithRemainder
<1>4. low <= v /\ v < high
  <2> HIDE DEF low, high, v
  <2> DEFINE r == byte % PageSize
  <2>1. r \in 0 .. (PageSize - 1) /\ byte = v * PageSize + r
    BY <1>1, <1>3
  <2> HIDE DEF r
  <2>2. CASE v < low
    <3>1. v * PageSize + PageSize <= low * PageSize
      BY <1>1, <1>3, <2>2, ProductGap
    <3>2. v * PageSize \in Int
      BY <1>1, <1>3
    <3>3. QED
      BY <1>1, <1>2, <2>1, <3>1, <3>2
  <2>3. CASE high < v
    <3>1. high * PageSize + PageSize <= v * PageSize
      BY <1>1, <1>3, <2>3, ProductGap
    <3>2. v * PageSize \in Int
      BY <1>1, <1>3
    <3>3. QED
      BY <1>1, <1>2, <2>1, <3>1, <3>2
  <2>4. CASE high = v
    BY <1>1, <1>2, <2>1, <2>4
  <2>5. QED
    BY <1>1, <1>3, <2>2, <2>3, <2>4
<1>5. PageOf(byte) = (v - HigherHalf) % AddrPages
  BY SMT DEF PageOf, P!higher_half_data_to_phys
<1>6. v - HigherHalf \in Nat /\ v - HigherHalf < AddrPages
  BY <1>1, <1>3, <1>4
<1>7. PageOf(byte) = v - HigherHalf
  BY <1>1, <1>5, <1>6, RemainderSmall
<1>8. QED
  BY <1>1, <1>3, <1>4, <1>7, PmmConstants

\* The address of a page names the page, and stands on its first byte.
LEMMA AddressNames ==
  ASSUME NEW page \in 0 .. (IntMod - 1)
  PROVE  /\ PageOf(Address(page)) = page
         /\ P!phys_to_higher_half_data(page) = HigherHalf + page
         /\ HigherHalf + page # 0
         /\ Address(page) \div PageSize = HigherHalf + page
         /\ P!higher_half_data_to_phys(HigherHalf + page) = page
<1>1. /\ Address(page) \in Nat /\ Address(page + 1) = Address(page) + PageSize
      /\ PageSize \in Nat \ {0}
  BY AddressType, PmmConstants
<1>2. PageOf(Address(page)) \in page .. (page + 1 - 1)
  BY <1>1, BytesOfRun, PmmConstants
<1>3. PageOf(Address(page)) = page
  BY <1>2
<1>4. HigherHalf + page \in Nat /\ HigherHalf + page < AddrPages /\ HigherHalf + page # 0
      /\ AddrPages \in Nat \ {0}
  BY PmmConstants
<1>5. P!phys_to_higher_half_data(page) = HigherHalf + page
  BY <1>4, RemainderSmall DEF P!phys_to_higher_half_data
<1>6. P!higher_half_data_to_phys(HigherHalf + page) = page
  BY <1>5, HigherHalfInverse
<1>7. Address(page) \div PageSize = HigherHalf + page
  <2> DEFINE v == HigherHalf + page
  <2>1. v \in Nat /\ Address(page) = v * PageSize
    BY <1>4 DEF Address
  <2> HIDE DEF v
  <2>2. (v * PageSize) \div PageSize = v
    BY <1>1, <2>1
  <2>3. QED
    BY <2>1, <2>2 DEF v
<1>8. QED
  BY <1>3, <1>4, <1>5, <1>6, <1>7
----------------------------------------------------------------------------
(* What kmalloc relies on, and the steps of the physical memory manager.   *)

\* The bitmap pmm_init makes for each map has a bit for every page of it.
BitmapsCover ==
  \A map \in MemMaps : \A top \in P!Tops(map) :
    top <= P!BitsIn(P!BitmapPages(top) * PageSize)

\* The pages that slab_init and kmalloc take from pmm_alloc were free in the
\* bitmap.  Neither checks for NULL, and pmm_alloc, which takes the pages
\* behind the first free one whatever their bits say, does not keep this
\* promise of its own ("physical memory allocation for n pages", pmm.c:229)
\* in every memory (PMM's AllocatedRunWasFree).  Where all big blocks take the
\* same number of pages and memory is enough, it does: the theorems of this
\* module derive it from that (UniformBlocks).
RunsWereFree ==
  /\ \A k \in DOMAIN pages' \ DOMAIN pages : PageOf(pages'[k]) \in P!ClearBits
  /\ \A c \in Clients : held[c] = NoBlock /\ held'[c] # NoBlock /\ IsBig(held'[c].size)
       => BlockPages(c)' \subseteq P!ClearBits

\* The bits of the pages that are free are those of a part of the pool.
PmmInv ==
  /\ P!TypeOK
  /\ 2 * highest_page <= IntMod
  /\ phase = "boot" => memory_map \in MemMaps
  /\ phase = "ready" => highest_page <= P!BitsIn(bitmap.size)
  /\ P!Pool \subseteq 1 .. (highest_page - 1)
  /\ P!ClearBits \subseteq P!Pool

LEMMA PmmTypes ==
  ASSUME PmmInv
  PROVE  /\ phase \in {"boot", "ready"} /\ highest_page \in Nat
         /\ bitmap \in [at : Nat, size : Nat, ones : SUBSET Nat]
         /\ used_pages \in 0 .. (CounterMod - 1) /\ stray \in BOOLEAN
         /\ P!BitsIn(bitmap.size) \in Nat
<1>1. \A a, b \in Nat : a * b \in Nat
  OBVIOUS
<1>2. /\ phase \in {"boot", "ready"} /\ highest_page \in Nat
      /\ bitmap \in [at : Nat, size : Nat, ones : SUBSET Nat]
      /\ used_pages \in 0 .. (CounterMod - 1) /\ stray \in BOOLEAN
  BY DEF PmmInv, P!TypeOK
<1>3. bitmap.size \in Nat
  BY <1>2
<1>4. P!BitsIn(bitmap.size) = ByteBits * bitmap.size
  BY SMT DEF P!BitsIn
<1>5. QED
  BY <1>1, <1>2, <1>3, <1>4, PmmConstants

\* pmm_alloc returns NULL, or a page whose bit it found clear.
LEMMA AllocOutcome ==
  ASSUME PmmInv, phase = "ready", NEW count, NEW pointer, P!pmm_alloc(count, pointer)
  PROVE  \/ pointer = NULL /\ UNCHANGED <<bitmap, used_pages, stray>>
         \/ \E page \in 1 .. (highest_page - 1) :
              /\ page \in P!ClearBits
              /\ pointer = HigherHalf + page
              /\ bitmap' = P!SetBits(bitmap, P!RunBits(page, count))
              /\ stray' = (stray \/ P!Outside(bitmap, P!RunBits(page, count)))
              /\ used_pages' = (used_pages + count) % CounterMod
<1>1. PICK garbage \in SUBSET (P!BitsIn(bitmap.size) .. (highest_page - 1)),
           page \in 0 .. highest_page :
        /\ P!pmm_find_first_free_page(count, P!FreeBits(garbage), page)
        /\ \/ /\ used_pages = 0 \/ page = 0
              /\ pointer = 0
              /\ UNCHANGED <<bitmap, used_pages, stray>>
           \/ /\ used_pages # 0 /\ page # 0
              /\ pointer = P!phys_to_higher_half_data(page)
              /\ bitmap' = P!SetBits(bitmap, P!RunBits(page, count))
              /\ stray' = (stray \/ P!Outside(bitmap, P!RunBits(page, count)))
              /\ used_pages' = (used_pages + count) % CounterMod
  BY DEF P!pmm_alloc, P!NULL
<1>2. CASE page = 0
  BY <1>1, <1>2 DEF NULL
<1>3. CASE page # 0
  <2>1. page \in P!FreeBits(garbage)
    BY <1>1, <1>3 DEF P!pmm_find_first_free_page, P!NULL
  <2>2. page \in 1 .. (highest_page - 1) /\ page \in 0 .. (IntMod - 1)
    BY <1>3, <2>1, PmmTypes, PmmConstants DEF P!FreeBits, PmmInv
  <2>3. page < P!BitsIn(bitmap.size)
    BY <2>2, PmmTypes DEF PmmInv
  <2>4. page \in P!ClearBits
    BY <2>1, <2>2, <2>3, PmmTypes DEF P!FreeBits, P!ClearBits, P!Covered
  <2>5. P!phys_to_higher_half_data(page) = HigherHalf + page
    BY <2>2, AddressNames
  <2>6. QED
    BY <1>1, <1>3, <2>2, <2>4, <2>5, Zenon DEF NULL
<1>4. QED
  BY <1>2, <1>3

\* The bits of a run below highest_page are its pages.
LEMMA RunInMemory ==
  ASSUME PmmInv, NEW page \in Nat, NEW count \in Nat \ {0}, page + count <= highest_page
  PROVE  P!RunBits(page, count) = page .. (page + count - 1)
<1>1. ASSUME NEW i \in 0 .. (count - 1)
      PROVE  P!BitOf(page + i) = page + i
  <2>1. page + i \in Nat /\ page + i < IntMod
    BY PmmTypes, PmmConstants DEF PmmInv
  <2>2. QED
    BY <2>1, RemainderSmall, PmmConstants DEF P!BitOf
<1>2. P!RunBits(page, count) = {page + i : i \in 0 .. (count - 1)}
  BY <1>1, Zenon DEF P!RunBits
<1>3. ASSUME NEW x \in page .. (page + count - 1)
      PROVE  x - page \in 0 .. (count - 1) /\ x = page + (x - page)
  OBVIOUS
<1>4. QED
  BY <1>2, <1>3

\* A run of pages of the pool ends below highest_page.
LEMMA RunOfPool ==
  ASSUME PmmInv, NEW page \in Nat, NEW count \in Nat \ {0},
         page .. (page + count - 1) \subseteq P!Pool
  PROVE  page >= 1 /\ page + count <= highest_page /\ page + count <= IntMod
<1>1. page \in P!Pool /\ page + count - 1 \in P!Pool
  OBVIOUS
<1>2. P!Pool \subseteq 1 .. (highest_page - 1) /\ 2 * highest_page <= IntMod
  BY DEF PmmInv
<1>3. highest_page \in Nat /\ IntMod \in Nat
  BY PmmTypes, PmmConstants
<1>4. page \in 1 .. (highest_page - 1) /\ page + count - 1 \in 1 .. (highest_page - 1)
  BY <1>1, <1>2
<1>5. QED
  BY <1>2, <1>3, <1>4

\* A free run of pages is marked and counted, or given back and not counted.
Marks(run) ==
  /\ P!Pool' = P!Pool /\ run \subseteq P!ClearBits /\ P!ClearBits' = P!ClearBits \ run
  /\ used_pages' = (used_pages + Cardinality(run)) % CounterMod
Frees(run) ==
  /\ P!Pool' = P!Pool /\ run \subseteq P!Pool \ P!ClearBits
  /\ P!ClearBits' = P!ClearBits \cup run
  /\ used_pages' = (used_pages - Cardinality(run)) % CounterMod

LEMMA RunCardinality ==
  ASSUME NEW page \in Nat, NEW count \in Nat \ {0}
  PROVE  Cardinality(page .. (page + count - 1)) = count
  <1>1. page + count - 1 \in Int /\ ~(page > page + count - 1)
        /\ (page + count - 1) - page + 1 = count
    OBVIOUS
  <1>. QED  BY <1>1, FS_Interval

\* pmm_alloc marks a free run.
LEMMA MarkRun ==
  ASSUME PmmInv, phase = "ready", NEW page \in Nat, NEW count \in Nat \ {0},
         page .. (page + count - 1) \subseteq P!ClearBits,
         UNCHANGED <<phase, memory_map, highest_page>>,
         bitmap' = P!SetBits(bitmap, P!RunBits(page, count)),
         stray' = (stray \/ P!Outside(bitmap, P!RunBits(page, count))),
         used_pages' = (used_pages + count) % CounterMod
  PROVE  /\ PmmInv' /\ P!Pool' = P!Pool
         /\ P!ClearBits' = P!ClearBits \ (page .. (page + count - 1))
         /\ Marks(page .. (page + count - 1))
<1> DEFINE run == page .. (page + count - 1)
<1>1. run \subseteq P!Pool
  BY DEF PmmInv
<1>2. P!RunBits(page, count) = run
  BY <1>1, RunOfPool, RunInMemory
<1>3. /\ bitmap \in [at : Nat, size : Nat, ones : SUBSET Nat]
      /\ P!BitsIn(bitmap.size) \in Nat
  BY PmmTypes
<1>4. bitmap' = [bitmap EXCEPT !.ones = @ \cup {x \in run : x < P!BitsIn(bitmap.size)}]
  BY <1>2 DEF P!SetBits
<1>5. bitmap' \in [at : Nat, size : Nat, ones : SUBSET Nat] /\ bitmap'.size = bitmap.size
      /\ bitmap'.ones = bitmap.ones \cup {x \in run : x < P!BitsIn(bitmap.size)}
  BY <1>3, <1>4
<1>6. P!ClearBits' = P!ClearBits \ run
  <2> HIDE DEF run
  <2>1. P!BitsIn(bitmap.size)' = P!BitsIn(bitmap.size)
    BY <1>5, SMT DEF P!BitsIn
  <2>2. P!ClearBits' = {x \in 0 .. (P!BitsIn(bitmap.size) - 1) : x \notin bitmap'.ones}
    BY <2>1, <1>5, Zenon DEF P!ClearBits, P!Covered, P!BitsIn
  <2>3. QED
    BY <1>3, <1>5, <2>2 DEF P!ClearBits, P!Covered
<1>7. used_pages' \in 0 .. (CounterMod - 1)
  <2>1. used_pages + count \in Int
    BY PmmTypes
  <2>2. QED
    BY <2>1, DivisionWithRemainder, PmmConstants
<1>8. stray' \in BOOLEAN
  BY Zenon
<1>9. P!TypeOK'
  <2>1. P!TypeOK
    BY DEF PmmInv
  <2>2. QED
    BY <2>1, <1>5, <1>7, <1>8, Zenon DEF P!TypeOK
<1>10. P!Pool' = P!Pool
  BY DEF P!Pool, P!UsablePages
<1>11. P!BitsIn(bitmap.size)' = P!BitsIn(bitmap.size)
  BY <1>5, SMT DEF P!BitsIn
<1>12. P!ClearBits' \subseteq P!Pool'
  BY <1>6, <1>10 DEF PmmInv
<1>13. PmmInv'
  BY <1>9, <1>10, <1>11, <1>12 DEF PmmInv
<1>14. Marks(run)
  <2>1. Cardinality(run) = count
    BY RunCardinality
  <2>2. QED
    BY <1>6, <1>10, <2>1 DEF Marks
<1>15. QED
  BY <1>6, <1>10, <1>13, <1>14

\* pmm_free clears the bits of a run of the pool.
LEMMA FreeRun ==
  ASSUME PmmInv, phase = "ready", NEW page \in Nat, NEW count \in Nat \ {0},
         page .. (page + count - 1) \subseteq P!Pool \ P!ClearBits,
         UNCHANGED <<phase, memory_map, highest_page>>,
         P!pmm_free(HigherHalf + page, count)
  PROVE  /\ PmmInv' /\ P!Pool' = P!Pool
         /\ P!ClearBits' = P!ClearBits \cup (page .. (page + count - 1))
         /\ Frees(page .. (page + count - 1))
<1> DEFINE run == page .. (page + count - 1)
<1>1. page + count <= highest_page /\ page \in 0 .. (IntMod - 1)
      /\ page + count <= P!BitsIn(bitmap.size)
  <2>1. page + count <= highest_page /\ page + count <= IntMod
    <3>1. page .. (page + count - 1) \subseteq P!Pool
      OBVIOUS
    <3>2. QED
      BY <3>1, RunOfPool
  <2>2. highest_page <= P!BitsIn(bitmap.size)
    BY DEF PmmInv
  <2>3. /\ highest_page \in Nat /\ P!BitsIn(bitmap.size) \in Nat /\ IntMod \in Nat
    BY PmmTypes, PmmConstants
  <2>4. QED
    BY <2>1, <2>2, <2>3
<1>2. P!RunBits(P!higher_half_data_to_phys(HigherHalf + page), count) = run
  BY <1>1, AddressNames, RunInMemory
<1>3. /\ bitmap \in [at : Nat, size : Nat, ones : SUBSET Nat]
      /\ P!BitsIn(bitmap.size) \in Nat
  BY PmmTypes
<1>4. /\ bitmap' = [bitmap EXCEPT !.ones = @ \ run]
      /\ stray' = (stray \/ P!Outside(bitmap, run))
      /\ used_pages' = (used_pages - count) % CounterMod
  BY <1>2 DEF P!pmm_free, P!UnsetBits
<1>5. bitmap' \in [at : Nat, size : Nat, ones : SUBSET Nat] /\ bitmap'.size = bitmap.size
      /\ bitmap'.ones = bitmap.ones \ run
  BY <1>3, <1>4
<1>6. P!BitsIn(bitmap.size)' = P!BitsIn(bitmap.size)
  BY <1>5, SMT DEF P!BitsIn
<1>7. P!ClearBits' = P!ClearBits \cup run
  <2>1. \A x \in run : x \in 0 .. (P!BitsIn(bitmap.size) - 1)
    BY <1>1, <1>3
  <2> HIDE DEF run
  <2>2. P!ClearBits' = {x \in 0 .. (P!BitsIn(bitmap.size) - 1) : x \notin bitmap'.ones}
    BY <1>5, Zenon DEF P!ClearBits, P!Covered, P!BitsIn
  <2>3. QED
    BY <1>3, <1>5, <2>1, <2>2 DEF P!ClearBits, P!Covered
<1>8. used_pages' \in 0 .. (CounterMod - 1)
  <2>1. used_pages - count \in Int
    BY PmmTypes
  <2>2. QED
    BY <1>4, <2>1, DivisionWithRemainder, PmmConstants
<1>9. stray' \in BOOLEAN
  BY <1>4, Zenon
<1>10. P!TypeOK'
  <2>1. P!TypeOK
    BY DEF PmmInv
  <2>2. QED
    BY <2>1, <1>5, <1>8, <1>9, Zenon DEF P!TypeOK
<1>11. P!Pool' = P!Pool
  BY DEF P!Pool, P!UsablePages
<1>12. P!ClearBits' \subseteq P!Pool'
  BY <1>7, <1>11 DEF PmmInv
<1>13. PmmInv'
  BY <1>6, <1>10, <1>11, <1>12 DEF PmmInv
<1>14. Frees(run)
  <2>1. Cardinality(run) = count
    BY RunCardinality
  <2>2. QED
    BY <1>4, <1>7, <1>11, <2>1 DEF Frees
<1>15. QED
  BY <1>7, <1>11, <1>13, <1>14

LEMMA EntryBelow ==
  ASSUME NEW base \in Nat, NEW length \in Nat, NEW top \in Nat, base + length <= top,
         NEW page \in base .. (base + length - 1)
  PROVE  page \in 0 .. (top - 1)
OBVIOUS

\* pmm_init leaves exactly the pool's bits clear.
LEMMA InitStep ==
  ASSUME BitmapsCover, PmmInv, P!pmm_init
  PROVE  PmmInv' /\ phase' = "ready" /\ P!ClearBits' = P!Pool'
<1> DEFINE span == P!BitmapPages(highest_page')
           new  == P!Shrink(memory_map, span)
           room == P!BitsIn(span * PageSize)
<1>1. /\ memory_map \in MemMaps /\ phase' = "ready" /\ memory_map' = new
      /\ highest_page' \in {0} \cup P!Tops(memory_map)
      /\ \A top \in P!Tops(memory_map) : top <= highest_page'
  BY DEF P!pmm_init, PmmInv
<1>2. memory_map \in Seq(P!Entry) /\ Bounded(memory_map)
  BY <1>1, InstancesAssumption DEF P!WellFormedMap, Bounded
<1>3. \A i \in DOMAIN memory_map : memory_map[i] \in P!Entry
  BY <1>2
<1>4. highest_page' \in Nat /\ 2 * highest_page' <= IntMod
  <2>1. ASSUME NEW i \in DOMAIN memory_map, memory_map[i].type # "other"
        PROVE  /\ memory_map[i].base + memory_map[i].length \in Nat
               /\ 2 * (memory_map[i].base + memory_map[i].length) <= IntMod
    <3>1. 2 * (memory_map[i].base + memory_map[i].length) <= IntMod
      BY <1>2, <2>1 DEF Bounded
    <3>2. QED
      BY <1>3, <3>1 DEF P!Entry
  <2>2. \A top \in P!Tops(memory_map) : top \in Nat /\ 2 * top <= IntMod
    BY <2>1 DEF P!Tops
  <2>3. CASE highest_page' = 0
    BY <2>3, PmmConstants
  <2>4. CASE highest_page' \in P!Tops(memory_map)
    BY <2>2, <2>4
  <2>5. QED
    BY <1>1, <2>3, <2>4
<1>5. span \in Nat
  BY <1>4, BitmapPagesType
<1>6. new \in Seq(P!Entry) /\ Bounded(new) /\ DOMAIN new = DOMAIN memory_map
      /\ \A i \in DOMAIN memory_map :
           /\ new[i].type = memory_map[i].type
           /\ new[i].base + new[i].length = memory_map[i].base + memory_map[i].length
  BY <1>2, <1>5, ShrinkKeepsEntries
<1>7. PICK at \in P!MapPointers(memory_map, span) :
        /\ bitmap' = P!ReserveNull(P!UnsetBits(P!BlankBitmap(at, span), P!FreedBits(new)))
        /\ stray' = P!Outside(P!BlankBitmap(at, span), P!FreedBits(new) \cup {0})
  BY DEF P!pmm_init
<1>8. at \in Nat
  <2>1. \A i \in DOMAIN memory_map : memory_map[i].base \in Nat
    BY <1>3 DEF P!Entry
  <2> DEFINE hosts == {memory_map[i].base : i \in {j \in DOMAIN memory_map :
                                                 P!IsHost(memory_map, span, j)}}
  <2>2. \A host \in hosts : host \in Nat
    BY <2>1
  <2>3. at \in (IF hosts = {} THEN {0} ELSE hosts)
    BY <1>7, Zenon DEF P!MapPointers, P!NULL
  <2> HIDE DEF hosts
  <2>4. QED
    BY <2>2, <2>3
<1>9. P!FreedBits(new) = P!UsablePages(new)
  BY <1>6, FreedBitsAreUsable
<1>10. span * PageSize \in Nat /\ room \in Nat
  <2>1. \A a, b \in Nat : a * b \in Nat
    OBVIOUS
  <2>2. room = ByteBits * (span * PageSize)
    BY SMT DEF P!BitsIn
  <2> HIDE DEF span, room
  <2>3. QED
    BY <1>5, <2>1, <2>2, PmmConstants
<1>11. bitmap' = [at |-> at, size |-> span * PageSize,
                  ones |-> ((0 .. (room - 1)) \ P!UsablePages(new)) \cup {x \in {0} : x < room}]
  <2> HIDE DEF new, span
  <2>1. QED
    BY <1>7, <1>9 DEF P!ReserveNull, P!UnsetBits, P!SetBits, P!BlankBitmap
<1>12. used_pages' \in 0 .. (CounterMod - 1)
  <2>1. P!Cardinality(P!UsablePages(new)) \in Nat
    BY <1>6, UsablePagesBounded
  <2>2. KbFactor * highest_page' \in Nat /\ CounterMod \in Nat \ {0}
    <3>1. \A a, b \in Nat : a * b \in Nat
      OBVIOUS
    <3>2. QED
      BY <1>4, <3>1, PmmConstants
  <2>3. used_pages' = (KbFactor * highest_page' - P!Cardinality(P!UsablePages(new)))
                        % CounterMod
    BY DEF P!pmm_init
  <2> HIDE DEF new
  <2>4. KbFactor * highest_page' - P!Cardinality(P!UsablePages(new)) \in Int
    BY <2>1, <2>2
  <2>5. QED
    BY <2>2, <2>3, <2>4, DivisionWithRemainder
<1>13. /\ bitmap' \in [at : Nat, size : Nat, ones : SUBSET Nat]
       /\ bitmap'.size = span * PageSize
       /\ bitmap'.ones = ((0 .. (room - 1)) \ P!UsablePages(new)) \cup {x \in {0} : x < room}
  <2> HIDE DEF span, new, room
  <2>1. QED
    BY <1>8, <1>10, <1>11
<1>14. stray' \in BOOLEAN
  BY <1>7 DEF P!Outside
<1>15. P!TypeOK'
  <2>1. P!TypeOK
    BY DEF PmmInv
  <2> HIDE DEF span, new, room
  <2>2. QED
    BY <2>1, <1>1, <1>4, <1>6, <1>12, <1>13, <1>14, Zenon DEF P!TypeOK
<1>16. highest_page' <= room
  <2>1. CASE highest_page' = 0
    BY <1>10, <2>1
  <2>2. CASE highest_page' \in P!Tops(memory_map)
    BY <1>1, <2>2 DEF BitmapsCover
  <2>3. QED
    BY <1>1, <2>1, <2>2
<1>17. P!UsablePages(new) \subseteq 0 .. (highest_page' - 1)
  <2>1. ASSUME NEW i \in DOMAIN new, new[i].type = "usable", NEW page \in P!EntryPages(new[i])
        PROVE  page \in 0 .. (highest_page' - 1)
    <3>1. new[i].base \in Nat /\ new[i].length \in Nat
      <4>1. new[i] \in P!Entry
        BY <1>6, <2>1
      <4>2. QED
        BY <4>1 DEF P!Entry
    <3>2. new[i].base + new[i].length <= highest_page'
      BY <1>1, <1>6, <2>1 DEF P!Tops
    <3>3. page \in new[i].base .. (new[i].base + new[i].length - 1)
      BY <2>1 DEF P!EntryPages
    <3> HIDE DEF new
    <3>4. QED
      BY <1>4, <3>1, <3>2, <3>3, EntryBelow
  <2> HIDE DEF new
  <2>2. QED
    BY <2>1 DEF P!UsablePages
<1>18. P!Pool' = P!UsablePages(new) \ {0}
  BY <1>1 DEF P!Pool
<1>19. P!BitsIn(bitmap.size)' = room
  BY <1>13, SMT DEF P!BitsIn
<1>20. P!ClearBits' = P!Pool'
  <2> HIDE DEF span, new, room
  <2>1. P!ClearBits' = {x \in 0 .. (room - 1) : x \notin bitmap'.ones}
    BY <1>19 DEF P!ClearBits, P!Covered
  <2>2. QED
    BY <1>4, <1>10, <1>13, <1>16, <1>17, <1>18, <2>1
<1>21. P!Pool' \subseteq 1 .. (highest_page' - 1)
  <2> HIDE DEF new
  <2>1. QED
    BY <1>4, <1>17, <1>18
<1>22. PmmInv'
  <2> HIDE DEF span, new, room
  <2>1. QED
    BY <1>1, <1>4, <1>15, <1>16, <1>19, <1>20, <1>21 DEF PmmInv
<1>23. QED
  BY <1>1, <1>20, <1>22
----------------------------------------------------------------------------
(* The inductive invariant.                                                *)

\* The slabs' pages are pages of memory, and no page was taken twice.
SlabPagesOK ==
  /\ pages \in Seq(Nat) /\ Len(pages) <= SlabPages
  /\ phase = "boot" => pages = <<>>
  /\ \A k \in DOMAIN pages : \E page \in 1 .. (highest_page - 1) : pages[k] = Address(page)
  /\ \A k, l \in DOMAIN pages : k # l => pages[k] # pages[l]

\* Slab i lies in one of the pages, as the part with its number modulo the
\* slabs of a page.
SlabPage(i) == (i \div (PageSize \div MaxSlabSize)) + 1
SlabPart(i) == (i % (PageSize \div MaxSlabSize)) * MaxSlabSize

\* Slab i is the last one of its page.
EndsPage(i) == SlabPart(i) + MaxSlabSize = PageSize

\* Each slab lies in one page, and the bytes of two slabs are disjoint.
InPage(i, k) ==
  /\ pages[k] <= slabs[i].start /\ slabs[i].start + MaxSlabSize <= pages[k] + PageSize
  /\ slabs[i].start + MaxSlabSize < pages[k] + PageSize \/ EndsPage(i)
SlabsLaidOut ==
  SlabsReady =>
    /\ \A i \in S!Slabs : \E k \in DOMAIN pages : InPage(i, k)
    /\ \A i \in S!Slabs : slabs[i].end = slabs[i].start + RangeBytes - Size[i]
    /\ \A i, j \in S!Slabs : i # j => \/ slabs[i].start + MaxSlabSize <= slabs[j].start
                                      \/ slabs[j].start + MaxSlabSize <= slabs[i].start

\* No object lies in two slots.
FreeOnce ==
  \A i \in S!Slabs : \A s, t \in S!Slots(i) :
    s # t /\ slabs[i].objects[s] # NULL => slabs[i].objects[s] # slabs[i].objects[t]

\* A small block is made from an object of the slab for its size, which is
\* in no slot, or from the NULL that slab_alloc returned.
Small(c) == held[c] # NoBlock /\ ~IsBig(held[c].size)
Object(c) == held[c].pointer - MetaBytes
IsTaken(c, i) == Object(c) \in S!ObjectsOf(i) \ S!FreeObjects(i)
SmallBlocksOK ==
  \A c \in Clients : Small(c) =>
    \/ Object(c) = NULL
    \/ \E i \in S!Slabs : Size[i] = next_pow_of_two(held[c].size + MetaBytes) /\ IsTaken(c, i)
SmallOnce ==
  \A c, d \in Clients :
    c # d /\ Small(c) /\ Small(d) /\ Object(c) # NULL => Object(c) # Object(d)

\* A big block lies behind the page of its metadata, which still holds what
\* big_alloc wrote there.
BigBlocksOK ==
  \A c \in Clients : held[c] # NoBlock /\ IsBig(held[c].size) =>
    \E page \in 1 .. (highest_page - 1) :
      /\ held[c].pointer = Address(page) + PageSize
      /\ Address(page) \in DOMAIN metadata
      /\ metadata[Address(page)] = next_pow_of_two(held[c].size)

\* Each page of the pool that is marked has one owner.
Accounting ==
  /\ P!Pool \ P!ClearBits = SlabPageSet \cup UNION {BlockPages(c) : c \in Holders}
  /\ \A c \in Holders : BlockPages(c) \cap SlabPageSet = {}
  /\ \A c, d \in Holders : c # d => BlockPages(c) \cap BlockPages(d) = {}

BlocksTyped ==
  /\ DOMAIN metadata \subseteq Nat
  /\ \A a \in DOMAIN metadata : metadata[a] \in {2 ^ k : k \in 1 .. MaxPower}
  /\ held \in [Clients -> [pointer : Nat, size : Requests \cup {0}]]
  /\ \A c \in Holders : held[c].size \in Requests
  /\ ~SlabsReady => Holders = {}

KmallocInv ==
  /\ PmmInv /\ SlabPagesOK /\ S!TypeOK /\ SlabsLaidOut /\ FreeOnce
  /\ SmallBlocksOK /\ SmallOnce /\ BigBlocksOK /\ Accounting /\ BlocksTyped
----------------------------------------------------------------------------
(* Objects and slabs: what SlabProofs shows of Slab, for the instance S.   *)

\* The objects of a slab fill its bytes.
LEMMA ObjectsFit ==
  ASSUME NEW i \in S!Slabs, NEW slot \in S!Slots(i)
  PROVE  /\ slot \in Nat /\ slot * Size[i] \in Nat
         /\ slot * Size[i] + Size[i] <= MaxSlabSize
         /\ (slot * Size[i] + Size[i]) % Size[i] = 0
  BY PartsFit, SlabConstants DEF S!Slots

\* An object of a slab lies in the slab's bytes, on the boundary slab_free
\* tests.
LEMMA ObjectsInside ==
  ASSUME S!TypeOK, NEW i \in S!Slabs, NEW p \in S!ObjectsOf(i)
  PROVE  /\ p \in Nat /\ Size[i] \in Nat \ {0} /\ slabs[i].start \in Nat
         /\ slabs[i].start <= p /\ p + Size[i] <= slabs[i].start + MaxSlabSize
         /\ (p - slabs[i].start + Size[i]) % Size[i] = 0
  <1>1. slabs[i].start \in Nat /\ Size[i] \in Nat \ {0} /\ MaxSlabSize \in Nat
    BY SlabConstants DEF S!TypeOK
  <1>2. PICK slot \in S!Slots(i) : p = slabs[i].start + slot * Size[i]
    BY DEF S!ObjectsOf
  <1>3. /\ slot * Size[i] \in Nat /\ slot * Size[i] + Size[i] <= MaxSlabSize
        /\ (slot * Size[i] + Size[i]) % Size[i] = 0
    BY ObjectsFit
  <1>. DEFINE off == slot * Size[i]
  <1>4. p = slabs[i].start + off /\ off \in Nat /\ off + Size[i] <= MaxSlabSize
        /\ (off + Size[i]) % Size[i] = 0
    BY <1>2, <1>3
  <1>. HIDE DEF off
  <1>5. p - slabs[i].start + Size[i] = off + Size[i]
    BY <1>1, <1>4
  <1>. QED  BY <1>1, <1>4, <1>5

\* Two objects of a slab that differ have no byte in common.
LEMMA ObjectsApart ==
  ASSUME S!TypeOK, NEW i \in S!Slabs, NEW p \in S!ObjectsOf(i), NEW q \in S!ObjectsOf(i), p # q
  PROVE  p + Size[i] <= q \/ q + Size[i] <= p
  <1>1. slabs[i].start \in Nat /\ Size[i] \in Nat \ {0}
    BY SlabConstants DEF S!TypeOK
  <1>2. PICK s \in S!Slots(i) : p = slabs[i].start + s * Size[i]
    BY DEF S!ObjectsOf
  <1>3. PICK t \in S!Slots(i) : q = slabs[i].start + t * Size[i]
    BY DEF S!ObjectsOf
  <1>4. s \in Nat /\ t \in Nat /\ s * Size[i] \in Nat /\ t * Size[i] \in Nat
    BY ObjectsFit
  <1>5. s # t
    BY <1>2, <1>3
  <1>6. CASE s < t
    <2>1. s * Size[i] + Size[i] <= t * Size[i]
      BY <1>1, <1>4, <1>6, ProductGap
    <2>. QED  BY <1>1, <1>2, <1>3, <1>4, <2>1
  <1>7. CASE t < s
    <2>1. t * Size[i] + Size[i] <= s * Size[i]
      BY <1>1, <1>4, <1>7, ProductGap
    <2>. QED  BY <1>1, <1>2, <1>3, <1>4, <2>1
  <1>. QED  BY <1>4, <1>5, <1>6, <1>7

\* An address is an object of one slab at most.
LEMMA SlabOfObject ==
  ASSUME S!TypeOK, SlabsLaidOut, SlabsReady, NEW i \in S!Slabs, NEW j \in S!Slabs, i # j,
         NEW p \in S!ObjectsOf(i)
  PROVE  p \notin S!ObjectsOf(j) /\ ~S!IsObjectOf(j, p)
  <1>1. /\ p \in Nat /\ Size[i] \in Nat \ {0} /\ slabs[i].start \in Nat
        /\ slabs[i].start <= p /\ p + Size[i] <= slabs[i].start + MaxSlabSize
    BY ObjectsInside
  <1>2. /\ slabs[j].start \in Nat /\ Size[j] \in Nat /\ Size[j] >= 1
        /\ RangeBytes \in Nat /\ RangeBytes <= MaxSlabSize /\ MaxSlabSize \in Nat
    BY SlabConstants DEF S!TypeOK
  <1>3. slabs[j].end = slabs[j].start + RangeBytes - Size[j]
    BY DEF SlabsLaidOut
  <1>4. \/ slabs[i].start + MaxSlabSize <= slabs[j].start
        \/ slabs[j].start + MaxSlabSize <= slabs[i].start
    BY DEF SlabsLaidOut
  <1>5. ~(slabs[j].start <= p /\ p + 1 <= slabs[j].start + MaxSlabSize)
    BY <1>1, <1>2, <1>4
  <1>6. p \notin S!ObjectsOf(j)
    <2>1. SUFFICES ASSUME p \in S!ObjectsOf(j) PROVE FALSE
      OBVIOUS
    <2>2. slabs[j].start <= p /\ p + Size[j] <= slabs[j].start + MaxSlabSize
      BY <2>1, ObjectsInside
    <2>3. p + 1 <= slabs[j].start + MaxSlabSize
      BY <1>1, <1>2, <2>2
    <2>. QED  BY <1>5, <2>2, <2>3
  <1>7. ~S!IsObjectOf(j, p)
    <2>1. SUFFICES ASSUME slabs[j].start <= p, p <= slabs[j].end PROVE FALSE
      BY DEF S!IsObjectOf
    <2>. QED  BY <1>1, <1>2, <1>3, <1>5, <2>1
  <1>. QED  BY <1>6, <1>7

\* A slot that is not NULL holds an object of its slab, a free one.
LEMMA SlotObjects ==
  ASSUME S!TypeOK, NEW i \in S!Slabs
  PROVE  /\ S!FreeObjects(i) \subseteq S!ObjectsOf(i)
         /\ \A slot \in S!Slots(i) : slabs[i].objects[slot] \in S!FreeObjects(i) \cup {NULL}
  <1>1. slabs[i].objects \in [S!Slots(i) -> {NULL} \cup S!ObjectsOf(i)]
    BY DEF S!TypeOK, NULL, S!NULL
  <1>. QED  BY <1>1 DEF S!FreeObjects, NULL, S!NULL

\* find_allocated_object finds one slot if there is one.
LEMMA FirstNullSlot ==
  ASSUME S!TypeOK, NEW i \in S!Slabs, ~S!AllFree(i)
  PROVE  \E slot \in S!Slots(i) : \A other \in S!Slots(i) :
           S!find_allocated_object(i, other) <=> other = slot
  <1>. DEFINE Null == {slot \in S!Slots(i) : slabs[i].objects[slot] = NULL}
  <1>1. S!Slots(i) \subseteq Nat
    BY ObjectsFit
  <1>2. Null # {} /\ Null \subseteq Nat
    BY <1>1 DEF S!AllFree, NULL, S!NULL
  <1>3. PICK slot \in Null : \A other \in Null : ~(<<other, slot>> \in OpToRel(<, Nat))
    BY <1>2, NatLessThanWellFounded, WFMin
  <1>4. \A other \in Null : ~(other < slot)
    BY <1>1, <1>3 DEF OpToRel
  <1>5. \A other \in S!Slots(i) : S!find_allocated_object(i, other) <=> other = slot
    <2>. TAKE other \in S!Slots(i)
    <2>1. other \in Nat /\ slot \in Nat /\ slot \in S!Slots(i)
      BY <1>1
    <2>2. slabs[i].objects[slot] = NULL
      OBVIOUS
    <2>3. S!find_allocated_object(i, slot)
      BY <1>4, <2>2 DEF S!find_allocated_object, NULL, S!NULL
    <2>4. ASSUME S!find_allocated_object(i, other) PROVE other = slot
      <3>1. slabs[i].objects[other] = NULL /\ ~(slot < other)
        BY <2>1, <2>2, <2>4 DEF S!find_allocated_object, NULL, S!NULL
      <3>2. ~(other < slot)
        BY <1>4, <3>1
      <3>. QED  BY <2>1, <3>1, <3>2
    <2>. QED  BY <2>3, <2>4
  <1>. QED  BY <1>5

\* Objects that differ, of one slab or of two, have no byte in common.
LEMMA DistinctObjectsDisjoint ==
  ASSUME S!TypeOK, SlabsLaidOut, SlabsReady, NEW i \in S!Slabs, NEW j \in S!Slabs,
         NEW p \in S!ObjectsOf(i), NEW q \in S!ObjectsOf(j), p # q
  PROVE  S!Bytes(p, Size[i]) \cap S!Bytes(q, Size[j]) = {}
  <1>1. /\ p \in Nat /\ Size[i] \in Nat /\ slabs[i].start \in Nat
        /\ slabs[i].start <= p /\ p + Size[i] <= slabs[i].start + MaxSlabSize
    BY ObjectsInside
  <1>2. /\ q \in Nat /\ Size[j] \in Nat /\ slabs[j].start \in Nat
        /\ slabs[j].start <= q /\ q + Size[j] <= slabs[j].start + MaxSlabSize
    BY ObjectsInside
  <1>3. MaxSlabSize \in Nat
    BY SlabConstants
  <1>4. p + Size[i] <= q \/ q + Size[j] <= p
    <2>1. CASE i = j
      BY <2>1, ObjectsApart
    <2>2. CASE i # j
      <3>1. \/ slabs[i].start + MaxSlabSize <= slabs[j].start
            \/ slabs[j].start + MaxSlabSize <= slabs[i].start
        BY <2>2 DEF SlabsLaidOut
      <3>2. CASE slabs[i].start + MaxSlabSize <= slabs[j].start
        <4>1. p + Size[i] <= slabs[j].start
          BY <1>1, <1>2, <1>3, <3>2
        <4>. QED  BY <1>1, <1>2, <4>1
      <3>3. CASE slabs[j].start + MaxSlabSize <= slabs[i].start
        <4>1. q + Size[j] <= slabs[i].start
          BY <1>1, <1>2, <1>3, <3>3
        <4>. QED  BY <1>1, <1>2, <4>1
      <3>. QED  BY <3>1, <3>2, <3>3
    <2>. QED  BY <2>1, <2>2
  <1>. QED  BY <1>1, <1>2, <1>4 DEF S!Bytes
----------------------------------------------------------------------------
(* S!slab_init.                                                              *)

LEMMA SlabsPerPage ==
  /\ PageSize \div MaxSlabSize \in Nat \ {0}
  /\ PageSize = MaxSlabSize * (PageSize \div MaxSlabSize)
  <1>. DEFINE n == PageSize \div MaxSlabSize
  <1>1. /\ PageSize \in Nat \ {0} /\ MaxSlabSize \in Nat \ {0}
        /\ PageSize % MaxSlabSize = 0
    BY SlabConstants
  <1>2. n \in Int /\ PageSize = MaxSlabSize * n
    BY <1>1, DivisionWithRemainder
  <1>. HIDE DEF n
  <1>3. n \in Nat \ {0}
    <2>1. CASE n <= 0
      <3>1. MaxSlabSize * n <= 0
        BY <1>1, <1>2, <2>1
      <3>. QED  BY <1>1, <1>2, <3>1
    <2>2. CASE n >= 1
      BY <1>2, <2>2
    <2>. QED  BY <1>2, <2>1, <2>2
  <1>. QED  BY <1>2, <1>3 DEF n

LEMMA SlabsInPages ==
  ASSUME NEW supply \in Seq(Nat), Len(supply) = SlabPages, NEW i \in S!Slabs
  PROVE  /\ SlabPage(i) \in DOMAIN supply /\ supply[SlabPage(i)] \in Nat
         /\ SlabPart(i) \in Nat /\ SlabPart(i) + MaxSlabSize <= PageSize
  <1>. DEFINE n == PageSize \div MaxSlabSize
  <1>1. n \in Nat \ {0} /\ PageSize = MaxSlabSize * n
    BY SlabsPerPage
  <1>2. /\ supply \in Seq(Nat) /\ SlabCount * MaxSlabSize <= Len(supply) * PageSize
        /\ Len(supply) \in Nat /\ DOMAIN supply = 1 .. Len(supply)
    BY KmallocAssumption
  <1>3. /\ i \in Nat /\ i < SlabCount /\ SlabCount \in Nat
        /\ MaxSlabSize \in Nat \ {0} /\ PageSize \in Nat
    BY SlabConstants DEF S!Slabs
  <1>4. \A part \in 0 .. (n - 1) : /\ part * MaxSlabSize \in Nat
                                   /\ part * MaxSlabSize + MaxSlabSize <= PageSize
    BY SlabConstants, PartsFit
  <1>. HIDE DEF n
  <1>5. SlabCount <= n * Len(supply)
    <2>1. Len(supply) * PageSize = (n * Len(supply)) * MaxSlabSize
      BY <1>1, <1>2, <1>3
    <2>2. n * Len(supply) \in Int
      BY <1>1, <1>2
    <2>. DEFINE whole == n * Len(supply)
    <2>3. whole \in Int /\ SlabCount * MaxSlabSize <= whole * MaxSlabSize
      BY <1>2, <2>1, <2>2
    <2>. HIDE DEF whole
    <2>4. SlabCount <= whole
      BY <1>3, <2>3, CancelFactor
    <2>. QED  BY <2>4 DEF whole
  <1>6. i < n * Len(supply)
    <2>1. n * Len(supply) \in Int
      BY <1>1, <1>2
    <2>. QED  BY <1>3, <1>5, <2>1
  <1>7. i \div n \in 0 .. (Len(supply) - 1) /\ i % n \in 0 .. (n - 1)
    BY <1>1, <1>2, <1>3, <1>6, QuotientBelow
  <1>8. (i \div n) + 1 \in DOMAIN supply /\ supply[(i \div n) + 1] \in Nat
    BY <1>2, <1>7
  <1>. QED  BY <1>4, <1>7, <1>8 DEF SlabPage, SlabPart, n

\* Two slabs lie in different pages or in different parts of one.
LEMMA SlabsInDifferentPlaces ==
  ASSUME NEW i \in S!Slabs, NEW j \in S!Slabs, i # j, SlabPage(i) = SlabPage(j)
  PROVE  SlabPart(i) + MaxSlabSize <= SlabPart(j) \/ SlabPart(j) + MaxSlabSize <= SlabPart(i)
  <1>. DEFINE n == PageSize \div MaxSlabSize
              r == i % n
              s == j % n
  <1>1. n \in Nat \ {0} /\ i \in Int /\ j \in Int /\ MaxSlabSize \in Nat
    BY SlabsPerPage, SlabConstants DEF S!Slabs
  <1>2. /\ i \div n \in Int /\ r \in 0 .. (n - 1) /\ i = n * (i \div n) + r
        /\ j \div n \in Int /\ s \in 0 .. (n - 1) /\ j = n * (j \div n) + s
    BY <1>1, DivisionWithRemainder
  <1>3. i \div n = j \div n
    BY <1>2 DEF SlabPage
  <1>4. SlabPart(i) = r * MaxSlabSize /\ SlabPart(j) = s * MaxSlabSize
    BY DEF SlabPart
  <1>. DEFINE q == i \div n
              p == j \div n
  <1>5. /\ q = p /\ q \in Int /\ r \in 0 .. (n - 1) /\ s \in 0 .. (n - 1)
        /\ i = n * q + r /\ j = n * p + s
    BY <1>2, <1>3
  <1>. HIDE DEF n, q, p, r, s
  <1>6. r # s
    BY <1>5
  <1>7. r \in Int /\ s \in Int
    BY <1>1, <1>5
  <1>8. CASE r < s
    BY <1>1, <1>4, <1>7, <1>8, ProductGap
  <1>9. CASE s < r
    BY <1>1, <1>4, <1>7, <1>9, ProductGap
  <1>. QED  BY <1>6, <1>7, <1>8, <1>9

LEMMA ObjectPlace ==
  ASSUME NEW supply \in Seq(Nat), Len(supply) = SlabPages, NEW i \in S!Slabs
  PROVE  /\ S!ObjectAt(supply, i, 0) = supply[SlabPage(i)] + SlabPart(i)
         /\ \A slot \in S!Slots(i) :
              S!ObjectAt(supply, i, slot) = S!ObjectAt(supply, i, 0) + slot * Size[i]
  <1>1. supply[SlabPage(i)] \in Nat /\ SlabPart(i) \in Nat /\ Size[i] \in Nat
    BY SlabsInPages, SlabConstants
  <1>2. \A slot : S!ObjectAt(supply, i, slot) = supply[SlabPage(i)] + SlabPart(i) + slot * Size[i]
    BY DEF S!ObjectAt, SlabPage, SlabPart
  <1>3. S!ObjectAt(supply, i, 0) = supply[SlabPage(i)] + SlabPart(i)
    BY <1>1, <1>2
  <1>. QED  BY <1>2, <1>3
----------------------------------------------------------------------------
(* slab_alloc and slab_free.                                               *)

\* After slab_init no operation moves a slab.
LayoutKept ==
  /\ DOMAIN slabs' = S!Slabs
  /\ \A i \in S!Slabs : slabs'[i].start = slabs[i].start /\ slabs'[i].end = slabs[i].end
  /\ \A i \in S!Slabs : S!ObjectsOf(i)' = S!ObjectsOf(i)

\* Slab i keeps its range, and its slots get the values of objects.
SlotsSet(i, objects) ==
  /\ DOMAIN slabs' = S!Slabs
  /\ \A j \in S!Slabs \ {i} : slabs'[j] = slabs[j]
  /\ \E flag \in BOOLEAN : slabs'[i] = [slabs[i] EXCEPT !.is_full = flag, !.objects = objects]

LEMMA SlotsChange ==
  ASSUME S!TypeOK, NEW i \in S!Slabs,
         NEW objects \in [S!Slots(i) -> {NULL} \cup S!ObjectsOf(i)],
         SlotsSet(i, objects)
  PROVE  /\ LayoutKept /\ S!TypeOK'
         /\ \A j \in S!Slabs \ {i} : /\ slabs'[j].objects = slabs[j].objects
                                     /\ S!FreeObjects(j)' = S!FreeObjects(j)
         /\ slabs'[i].objects = objects
         /\ S!FreeObjects(i)' = {objects[slot] : slot \in S!Slots(i)} \ {NULL}
  <1>1. /\ DOMAIN slabs = S!Slabs
        /\ \A j \in S!Slabs :
             slabs[j] \in [is_full : BOOLEAN, start : Nat, end : Nat,
                           objects : [S!Slots(j) -> {NULL} \cup S!ObjectsOf(j)]]
    BY DEF S!TypeOK, NULL, S!NULL
  <1>2. PICK flag \in BOOLEAN :
          slabs'[i] = [slabs[i] EXCEPT !.is_full = flag, !.objects = objects]
    BY DEF SlotsSet
  <1>3. /\ slabs'[i].start = slabs[i].start /\ slabs'[i].end = slabs[i].end
        /\ slabs'[i].objects = objects
        /\ slabs'[i] \in [is_full : BOOLEAN, start : Nat, end : Nat,
                          objects : [S!Slots(i) -> {NULL} \cup S!ObjectsOf(i)]]
    <2>. DEFINE slab == slabs[i]
    <2>1. /\ slab \in [is_full : BOOLEAN, start : Nat, end : Nat,
                       objects : [S!Slots(i) -> {NULL} \cup S!ObjectsOf(i)]]
          /\ slabs'[i] = [slab EXCEPT !.is_full = flag, !.objects = objects]
      BY <1>1, <1>2
    <2>. HIDE DEF slab
    <2>2. /\ slabs'[i].start = slab.start /\ slabs'[i].end = slab.end
          /\ slabs'[i].objects = objects
          /\ slabs'[i] \in [is_full : BOOLEAN, start : Nat, end : Nat,
                            objects : [S!Slots(i) -> {NULL} \cup S!ObjectsOf(i)]]
      BY <2>1
    <2>. QED  BY <2>2 DEF slab
  <1>4. \A j \in S!Slabs \ {i} : slabs'[j] = slabs[j]
    BY DEF SlotsSet
  <1>5. ASSUME NEW j \in S!Slabs
        PROVE  /\ slabs'[j].start = slabs[j].start /\ slabs'[j].end = slabs[j].end
               /\ slabs'[j] \in [is_full : BOOLEAN, start : Nat, end : Nat,
                                 objects : [S!Slots(j) -> {NULL} \cup S!ObjectsOf(j)]]
    <2>1. CASE j = i
      BY <1>3, <2>1
    <2>2. CASE j # i
      BY <1>1, <1>4, <2>2
    <2>. QED  BY <2>1, <2>2
  <1>6. \A j \in S!Slabs : S!ObjectsOf(j)' = S!ObjectsOf(j)
    BY <1>5 DEF S!ObjectsOf
  <1>7. LayoutKept
    BY <1>5, <1>6 DEF LayoutKept, SlotsSet
  <1>8. S!TypeOK'
    <2>1. \A j \in S!Slabs :
            slabs'[j] \in [is_full : BOOLEAN, start : Nat, end : Nat,
                           objects : [S!Slots(j) -> {NULL} \cup S!ObjectsOf(j)']]
      BY <1>5, <1>6
    <2>. QED  BY <1>7, <2>1 DEF S!TypeOK, LayoutKept, NULL, S!NULL
  <1>9. \A j \in S!Slabs \ {i} : /\ slabs'[j].objects = slabs[j].objects
                                 /\ S!FreeObjects(j)' = S!FreeObjects(j)
    BY <1>4 DEF S!FreeObjects
  <1>10. S!FreeObjects(i)' = {objects[slot] : slot \in S!Slots(i)} \ {NULL}
    BY <1>3 DEF S!FreeObjects, NULL, S!NULL
  <1>. QED  BY <1>3, <1>7, <1>8, <1>9, <1>10

\* slab_alloc returns NULL, or a free object of the slab of that size, which
\* is in no slot afterwards.
LEMMA SlabAllocates ==
  ASSUME S!TypeOK, FreeOnce, NEW size, NEW pointer, S!slab_alloc(size, pointer)
  PROVE  /\ LayoutKept /\ S!TypeOK' /\ FreeOnce'
         /\ \A j \in S!Slabs : S!FreeObjects(j)' \subseteq S!FreeObjects(j)
         /\ \/ pointer = NULL
            \/ \E i \in S!Slabs : /\ Size[i] = size /\ pointer # NULL
                                  /\ pointer \in S!FreeObjects(i) \ S!FreeObjects(i)'
  <1>1. /\ DOMAIN slabs = S!Slabs
        /\ \A j \in S!Slabs :
             slabs[j] \in [is_full : BOOLEAN, start : Nat, end : Nat,
                           objects : [S!Slots(j) -> {NULL} \cup S!ObjectsOf(j)]]
    BY DEF S!TypeOK, NULL, S!NULL
  <1>2. CASE slabs' = slabs /\ pointer = NULL
    <2>1. LayoutKept /\ FreeOnce'
      BY <1>1, <1>2 DEF LayoutKept, S!ObjectsOf, FreeOnce
    <2>2. \A j \in S!Slabs : S!FreeObjects(j)' = S!FreeObjects(j)
      BY <1>2 DEF S!FreeObjects
    <2>3. S!TypeOK'
      BY <1>2 DEF S!TypeOK, S!ObjectsOf
    <2>. QED  BY <1>2, <2>1, <2>2, <2>3
  <1>3. ASSUME NEW i \in S!Slabs, slabs' = [slabs EXCEPT ![i].is_full = TRUE], pointer = NULL
        PROVE  /\ LayoutKept /\ S!TypeOK' /\ FreeOnce'
               /\ \A j \in S!Slabs : S!FreeObjects(j)' \subseteq S!FreeObjects(j)
    <2>. DEFINE objects == slabs[i].objects
    <2>1. objects \in [S!Slots(i) -> {NULL} \cup S!ObjectsOf(i)]
      BY <1>1
    <2>2. slabs'[i] = [slabs[i] EXCEPT !.is_full = TRUE, !.objects = objects]
      <3>. DEFINE slab == slabs[i]
      <3>1. /\ slab \in [is_full : BOOLEAN, start : Nat, end : Nat,
                         objects : [S!Slots(i) -> {NULL} \cup S!ObjectsOf(i)]]
            /\ slabs'[i] = [slab EXCEPT !.is_full = TRUE]
        BY <1>1, <1>3
      <3>. HIDE DEF slab
      <3>2. slabs'[i] = [slab EXCEPT !.is_full = TRUE, !.objects = slab.objects]
        BY <3>1
      <3>. QED  BY <3>2 DEF slab
    <2>3. SlotsSet(i, objects)
      BY <1>1, <1>3, <2>2 DEF SlotsSet
    <2>4. S!FreeObjects(i) = {objects[slot] : slot \in S!Slots(i)} \ {NULL}
      BY DEF S!FreeObjects, NULL, S!NULL
    <2>5. FreeOnce'
      <3>. HIDE DEF objects
      <3>1. \A j \in S!Slabs : slabs'[j].objects = slabs[j].objects
        BY <2>1, <2>3, SlotsChange DEF objects
      <3>. QED  BY <3>1 DEF FreeOnce
    <2>. HIDE DEF objects
    <2>. QED  BY <2>1, <2>3, <2>4, <2>5, SlotsChange
  <1>4. ASSUME NEW i \in S!Slabs, NEW slot \in S!Slots(i), Size[i] = size,
               S!find_free_object(i, slot), pointer = slabs[i].objects[slot],
               slabs' = [slabs EXCEPT ![i].objects[slot] = S!NULL]
        PROVE  /\ LayoutKept /\ S!TypeOK' /\ FreeOnce'
               /\ \A j \in S!Slabs : S!FreeObjects(j)' \subseteq S!FreeObjects(j)
               /\ pointer # NULL /\ pointer \in S!FreeObjects(i) \ S!FreeObjects(i)'
    <2>. DEFINE objects == [slabs[i].objects EXCEPT ![slot] = NULL]
    <2>1. objects \in [S!Slots(i) -> {NULL} \cup S!ObjectsOf(i)]
      BY <1>1
    <2>2. slabs'[i] = [slabs[i] EXCEPT !.is_full = slabs[i].is_full, !.objects = objects]
      <3>. DEFINE slab == slabs[i]
      <3>1. /\ slab \in [is_full : BOOLEAN, start : Nat, end : Nat,
                         objects : [S!Slots(i) -> {NULL} \cup S!ObjectsOf(i)]]
            /\ slabs'[i] = [slab EXCEPT !.objects[slot] = NULL]
        BY <1>1, <1>4 DEF NULL, S!NULL
      <3>. HIDE DEF slab
      <3>2. slabs'[i] = [slab EXCEPT !.is_full = slab.is_full,
                                     !.objects = [slab.objects EXCEPT ![slot] = NULL]]
        BY <3>1
      <3>. QED  BY <3>2 DEF slab
    <2>3. SlotsSet(i, objects)
      <3>1. slabs[i].is_full \in BOOLEAN
        BY <1>1
      <3>. QED  BY <1>1, <1>4, <2>2, <3>1 DEF SlotsSet
    <2>4. slabs[i].objects \in [S!Slots(i) -> {NULL} \cup S!ObjectsOf(i)]
      BY <1>1
    <2>5. /\ objects[slot] = NULL
          /\ \A s \in S!Slots(i) \ {slot} : objects[s] = slabs[i].objects[s]
      BY <2>4
    <2>6. pointer # NULL /\ pointer \in S!FreeObjects(i)
      BY <1>4 DEF S!find_free_object, S!FreeObjects, NULL, S!NULL
    <2>. HIDE DEF objects
    <2>7. /\ LayoutKept /\ S!TypeOK'
          /\ \A j \in S!Slabs \ {i} : /\ slabs'[j].objects = slabs[j].objects
                                      /\ S!FreeObjects(j)' = S!FreeObjects(j)
          /\ slabs'[i].objects = objects
          /\ S!FreeObjects(i)' = {objects[s] : s \in S!Slots(i)} \ {NULL}
      BY <2>1, <2>3, SlotsChange
    <2>8. S!FreeObjects(i)' \subseteq S!FreeObjects(i)
      <3>1. S!FreeObjects(i) = {slabs[i].objects[s] : s \in S!Slots(i)} \ {NULL}
        BY DEF S!FreeObjects, NULL, S!NULL
      <3>. QED  BY <2>5, <2>7, <3>1
    <2>9. pointer \notin S!FreeObjects(i)'
      <3>1. \A s \in S!Slots(i) \ {slot} : slabs[i].objects[s] # pointer
        BY <1>4, <2>6 DEF FreeOnce
      <3>. QED  BY <2>5, <2>6, <2>7, <3>1
    <2>10. FreeOnce'
      <3>1. ASSUME NEW j \in S!Slabs, NEW s \in S!Slots(j), NEW t \in S!Slots(j), s # t,
                   slabs'[j].objects[s] # NULL
            PROVE  slabs'[j].objects[s] # slabs'[j].objects[t]
        <4>1. CASE j # i
          BY <2>7, <3>1, <4>1 DEF FreeOnce
        <4>2. CASE j = i
          <5>1. s # slot /\ slabs'[i].objects[s] = slabs[i].objects[s]
            BY <2>5, <2>7, <3>1, <4>2
          <5>2. CASE t = slot
            BY <2>5, <2>7, <3>1, <4>2, <5>2
          <5>3. CASE t # slot
            BY <2>5, <2>7, <3>1, <4>2, <5>1, <5>3 DEF FreeOnce
          <5>. QED  BY <5>2, <5>3
        <4>. QED  BY <4>1, <4>2
      <3>. QED  BY <3>1 DEF FreeOnce
    <2>. QED  BY <2>6, <2>7, <2>8, <2>9, <2>10
  <1>5. \/ slabs' = slabs /\ pointer = NULL
        \/ \E i \in S!Slabs : slabs' = [slabs EXCEPT ![i].is_full = TRUE] /\ pointer = NULL
        \/ \E i \in S!Slabs : \E slot \in S!Slots(i) :
             /\ Size[i] = size /\ S!find_free_object(i, slot)
             /\ pointer = slabs[i].objects[slot]
             /\ slabs' = [slabs EXCEPT ![i].objects[slot] = S!NULL]
    BY DEF S!slab_alloc, NULL, S!NULL
  <1>. QED  BY <1>2, <1>3, <1>4, <1>5

\* slab_free gives an object that was handed out to no slab but its own, and
\* there to one slot.
LEMMA SlabFrees ==
  ASSUME S!TypeOK, SlabsLaidOut, SlabsReady, FreeOnce, NEW i \in S!Slabs,
         NEW p \in S!ObjectsOf(i) \ S!FreeObjects(i), p # NULL, S!slab_free(p)
  PROVE  /\ LayoutKept /\ S!TypeOK' /\ FreeOnce'
         /\ S!FreeObjects(i)' \subseteq S!FreeObjects(i) \cup {p}
         /\ \A j \in S!Slabs \ {i} : S!FreeObjects(j)' = S!FreeObjects(j)
  <1>1. /\ DOMAIN slabs = S!Slabs
        /\ \A j \in S!Slabs :
             slabs[j] \in [is_full : BOOLEAN, start : Nat, end : Nat,
                           objects : [S!Slots(j) -> {NULL} \cup S!ObjectsOf(j)]]
    BY DEF S!TypeOK, NULL, S!NULL
  <1>2. \A j \in S!Slabs \ {i} : ~S!IsObjectOf(j, p)
    BY SlabOfObject
  <1>3. DOMAIN slabs' = S!Slabs /\ \A j \in S!Slabs \ {i} : slabs'[j] = slabs[j]
    BY <1>2 DEF S!slab_free
  <1>4. CASE ~S!IsObjectOf(i, p) \/ ~S!Receives(i, p)
    <2>1. \A j \in S!Slabs : slabs'[j] = slabs[j]
      BY <1>3, <1>4 DEF S!slab_free
    <2>2. \A j \in S!Slabs : /\ S!ObjectsOf(j)' = S!ObjectsOf(j)
                             /\ S!FreeObjects(j)' = S!FreeObjects(j)
      BY <2>1 DEF S!ObjectsOf, S!FreeObjects
    <2>3. LayoutKept /\ FreeOnce'
      BY <1>3, <2>1, <2>2 DEF LayoutKept, FreeOnce
    <2>4. S!TypeOK'
      <3>1. \A j \in S!Slabs :
              slabs'[j] \in [is_full : BOOLEAN, start : Nat, end : Nat,
                             objects : [S!Slots(j) -> {NULL} \cup S!ObjectsOf(j)']]
        BY <1>1, <2>1, <2>2
      <3>. QED  BY <1>3, <3>1 DEF S!TypeOK, NULL, S!NULL
    <2>. QED  BY <2>2, <2>3, <2>4
  <1>5. CASE S!IsObjectOf(i, p) /\ S!Receives(i, p)
    <2>1. ~S!AllFree(i)
      <3>1. i <= i
        BY DEF S!Slabs
      <3>. QED  BY <1>5, <3>1 DEF S!Receives
    <2>2. PICK slot \in S!Slots(i) : \A other \in S!Slots(i) :
            S!find_allocated_object(i, other) <=> other = slot
      BY <2>1, FirstNullSlot
    <2>3. slabs[i].objects[slot] = NULL
      BY <2>2 DEF S!find_allocated_object, NULL, S!NULL
    <2>. DEFINE objects == [slabs[i].objects EXCEPT ![slot] = p]
    <2>4. slabs'[i] = [slabs[i] EXCEPT !.objects =
                         [s \in S!Slots(i) |->
                            IF S!find_allocated_object(i, s) THEN p ELSE @[s]]]
      BY <1>5 DEF S!slab_free, NULL, S!NULL
    <2>5. slabs[i].objects \in [S!Slots(i) -> {NULL} \cup S!ObjectsOf(i)]
      BY <1>1
    <2>6. [s \in S!Slots(i) |->
             IF S!find_allocated_object(i, s) THEN p ELSE slabs[i].objects[s]] = objects
      BY <2>2, <2>5
    <2>7. /\ objects \in [S!Slots(i) -> {NULL} \cup S!ObjectsOf(i)]
          /\ objects[slot] = p
          /\ \A s \in S!Slots(i) \ {slot} : objects[s] = slabs[i].objects[s]
      BY <2>5
    <2>8. slabs'[i] = [slabs[i] EXCEPT !.objects = objects]
      BY <2>4, <2>6
    <2>. HIDE DEF objects
    <2>9. SlotsSet(i, objects)
      <3>. DEFINE slab == slabs[i]
      <3>1. /\ slab \in [is_full : BOOLEAN, start : Nat, end : Nat,
                         objects : [S!Slots(i) -> {NULL} \cup S!ObjectsOf(i)]]
            /\ slabs'[i] = [slab EXCEPT !.objects = objects]
        BY <1>1, <2>8
      <3>. HIDE DEF slab
      <3>2. /\ slabs'[i] = [slab EXCEPT !.is_full = slab.is_full, !.objects = objects]
            /\ slab.is_full \in BOOLEAN
        BY <3>1
      <3>. QED  BY <1>3, <3>2 DEF SlotsSet, slab
    <2>10. /\ LayoutKept /\ S!TypeOK'
           /\ \A j \in S!Slabs \ {i} : /\ slabs'[j].objects = slabs[j].objects
                                       /\ S!FreeObjects(j)' = S!FreeObjects(j)
           /\ slabs'[i].objects = objects
           /\ S!FreeObjects(i)' = {objects[s] : s \in S!Slots(i)} \ {NULL}
      BY <2>7, <2>9, SlotsChange
    <2>11. S!FreeObjects(i)' \subseteq S!FreeObjects(i) \cup {p}
      <3>1. S!FreeObjects(i) = {slabs[i].objects[s] : s \in S!Slots(i)} \ {NULL}
        BY DEF S!FreeObjects, NULL, S!NULL
      <3>. QED  BY <2>7, <2>10, <3>1
    <2>12. FreeOnce'
      <3>1. \A s \in S!Slots(i) : slabs[i].objects[s] # p
        BY DEF S!FreeObjects, NULL, S!NULL
      <3>2. ASSUME NEW j \in S!Slabs, NEW s \in S!Slots(j), NEW t \in S!Slots(j), s # t,
                   slabs'[j].objects[s] # NULL
            PROVE  slabs'[j].objects[s] # slabs'[j].objects[t]
        <4>1. CASE j # i
          BY <2>10, <3>2, <4>1 DEF FreeOnce
        <4>2. CASE j = i
          <5>1. CASE s = slot
            BY <2>7, <2>10, <3>1, <3>2, <4>2, <5>1
          <5>2. CASE t = slot
            BY <2>7, <2>10, <3>1, <3>2, <4>2, <5>2
          <5>3. CASE s # slot /\ t # slot
            BY <2>7, <2>10, <3>2, <4>2, <5>3 DEF FreeOnce
          <5>. QED  BY <5>1, <5>2, <5>3
        <4>. QED  BY <4>1, <4>2
      <3>. QED  BY <3>2 DEF FreeOnce
    <2>. QED  BY <2>10, <2>11, <2>12
  <1>. QED  BY <1>4, <1>5

\* kfree of a block made from NULL gives the slabs nothing.
LEMMA NullIsNotFreed ==
  ASSUME S!TypeOK, S!slab_free(NULL)
  PROVE  DOMAIN slabs' = S!Slabs /\ \A j \in S!Slabs : slabs'[j] = slabs[j]
  BY DEF S!slab_free, NULL, S!NULL

\* A step that moves no slab keeps the layout.
LEMMA LayoutKeepsSlabs ==
  ASSUME SlabsLaidOut, LayoutKept, UNCHANGED pages
  PROVE  SlabsLaidOut'
  <1>1. SlabsReady' = SlabsReady
    BY DEF SlabsReady
  <1>2. \A i \in S!Slabs : \A k : InPage(i, k)' <=> InPage(i, k)
    BY DEF LayoutKept, InPage
  <1>. QED  BY <1>1, <1>2 DEF LayoutKept, SlabsLaidOut
----------------------------------------------------------------------------
(* Boot.                                                                   *)

\* A page of memory ends below the end of the address space.
LEMMA AddressEnd ==
  ASSUME NEW page \in Nat, page < IntMod
  PROVE  Address(page) + PageSize <= AddrPages * PageSize
  <1>1. HigherHalf + page \in Int /\ HigherHalf + page < AddrPages
        /\ PageSize \in Nat /\ AddrPages \in Int
    BY PmmConstants
  <1>2. (HigherHalf + page) * PageSize + PageSize <= AddrPages * PageSize
    BY <1>1, ProductGap
  <1>. QED  BY <1>2 DEF Address

\* NULL does not name a page whose bit is clear.
LEMMA NullNotClear == PmmInv => PageOf(NULL) \notin P!ClearBits
  <1>. SUFFICES ASSUME PmmInv PROVE PageOf(NULL) \notin P!ClearBits
    OBVIOUS
  <1>1. /\ PageSize \in Nat \ {0} /\ HigherHalf \in Nat /\ IntMod \in Nat \ {0}
        /\ IntMod <= HigherHalf /\ HigherHalf + IntMod <= AddrPages /\ AddrPages \in Nat
    BY PmmConstants
  <1>2. NULL \div PageSize = 0
    BY <1>1 DEF NULL
  <1>3. PageOf(NULL) = (0 - HigherHalf) % AddrPages
    BY <1>2, SMT DEF PageOf, P!higher_half_data_to_phys
  <1>4. (0 - HigherHalf) % AddrPages = (AddrPages - HigherHalf) % AddrPages
    <2>1. /\ 0 - HigherHalf \in Int /\ AddrPages \in Int /\ AddrPages \in Nat \ {0}
          /\ AddrPages % AddrPages = 0
      BY <1>1
    <2>2. ((0 - HigherHalf) + AddrPages) % AddrPages = (0 - HigherHalf) % AddrPages
      BY <2>1, RemainderShift
    <2>3. (0 - HigherHalf) + AddrPages = AddrPages - HigherHalf
      BY <1>1
    <2>. QED  BY <2>2, <2>3
  <1>5. /\ AddrPages - HigherHalf \in Nat /\ AddrPages - HigherHalf < AddrPages
        /\ AddrPages \in Nat \ {0}
    BY <1>1
  <1>6. PageOf(NULL) = AddrPages - HigherHalf
    BY <1>3, <1>4, <1>5, RemainderSmall
  <1>7. PageOf(NULL) >= IntMod
    BY <1>1, <1>6
  <1>8. P!ClearBits \subseteq 1 .. (highest_page - 1) /\ 2 * highest_page <= IntMod
    BY DEF PmmInv
  <1>9. highest_page \in Nat
    BY PmmTypes
  <1>10. PageOf(NULL) \notin 1 .. (highest_page - 1)
    <2>. DEFINE page == PageOf(NULL)
    <2>1. page \in Nat /\ page >= IntMod
      BY <1>1, <1>6, <1>7
    <2>. HIDE DEF page
    <2>2. page \notin 1 .. (highest_page - 1)
      BY <1>1, <1>8, <1>9, <2>1
    <2>. QED  BY <2>2 DEF page
  <1>. QED  BY <1>8, <1>10

\* slab_init cuts the slabs from the pages it took.
LEMMA SlabInitLaysOut ==
  ASSUME S!TypeOK, NEW supply \in Seq(Nat), Len(supply) = SlabPages, pages' = supply,
         \A k \in DOMAIN supply : \E page \in 1 .. (IntMod - 1) : supply[k] = Address(page),
         \A k, l \in DOMAIN supply : k # l => supply[k] # supply[l],
         S!slab_init(supply)
  PROVE  S!TypeOK' /\ SlabsLaidOut' /\ FreeOnce'
  <1>. DEFINE Start(i) == supply[SlabPage(i)] + SlabPart(i)
              AddrBytes == AddrPages * PageSize
  <1>1. \A k \in DOMAIN supply :
          /\ supply[k] \in Nat /\ supply[k] % PageSize = 0
          /\ supply[k] >= PageSize /\ supply[k] + PageSize <= AddrBytes
    <2>. TAKE k \in DOMAIN supply
    <2>1. PICK page \in 1 .. (IntMod - 1) : supply[k] = Address(page)
      OBVIOUS
    <2>2. page \in Nat /\ page < IntMod
      BY PmmConstants
    <2>. QED  BY <2>1, <2>2, AddressType, AddressEnd
  <1>2. ASSUME NEW i \in S!Slabs
        PROVE  /\ Start(i) \in Nat /\ Start(i) > 0
               /\ Start(i) + MaxSlabSize <= AddrBytes
               /\ Size[i] \in 1 .. MaxSlabSize /\ Size[i] <= Start(i)
               /\ supply[SlabPage(i)] <= Start(i)
               /\ Start(i) + MaxSlabSize <= supply[SlabPage(i)] + PageSize
               /\ SlabPage(i) \in DOMAIN supply
    <2>1. /\ SlabPage(i) \in DOMAIN supply /\ supply[SlabPage(i)] \in Nat
          /\ SlabPart(i) \in Nat /\ SlabPart(i) + MaxSlabSize <= PageSize
      BY SlabsInPages
    <2>2. /\ supply[SlabPage(i)] >= PageSize
          /\ supply[SlabPage(i)] + PageSize <= AddrBytes
      BY <1>1, <2>1
    <2>3. /\ PageSize \in Nat \ {0} /\ MaxSlabSize \in Nat \ {0} /\ AddrBytes \in Nat
          /\ Size[i] \in Nat \ {0} /\ MaxSlabSize % Size[i] = 0 /\ 0 % Size[i] = 0
      BY SlabConstants
    <2>4. 0 + Size[i] <= MaxSlabSize
      BY <2>3, MultipleGap
    <2>. DEFINE page == supply[SlabPage(i)]
                part == SlabPart(i)
    <2>5. /\ page \in Nat /\ part \in Nat /\ part + MaxSlabSize <= PageSize
          /\ page + PageSize <= AddrBytes /\ PageSize <= page
          /\ PageSize \in Nat /\ MaxSlabSize \in Nat \ {0} /\ AddrBytes \in Nat
          /\ Size[i] \in Nat \ {0} /\ Size[i] <= MaxSlabSize
      BY <2>1, <2>2, <2>3, <2>4
    <2>. HIDE DEF page, part, AddrBytes
    <2>6. /\ page + part \in Nat /\ page + part > 0
          /\ page + part + MaxSlabSize <= AddrBytes
          /\ Size[i] \in 1 .. MaxSlabSize /\ Size[i] <= page + part
          /\ page <= page + part /\ page + part + MaxSlabSize <= page + PageSize
      BY <2>5
    <2>. QED  BY <2>1, <2>6 DEF page, part
  <1>3. ASSUME NEW i \in S!Slabs, NEW j \in S!Slabs, i # j
        PROVE  Start(i) + MaxSlabSize <= Start(j) \/ Start(j) + MaxSlabSize <= Start(i)
    <2>1. /\ SlabPage(i) \in DOMAIN supply /\ supply[SlabPage(i)] \in Nat
          /\ SlabPage(j) \in DOMAIN supply /\ supply[SlabPage(j)] \in Nat
      BY SlabsInPages
    <2>. DEFINE page == supply[SlabPage(i)]
                other == supply[SlabPage(j)]
                part == SlabPart(i)
                place == SlabPart(j)
    <2>2. /\ part \in Nat /\ part + MaxSlabSize <= PageSize
          /\ place \in Nat /\ place + MaxSlabSize <= PageSize
          /\ MaxSlabSize \in Nat /\ PageSize \in Nat \ {0}
          /\ page \in Nat /\ other \in Nat
      BY <2>1, SlabsInPages, SlabConstants
    <2>3. CASE SlabPage(i) = SlabPage(j)
      <3>1. page = other
        BY <2>3
      <3>2. part + MaxSlabSize <= place \/ place + MaxSlabSize <= part
        BY <1>3, <2>3, SlabsInDifferentPlaces
      <3>. HIDE DEF page, other, part, place
      <3>3. page + part + MaxSlabSize <= other + place
              \/ other + place + MaxSlabSize <= page + part
        BY <2>2, <3>1, <3>2
      <3>. QED  BY <3>3 DEF page, other, part, place
    <2>4. CASE SlabPage(i) # SlabPage(j)
      <3>1. page # other /\ page % PageSize = 0 /\ other % PageSize = 0
        BY <1>1, <2>1, <2>4
      <3>. HIDE DEF page, other, part, place
      <3>2. page + PageSize <= other \/ other + PageSize <= page
        <4>1. PageSize \in Nat \ {0} /\ page \in Int /\ other \in Int
          BY <2>2
        <4>. QED  BY <3>1, <4>1, MultiplesApart
      <3>3. page + part + MaxSlabSize <= other + place
              \/ other + place + MaxSlabSize <= page + part
        BY <2>2, <3>2
      <3>. QED  BY <3>3 DEF page, other, part, place
    <2>. QED  BY <2>3, <2>4
  <1>4. \A i \in S!Slabs : S!ObjectAt(supply, i, 0) = Start(i)
    BY ObjectPlace
  <1>5. \A i \in S!Slabs : \A slot \in S!Slots(i) :
          S!ObjectAt(supply, i, slot) = Start(i) + slot * Size[i]
    BY ObjectPlace, <1>4
  <1>6. SlabsReady' /\ DOMAIN supply = 1 .. SlabPages
    BY DEF SlabsReady
  <1>. HIDE DEF Start
  <1>7. ASSUME NEW i \in S!Slabs
        PROVE  (Start(i) + RangeBytes - Size[i]) % AddrBytes = Start(i) + RangeBytes - Size[i]
    <2>1. AddrBytes \in Nat /\ RangeBytes \in 0 .. MaxSlabSize /\ MaxSlabSize \in Nat
      BY SlabConstants
    <2>. DEFINE first == Start(i)
                size  == Size[i]
    <2>2. /\ first \in Nat /\ first > 0 /\ first + MaxSlabSize <= AddrBytes
          /\ size \in 1 .. MaxSlabSize /\ size <= first
      BY <1>2
    <2>. HIDE DEF AddrBytes, first, size
    <2>3. /\ first + RangeBytes - size \in Nat
          /\ first + RangeBytes - size < AddrBytes /\ AddrBytes \in Nat \ {0}
      BY <2>1, <2>2
    <2>4. (first + RangeBytes - size) % AddrBytes = first + RangeBytes - size
      BY <2>3, RemainderSmall
    <2>. QED  BY <2>4 DEF first, size
  <1>8. slabs' = [i \in S!Slabs |->
                    [is_full |-> FALSE, start |-> Start(i),
                     end     |-> Start(i) + RangeBytes - Size[i],
                     objects |-> [slot \in S!Slots(i) |-> Start(i) + slot * Size[i]]]]
    BY <1>4, <1>5, <1>7 DEF S!slab_init
  <1>9. \A i \in S!Slabs :
          /\ slabs'[i].start = Start(i)
          /\ slabs'[i].end = Start(i) + RangeBytes - Size[i]
          /\ \A slot \in S!Slots(i) : slabs'[i].objects[slot] = Start(i) + slot * Size[i]
    BY <1>8
  <1>10. \A i \in S!Slabs : S!ObjectsOf(i)' = {Start(i) + slot * Size[i] : slot \in S!Slots(i)}
    BY <1>9 DEF S!ObjectsOf
  <1>11. S!TypeOK'
    <2>1. ASSUME NEW i \in S!Slabs
          PROVE  slabs'[i] \in [is_full : BOOLEAN, start : Nat, end : Nat,
                                objects : [S!Slots(i) -> {NULL} \cup S!ObjectsOf(i)']]
      <3>1. Start(i) \in Nat /\ Start(i) + RangeBytes - Size[i] \in Nat
        BY <1>2, SlabConstants
      <3>2. [slot \in S!Slots(i) |-> Start(i) + slot * Size[i]]
              \in [S!Slots(i) -> {NULL} \cup S!ObjectsOf(i)']
        BY <1>10
      <3>. QED  BY <1>8, <3>1, <3>2
    <2>2. DOMAIN slabs' = S!Slabs
      BY <1>8
    <2>. QED  BY <2>1, <2>2 DEF S!TypeOK, NULL, S!NULL
  <1>12. SlabsLaidOut'
    <2>1. \A i \in S!Slabs : SlabPage(i) \in DOMAIN pages' /\ InPage(i, SlabPage(i))'
      <3>1. ASSUME NEW i \in S!Slabs, ~EndsPage(i)
            PROVE  Start(i) + MaxSlabSize < supply[SlabPage(i)] + PageSize
        <4>1. /\ supply[SlabPage(i)] \in Nat /\ SlabPart(i) \in Nat
              /\ SlabPart(i) + MaxSlabSize <= PageSize
          BY SlabsInPages
        <4>2. MaxSlabSize \in Nat /\ PageSize \in Nat
          BY SlabConstants
        <4>3. SlabPart(i) + MaxSlabSize # PageSize
          BY <3>1 DEF EndsPage
        <4>. DEFINE page == supply[SlabPage(i)]
                    part == SlabPart(i)
        <4>4. page \in Nat /\ part \in Nat /\ part + MaxSlabSize <= PageSize
              /\ part + MaxSlabSize # PageSize
          BY <4>1, <4>3
        <4>. HIDE DEF page, part
        <4>5. page + part + MaxSlabSize < page + PageSize
          BY <4>2, <4>4
        <4>. QED  BY <4>5 DEF page, part, Start
      <3>. QED  BY <1>2, <1>9, <3>1 DEF InPage
    <2>. QED  BY <1>3, <1>9, <2>1 DEF SlabsLaidOut
  <1>13. FreeOnce'
    <2>1. ASSUME NEW i \in S!Slabs, NEW s \in S!Slots(i), NEW t \in S!Slots(i), s # t
          PROVE  Start(i) + s * Size[i] # Start(i) + t * Size[i]
      <3>1. /\ s \in Nat /\ t \in Nat /\ s * Size[i] \in Nat /\ t * Size[i] \in Nat
            /\ Size[i] \in Nat \ {0} /\ Start(i) \in Nat
        BY <1>2, ObjectsFit, SlabConstants
      <3>2. s * Size[i] # t * Size[i]
        <4>1. CASE s < t
          BY <3>1, <4>1, ProductGap
        <4>2. CASE t < s
          BY <3>1, <4>2, ProductGap
        <4>. QED  BY <2>1, <3>1, <4>1, <4>2
      <3>. DEFINE a == s * Size[i]
                  b == t * Size[i]
      <3>3. a # b /\ a \in Nat /\ b \in Nat
        BY <3>1, <3>2
      <3>. HIDE DEF a, b
      <3>4. Start(i) + a # Start(i) + b
        BY <3>1, <3>3
      <3>. QED  BY <3>4 DEF a, b
    <2>. QED  BY <1>9, <2>1 DEF FreeOnce
  <1>. QED  BY <1>11, <1>12, <1>13

LEMMA BootPMMKeepsInv ==
  ASSUME BitmapsCover, KmallocInv, BootPMM
  PROVE  KmallocInv'
  <1>1. P!pmm_init /\ slabs' = slabs /\ pages' = pages /\ metadata' = metadata /\ held' = held
    BY DEF BootPMM
  <1>2. PmmInv' /\ phase' = "ready" /\ P!ClearBits' = P!Pool'
    BY <1>1, InitStep DEF KmallocInv
  <1>3. pages = <<>> /\ phase = "boot"
    BY <1>1 DEF KmallocInv, SlabPagesOK, P!pmm_init
  <1>4. ~SlabsReady /\ ~SlabsReady' /\ Holders = {} /\ Holders' = {}
    <2>1. ~SlabsReady
      BY <1>3, KmallocAssumption DEF SlabsReady
    <2>2. Holders = {}
      BY <2>1 DEF KmallocInv, BlocksTyped
    <2>. QED  BY <1>1, <2>1, <2>2 DEF SlabsReady, Holders
  <1>5. SlabPagesOK'
    BY <1>1, <1>2, <1>3 DEF KmallocInv, SlabPagesOK
  <1>6. S!TypeOK' /\ FreeOnce'
    BY <1>1 DEF KmallocInv, S!TypeOK, S!ObjectsOf, FreeOnce
  <1>7. SlabsLaidOut'
    BY <1>4 DEF SlabsLaidOut
  <1>8. SmallBlocksOK' /\ SmallOnce' /\ BigBlocksOK'
    BY <1>4 DEF Holders, SmallBlocksOK, SmallOnce, BigBlocksOK, Small
  <1>9. Accounting'
    <2>1. SlabPageSet' = {}
      BY <1>1, <1>3 DEF SlabPageSet
    <2>. QED  BY <1>2, <1>4, <2>1 DEF Accounting
  <1>10. BlocksTyped'
    BY <1>1, <1>4 DEF KmallocInv, BlocksTyped
  <1>. QED  BY <1>2, <1>5, <1>6, <1>7, <1>8, <1>9, <1>10 DEF KmallocInv

LEMMA BootSlabsKeepsInv ==
  ASSUME KmallocInv, RunsWereFree, BootSlabs
  PROVE  KmallocInv' /\ \E page : Marks({page}) /\ pages' = Append(pages, Address(page))
  <1>1. PmmInv /\ SlabPagesOK /\ S!TypeOK /\ FreeOnce /\ Accounting /\ BlocksTyped
    BY DEF KmallocInv
  <1>2. PICK pointer \in 0 .. (AddrPages - 1) :
          /\ P!pmm_alloc(1, pointer)
          /\ pages' = Append(pages, pointer * PageSize)
          /\ IF Len(pages') = SlabPages THEN S!slab_init(pages') ELSE UNCHANGED slabs
    BY DEF BootSlabs
  <1>3. /\ phase = "ready" /\ ~SlabsReady
        /\ phase' = phase /\ memory_map' = memory_map /\ highest_page' = highest_page
        /\ metadata' = metadata /\ held' = held
    BY DEF BootSlabs
  <1>4. pages \in Seq(Nat) /\ Len(pages) \in Nat /\ Len(pages) < SlabPages
    BY <1>1, <1>3, KmallocAssumption DEF SlabPagesOK, SlabsReady
  <1>. DEFINE last == Len(pages) + 1
  <1>5. pointer * PageSize \in Nat
    BY PmmConstants
  <1>6. /\ pages' \in Seq(Nat) /\ Len(pages') = last /\ last \in DOMAIN pages' \ DOMAIN pages
        /\ DOMAIN pages' = DOMAIN pages \cup {last}
        /\ pages'[last] = pointer * PageSize
        /\ \A k \in DOMAIN pages : pages'[k] = pages[k] /\ k # last
    BY <1>2, <1>4, <1>5
  <1>7. PageOf(pointer * PageSize) \in P!ClearBits
    BY <1>6 DEF RunsWereFree
  <1>8. pointer # NULL
    <2>1. NULL * PageSize = NULL
      BY PmmConstants DEF NULL
    <2>. QED  BY <1>1, <1>7, <2>1, NullNotClear
  <1>9. PICK page \in 1 .. (highest_page - 1) :
          /\ page \in P!ClearBits
          /\ pointer = HigherHalf + page
          /\ bitmap' = P!SetBits(bitmap, P!RunBits(page, 1))
          /\ stray' = (stray \/ P!Outside(bitmap, P!RunBits(page, 1)))
          /\ used_pages' = (used_pages + 1) % CounterMod
    BY <1>1, <1>2, <1>3, <1>8, AllocOutcome
  <1>10. pages'[last] = Address(page)
    BY <1>6, <1>9 DEF Address
  <1>11. page .. (page + 1 - 1) = {page} /\ page \in Nat
    <2>1. highest_page \in Nat
      BY <1>1, PmmTypes
    <2>. QED  BY <2>1
  <1>12. PmmInv' /\ P!Pool' = P!Pool /\ P!ClearBits' = P!ClearBits \ {page} /\ Marks({page})
    <2>1. page .. (page + 1 - 1) \subseteq P!ClearBits /\ 1 \in Nat \ {0}
      BY <1>9, <1>11
    <2>2. PmmInv' /\ P!Pool' = P!Pool
          /\ P!ClearBits' = P!ClearBits \ (page .. (page + 1 - 1))
          /\ Marks(page .. (page + 1 - 1))
      BY <1>1, <1>3, <1>9, <1>11, <2>1, MarkRun
    <2>. QED  BY <1>11, <2>2
  <1>13. \A k \in 1 .. (highest_page - 1) : k \in 0 .. (IntMod - 1) /\ k \in 1 .. (IntMod - 1)
    <2>1. highest_page \in Nat /\ 2 * highest_page <= IntMod /\ IntMod \in Nat
      BY <1>1, PmmTypes, PmmConstants DEF PmmInv
    <2>. QED  BY <2>1
  <1>14. PageOf(Address(page)) = page
    BY <1>13, AddressNames
  <1>15. SlabPageSet' = SlabPageSet \cup {page}
    BY <1>6, <1>10, <1>14 DEF SlabPageSet
  <1>16. \A k \in DOMAIN pages : pages[k] # Address(page)
    <2>1. \A k \in DOMAIN pages : PageOf(pages[k]) \notin P!ClearBits
      BY <1>1 DEF Accounting, SlabPageSet
    <2>. QED  BY <1>9, <1>14, <2>1
  <1>17. SlabPagesOK'
    <2>1. Len(pages') <= SlabPages
      BY <1>4, <1>6, KmallocAssumption
    <2>2. \A k \in DOMAIN pages' : \E other \in 1 .. (highest_page' - 1) :
            pages'[k] = Address(other)
      BY <1>1, <1>3, <1>6, <1>10 DEF SlabPagesOK
    <2>3. \A k, l \in DOMAIN pages' : k # l => pages'[k] # pages'[l]
      <3>1. ASSUME NEW k \in DOMAIN pages', NEW l \in DOMAIN pages', k # l
            PROVE  pages'[k] # pages'[l]
        <4>1. CASE k \in DOMAIN pages /\ l \in DOMAIN pages
          BY <1>1, <1>6, <3>1, <4>1 DEF SlabPagesOK
        <4>2. CASE k = last /\ l \in DOMAIN pages
          BY <1>6, <1>10, <1>16, <4>2
        <4>3. CASE l = last /\ k \in DOMAIN pages
          BY <1>6, <1>10, <1>16, <4>3
        <4>. QED  BY <1>6, <3>1, <4>1, <4>2, <4>3
      <3>. QED  BY <3>1
    <2>4. phase' # "boot"
      BY <1>3
    <2>. QED  BY <1>6, <2>1, <2>2, <2>3, <2>4 DEF SlabPagesOK
  <1>18. Holders = {} /\ Holders' = {}
    BY <1>1, <1>3 DEF BlocksTyped, Holders
  <1>19. SmallBlocksOK' /\ SmallOnce' /\ BigBlocksOK'
    BY <1>18 DEF Holders, SmallBlocksOK, SmallOnce, BigBlocksOK, Small
  <1>20. Accounting'
    <2>1. P!Pool \ P!ClearBits = SlabPageSet
      BY <1>1, <1>18 DEF Accounting
    <2>2. page \in P!Pool
      BY <1>1, <1>9 DEF PmmInv
    <2>3. P!Pool' \ P!ClearBits' = SlabPageSet'
      BY <1>12, <1>15, <2>1, <2>2
    <2>. QED  BY <1>18, <2>3 DEF Accounting
  <1>21. BlocksTyped'
    BY <1>1, <1>3, <1>18 DEF BlocksTyped
  <1>22. S!TypeOK' /\ SlabsLaidOut' /\ FreeOnce'
    <2>1. CASE Len(pages') = SlabPages
      <3>1. \A k \in DOMAIN pages' : \E other \in 1 .. (IntMod - 1) : pages'[k] = Address(other)
        <4>1. \A k \in DOMAIN pages' : \E other \in 1 .. (highest_page - 1) :
                pages'[k] = Address(other)
          BY <1>3, <1>17 DEF SlabPagesOK
        <4>. QED  BY <1>13, <4>1
      <3>2. \A k, l \in DOMAIN pages' : k # l => pages'[k] # pages'[l]
        BY <1>17 DEF SlabPagesOK
      <3>3. PICK supply \in Seq(Nat) : supply = Append(pages, pointer * PageSize)
        BY <1>2, <1>6
      <3>4. /\ Len(supply) = SlabPages /\ pages' = supply
            /\ \A k \in DOMAIN supply : \E other \in 1 .. (IntMod - 1) :
                 supply[k] = Address(other)
            /\ \A k, l \in DOMAIN supply : k # l => supply[k] # supply[l]
            /\ S!slab_init(supply)
        BY <1>2, <1>6, <2>1, <3>1, <3>2, <3>3
      <3>. QED  BY <1>1, <3>4, SlabInitLaysOut
    <2>2. CASE Len(pages') # SlabPages
      <3>1. slabs' = slabs /\ ~SlabsReady'
        BY <1>2, <2>2 DEF SlabsReady
      <3>. QED  BY <1>1, <3>1 DEF S!TypeOK, S!ObjectsOf, FreeOnce, SlabsLaidOut
    <2>. QED  BY <2>1, <2>2
  <1>23. KmallocInv'
    BY <1>12, <1>17, <1>19, <1>20, <1>21, <1>22 DEF KmallocInv
  <1>24. pages' = Append(pages, Address(page))
    BY <1>2, <1>9 DEF Address
  <1>. QED  BY <1>12, <1>23, <1>24
----------------------------------------------------------------------------
(* Blocks.                                                                 *)

\* A request of no bytes gets a pointer to the byte behind its metadata.  If
\* that were the first byte of a page, kfree would take it for a big block.
\* With the sizes of KnutOS it is not: objects of eight bytes come from slab
\* 2, in the first half of a page.
EmptyRequestsSafe ==
  0 \in Requests => \A i \in S!Slabs : Size[i] = MetaBytes => ~EndsPage(i)

\* What kmalloc rounds is not more than the largest power of two.
LEMMA RequestRounded ==
  ASSUME NEW size \in Requests
  PROVE  /\ size \in Nat /\ size + MetaBytes \in Nat
         /\ \A num \in {size, size + MetaBytes} :
              /\ next_pow_of_two(num) \in {2 ^ k : k \in 1 .. MaxPower}
              /\ next_pow_of_two(num) \in Nat /\ next_pow_of_two(num) >= num
  <1>1. size \in Nat /\ size + MetaBytes <= 2 ^ MaxPower /\ MetaBytes \in Nat
    BY KmallocAssumption
  <1>2. 2 ^ MaxPower \in Int
    BY KmallocAssumption
  <1>3. size <= 2 ^ MaxPower /\ size + MetaBytes \in Nat
    BY <1>1, <1>2
  <1>. QED  BY <1>1, <1>3, NextPowOfTwo

\* A big block takes its whole pages and one before them.
LEMMA BigBlock ==
  ASSUME NEW size \in Requests, IsBig(size)
  PROVE  LET new == next_pow_of_two(size)
         IN /\ new \in Nat /\ new >= size
            /\ new \div PageSize \in Nat \ {0} /\ BigPages(new) \in Nat \ {0}
            /\ BigPages(new) - 1 = new \div PageSize
            /\ BigPages(new) * PageSize = new + PageSize
  <1>. DEFINE new == next_pow_of_two(size)
              whole == new \div PageSize
  <1>1. new \in {2 ^ k : k \in 1 .. MaxPower} /\ new \in Nat /\ new >= size
    BY RequestRounded
  <1>2. new >= PageSize
    BY DEF IsBig
  <1>3. new % PageSize = 0
    BY <1>1, <1>2, KmallocAssumption
  <1>4. PageSize \in Nat \ {0}
    BY PmmConstants
  <1>. HIDE DEF new
  <1>5. whole \in Int /\ new = PageSize * whole
    BY <1>1, <1>3, <1>4, DivisionWithRemainder
  <1>6. BigPages(new) = whole + 1
    BY DEF BigPages
  <1>. HIDE DEF whole
  <1>7. whole \in Nat \ {0}
    <2>1. CASE whole <= 0
      <3>1. PageSize * whole <= 0
        BY <1>4, <1>5, <2>1
      <3>. QED  BY <1>2, <1>4, <1>5, <3>1
    <2>2. CASE whole >= 1
      BY <1>5, <2>2
    <2>. QED  BY <1>5, <2>1, <2>2
  <1>8. (whole + 1) * PageSize = new + PageSize
    BY <1>4, <1>5
  <1>. QED  BY <1>1, <1>5, <1>6, <1>7, <1>8 DEF new, whole

\* Pages below highest_page have their address, and no two have the same.
LEMMA MemoryPages ==
  ASSUME PmmInv, NEW page \in 1 .. (highest_page - 1)
  PROVE  /\ page \in Nat /\ page \in 0 .. (IntMod - 1)
         /\ PageOf(Address(page)) = page
         /\ Address(page) \in Nat /\ Address(page) >= PageSize
         /\ Address(page) % PageSize = 0 /\ (Address(page) + PageSize) % PageSize = 0
  <1>1. highest_page \in Nat /\ 2 * highest_page <= IntMod /\ IntMod \in Nat
    BY PmmTypes, PmmConstants DEF PmmInv
  <1>2. page \in Nat /\ page \in 0 .. (IntMod - 1)
    BY <1>1
  <1>3. PageOf(Address(page)) = page
    BY <1>2, AddressNames
  <1>4. /\ Address(page) \in Nat /\ Address(page) % PageSize = 0
        /\ Address(page + 1) = Address(page) + PageSize /\ Address(page) >= PageSize
    BY <1>2, AddressType
  <1>5. Address(page + 1) % PageSize = 0
    BY <1>2, AddressType
  <1>. QED  BY <1>2, <1>3, <1>4, <1>5

\* A big block's pages are those from its metadata to its end.
LEMMA PagesOfBigBlock ==
  ASSUME PmmInv, NEW page \in 1 .. (highest_page - 1), NEW size \in Requests, IsBig(size),
         NEW pointer, pointer = Address(page) + PageSize
  PROVE  /\ pointer \in Nat /\ pointer - PageSize = Address(page)
         /\ PageOf(pointer - PageSize) = page
         /\ page .. (page + next_pow_of_two(size) \div PageSize)
              = page .. (page + BigPages(next_pow_of_two(size)) - 1)
         /\ page \in page .. (page + next_pow_of_two(size) \div PageSize)
  <1>1. /\ page \in Nat /\ PageOf(Address(page)) = page /\ Address(page) \in Nat
        /\ PageSize \in Nat
    BY MemoryPages, PmmConstants
  <1>2. pointer \in Nat /\ pointer - PageSize = Address(page)
    BY <1>1
  <1>. DEFINE whole == next_pow_of_two(size) \div PageSize
              count == BigPages(next_pow_of_two(size))
  <1>3. whole \in Nat \ {0} /\ count \in Nat \ {0} /\ count - 1 = whole
    BY BigBlock
  <1>. HIDE DEF whole, count
  <1>4. page .. (page + whole) = page .. (page + count - 1) /\ page \in page .. (page + whole)
    BY <1>1, <1>3
  <1>. QED  BY <1>1, <1>2, <1>4 DEF whole, count

\* An object lies in a page of the slabs.
LEMMA ObjectInPage ==
  ASSUME PmmInv, SlabPagesOK, S!TypeOK, SlabsLaidOut, SlabsReady,
         NEW i \in S!Slabs, NEW p \in S!ObjectsOf(i)
  PROVE  \E page \in 1 .. (highest_page - 1) :
           /\ page \in SlabPageSet
           /\ Address(page) <= p /\ p + Size[i] <= Address(page) + PageSize
           /\ p + Size[i] < Address(page) + PageSize \/ EndsPage(i)
  <1>1. /\ p \in Nat /\ Size[i] \in Nat \ {0} /\ slabs[i].start \in Nat
        /\ slabs[i].start <= p /\ p + Size[i] <= slabs[i].start + MaxSlabSize
    BY ObjectsInside
  <1>2. PICK k \in DOMAIN pages : InPage(i, k)
    BY DEF SlabsLaidOut
  <1>3. PICK page \in 1 .. (highest_page - 1) : pages[k] = Address(page)
    BY DEF SlabPagesOK
  <1>4. PageOf(Address(page)) = page /\ Address(page) \in Nat
    BY MemoryPages
  <1>5. page \in SlabPageSet
    BY <1>3, <1>4 DEF SlabPageSet
  <1>6. /\ Address(page) <= slabs[i].start
        /\ slabs[i].start + MaxSlabSize <= Address(page) + PageSize
        /\ slabs[i].start + MaxSlabSize < Address(page) + PageSize \/ EndsPage(i)
    BY <1>2, <1>3 DEF InPage
  <1>7. MaxSlabSize \in Nat /\ PageSize \in Nat
    BY SlabConstants
  <1>8. Address(page) <= p /\ p + Size[i] <= Address(page) + PageSize
    BY <1>1, <1>4, <1>6, <1>7
  <1>9. p + Size[i] < Address(page) + PageSize \/ EndsPage(i)
    BY <1>1, <1>4, <1>6, <1>7
  <1>. QED  BY <1>5, <1>8, <1>9

\* The block of a holder is big or small.
LEMMA Blocks ==
  ASSUME KmallocInv, NEW c \in Holders
  PROVE  /\ c \in Clients /\ held[c] # NoBlock /\ held[c].size \in Requests
         /\ held[c].pointer \in Nat /\ SlabsReady /\ phase = "ready"
  <1>1. c \in Clients /\ held[c] # NoBlock
    BY DEF Holders
  <1>2. held[c].size \in Requests /\ SlabsReady
    BY DEF KmallocInv, BlocksTyped
  <1>3. held[c].pointer \in Nat
    <2>1. held[c] \in [pointer : Nat, size : Requests \cup {0}]
      BY <1>1 DEF KmallocInv, BlocksTyped
    <2>. QED  BY <2>1
  <1>4. phase = "ready"
    <2>1. phase \in {"boot", "ready"}
      BY PmmTypes DEF KmallocInv
    <2>2. phase # "boot"
      BY <1>2, KmallocAssumption DEF KmallocInv, SlabPagesOK, SlabsReady
    <2>. QED  BY <2>1, <2>2
  <1>. QED  BY <1>1, <1>2, <1>3, <1>4

\* kfree tells big blocks from small ones.
LEMMA InvImpliesFreeFindsAllocator ==
  ASSUME EmptyRequestsSafe, KmallocInv
  PROVE  FreeFindsAllocator
  <1>. SUFFICES ASSUME NEW c \in Holders
                PROVE  /\ (held[c].pointer % PageSize = 0) <=> IsBig(held[c].size)
                       /\ IsBig(held[c].size) /\ IsBacked(c)
                            => metadata[held[c].pointer - PageSize]
                                 = next_pow_of_two(held[c].size)
    BY DEF FreeFindsAllocator
  <1>1. /\ c \in Clients /\ held[c] # NoBlock /\ held[c].size \in Requests
        /\ held[c].pointer \in Nat /\ SlabsReady
    BY Blocks
  <1>2. PmmInv /\ SlabPagesOK /\ S!TypeOK /\ SlabsLaidOut /\ SmallBlocksOK /\ BigBlocksOK
    BY DEF KmallocInv
  <1>3. CASE IsBig(held[c].size)
    <2>1. PICK page \in 1 .. (highest_page - 1) :
            /\ held[c].pointer = Address(page) + PageSize
            /\ metadata[Address(page)] = next_pow_of_two(held[c].size)
      BY <1>1, <1>2, <1>3 DEF BigBlocksOK
    <2>2. held[c].pointer - PageSize = Address(page)
      BY <1>1, <1>2, <1>3, <2>1, PagesOfBigBlock
    <2>3. held[c].pointer % PageSize = 0
      BY <1>2, <2>1, MemoryPages
    <2>. QED  BY <1>3, <2>1, <2>2, <2>3, Zenon
  <1>4. CASE ~IsBig(held[c].size)
    <2>1. PageSize \in Nat \ {0} /\ MetaBytes \in Nat \ {0} /\ MetaBytes < PageSize
      BY KmallocAssumption, PmmConstants
    <2>. DEFINE pointer == held[c].pointer
    <2>2. CASE Object(c) = NULL
      <3>1. pointer = MetaBytes
        BY <1>1, <2>1, <2>2 DEF Object, NULL
      <3>2. MetaBytes % PageSize = MetaBytes
        BY <2>1, RemainderSmall
      <3>. QED  BY <1>4, <2>1, <3>1, <3>2
    <2>3. CASE Object(c) # NULL
      <3>1. PICK i \in S!Slabs : /\ Size[i] = next_pow_of_two(held[c].size + MetaBytes)
                                 /\ IsTaken(c, i)
        BY <1>1, <1>2, <1>4, <2>3 DEF SmallBlocksOK, Small
      <3>. DEFINE p == Object(c)
      <3>2. p \in S!ObjectsOf(i)
        BY <3>1 DEF IsTaken
      <3>3. PICK page \in 1 .. (highest_page - 1) :
              /\ Address(page) <= p /\ p + Size[i] <= Address(page) + PageSize
              /\ p + Size[i] < Address(page) + PageSize \/ EndsPage(i)
        BY <1>1, <1>2, <3>2, ObjectInPage
      <3>4. Address(page) \in Nat /\ Address(page) % PageSize = 0
        BY <1>2, MemoryPages
      <3>5. /\ Size[i] >= MetaBytes /\ Size[i] \in Nat
            /\ Size[i] = MetaBytes => ~EndsPage(i)
        <4>1. /\ held[c].size \in Nat
              /\ next_pow_of_two(held[c].size + MetaBytes) \in Nat
              /\ next_pow_of_two(held[c].size + MetaBytes) >= held[c].size + MetaBytes
          BY <1>1, RequestRounded
        <4>2. held[c].size = 0 \/ Size[i] > MetaBytes
          BY <2>1, <3>1, <4>1
        <4>3. Size[i] >= MetaBytes /\ Size[i] \in Nat
          BY <2>1, <3>1, <4>1
        <4>4. ASSUME Size[i] = MetaBytes PROVE ~EndsPage(i)
          <5>1. held[c].size = 0
            BY <2>1, <4>2, <4>4
          <5>. QED  BY <1>1, <4>4, <5>1 DEF EmptyRequestsSafe
        <4>. QED  BY <4>3, <4>4
      <3>6. p \in Nat /\ pointer = p + MetaBytes
        <4>1. p \in Nat
          BY <1>2, <3>2, ObjectsInside
        <4>2. p = pointer - MetaBytes
          BY DEF Object
        <4>. HIDE DEF p, pointer
        <4>3. pointer \in Nat
          BY <1>1 DEF pointer
        <4>. QED  BY <2>1, <4>1, <4>2, <4>3
      <3>. HIDE DEF p, pointer
      <3>. DEFINE r == pointer - Address(page)
      <3>7. r \in Nat /\ r < PageSize /\ r # 0 /\ pointer = r + Address(page)
        <4>1. p + MetaBytes < Address(page) + PageSize
          <5>1. CASE Size[i] = MetaBytes
            BY <3>3, <3>5, <5>1
          <5>2. CASE Size[i] > MetaBytes
            BY <2>1, <3>3, <3>4, <3>5, <3>6, <5>2
          <5>. QED  BY <2>1, <3>5, <5>1, <5>2
        <4>. QED  BY <2>1, <3>3, <3>4, <3>6, <4>1
      <3>. HIDE DEF r
      <3>8. pointer % PageSize = r
        <4>. DEFINE start == Address(page)
        <4>1. start \in Int /\ start % PageSize = 0 /\ PageSize \in Nat \ {0} /\ r \in Int
          BY <2>1, <3>4, <3>7
        <4>2. pointer = r + start
          BY <3>7
        <4>. HIDE DEF start
        <4>3. (r + start) % PageSize = r % PageSize
          BY <4>1, RemainderShift
        <4>4. r % PageSize = r
          BY <3>7, <4>1, RemainderSmall
        <4>. QED  BY <4>2, <4>3, <4>4
      <3>. QED  BY <1>4, <3>7, <3>8 DEF pointer
    <2>. QED  BY <2>2, <2>3
  <1>. QED  BY <1>3, <1>4
----------------------------------------------------------------------------
(* kmalloc.                                                                *)

\* Where kmalloc writes its metadata, the size is read again; elsewhere the
\* metadata is kept.
LEMMA Written ==
  ASSUME BlocksTyped, NEW address \in Nat, NEW size \in {2 ^ k : k \in 1 .. MaxPower},
         Write(address, size)
  PROVE  /\ DOMAIN metadata' = DOMAIN metadata \cup {address}
         /\ metadata'[address] = size
         /\ \A a \in DOMAIN metadata \ {address} : metadata'[a] = metadata[a]
         /\ DOMAIN metadata' \subseteq Nat
         /\ \A a \in DOMAIN metadata' : metadata'[a] \in {2 ^ k : k \in 1 .. MaxPower}
  <1>1. /\ DOMAIN metadata' = DOMAIN metadata \cup {address}
        /\ \A a \in DOMAIN metadata \cup {address} :
             metadata'[a] = IF a = address THEN size ELSE metadata[a]
    BY Zenon DEF Write
  <1>. QED  BY <1>1, Zenon DEF BlocksTyped

\* The client that kmalloc returns to holds one block more, and every other
\* client its own.
LEMMA Returned ==
  ASSUME BlocksTyped, NEW c \in Clients, held[c] = NoBlock, NEW size \in Requests,
         NEW pointer \in Nat \ {0}, Return(c, size, pointer)
  PROVE  /\ held' \in [Clients -> [pointer : Nat, size : Requests \cup {0}]]
         /\ held'[c].pointer = pointer /\ held'[c].size = size /\ held'[c] # NoBlock
         /\ \A d \in Clients \ {c} : held'[d] = held[d]
         /\ Holders' = Holders \cup {c} /\ c \notin Holders
         /\ \A d \in Clients \ {c} : BlockPages(d)' = BlockPages(d)
  <1>1. held \in [Clients -> [pointer : Nat, size : Requests \cup {0}]]
    BY DEF BlocksTyped
  <1>2. held' = [held EXCEPT ![c] = [pointer |-> pointer, size |-> size]]
    BY DEF Return
  <1>3. /\ held' \in [Clients -> [pointer : Nat, size : Requests \cup {0}]]
        /\ held'[c] = [pointer |-> pointer, size |-> size]
        /\ \A d \in Clients \ {c} : held'[d] = held[d]
    BY <1>1, <1>2
  <1>4. held'[c].pointer = pointer /\ held'[c].size = size
    BY <1>3
  <1>5. held'[c] # NoBlock
    BY <1>4 DEF NoBlock, NULL
  <1>6. Holders' = Holders \cup {c} /\ c \notin Holders
    BY <1>3, <1>5 DEF Holders
  <1>7. \A d \in Clients \ {c} : BlockPages(d)' = BlockPages(d)
    BY <1>3 DEF BlockPages
  <1>. QED  BY <1>3, <1>4, <1>5, <1>6, <1>7

LEMMA UnionOfOneMore ==
  ASSUME NEW F, NEW T
  PROVE  UNION (F \cup {T}) = (UNION F) \cup T
OBVIOUS

LEMMA BigAllocKeepsInv ==
  ASSUME KmallocInv, RunsWereFree, NEW c \in Clients, NEW size \in Requests,
         SlabsReady, held[c] = NoBlock, big_alloc(c, size), UNCHANGED pages
  PROVE  /\ KmallocInv' /\ \E run : BlockPages(c)' = run /\ Marks(run)
         /\ Holders' = Holders \cup {c} /\ \A d \in Holders : held'[d] = held[d]
  <1>. DEFINE new == next_pow_of_two(size)
              count == BigPages(new)
  <1>1. /\ PmmInv /\ SlabPagesOK /\ S!TypeOK /\ SlabsLaidOut /\ FreeOnce /\ SmallBlocksOK
        /\ SmallOnce /\ BigBlocksOK /\ Accounting /\ BlocksTyped
    BY DEF KmallocInv
  <1>2. PICK pointer \in 0 .. (AddrPages - 1) :
          /\ P!pmm_alloc(count, pointer)
          /\ Write(pointer * PageSize, new)
          /\ Return(c, size, pointer * PageSize + PageSize)
    BY DEF big_alloc
  <1>3. /\ IsBig(size) /\ pages' = pages /\ slabs' = slabs /\ phase' = phase
        /\ memory_map' = memory_map /\ highest_page' = highest_page
    BY DEF big_alloc
  <1>4. phase = "ready"
    <2>1. phase \in {"boot", "ready"}
      BY <1>1, PmmTypes
    <2>. QED  BY <1>1, <2>1, KmallocAssumption DEF SlabPagesOK, SlabsReady
  <1>5. /\ new \in Nat /\ new \div PageSize \in Nat \ {0} /\ count \in Nat \ {0}
        /\ count - 1 = new \div PageSize
    BY <1>3, BigBlock
  <1>6. new \in {2 ^ k : k \in 1 .. MaxPower}
    BY RequestRounded
  <1>. HIDE DEF count, new
  <1>7. pointer * PageSize \in Nat /\ pointer * PageSize + PageSize \in Nat \ {0}
    BY PmmConstants
  <1>8. /\ held' \in [Clients -> [pointer : Nat, size : Requests \cup {0}]]
        /\ held'[c].pointer = pointer * PageSize + PageSize
        /\ held'[c].size = size /\ held'[c] # NoBlock
        /\ \A d \in Clients \ {c} : held'[d] = held[d]
        /\ Holders' = Holders \cup {c} /\ c \notin Holders
        /\ \A d \in Clients \ {c} : BlockPages(d)' = BlockPages(d)
    BY <1>1, <1>2, <1>7, Returned
  <1>9. BlockPages(c)' = PageOf(pointer * PageSize) ..
                           (PageOf(pointer * PageSize) + new \div PageSize)
    <2>1. BlockPages(c)' = PageOf(held'[c].pointer - PageSize) ..
            (PageOf(held'[c].pointer - PageSize) + next_pow_of_two(held'[c].size) \div PageSize)
      BY <1>3, <1>8, Zenon DEF BlockPages, PageOf, P!higher_half_data_to_phys
    <2>2. held'[c].pointer - PageSize = pointer * PageSize
      BY <1>7, <1>8, PmmConstants
    <2>. QED  BY <1>8, <2>1, <2>2 DEF new
  <1>10. BlockPages(c)' \subseteq P!ClearBits
    BY <1>3, <1>8 DEF RunsWereFree
  <1>11. pointer # NULL
    <2>1. NULL * PageSize = NULL
      BY PmmConstants DEF NULL
    <2>2. PageOf(NULL) \in Int
      <3>1. PageOf(NULL) = ((NULL \div PageSize) - HigherHalf) % AddrPages
        BY SMT DEF PageOf, P!higher_half_data_to_phys
      <3>2. /\ (NULL \div PageSize) - HigherHalf \in Int /\ AddrPages \in Nat \ {0}
        BY PmmConstants DEF NULL
      <3>. QED  BY <3>1, <3>2, DivisionWithRemainder
    <2>3. pointer = NULL => PageOf(NULL) \in BlockPages(c)'
      <3>. DEFINE first == PageOf(NULL)
      <3>1. first \in first .. (first + new \div PageSize)
        <4>1. first \in Int
          BY <2>2
        <4>. HIDE DEF first
        <4>. QED  BY <1>5, <4>1
      <3>. QED  BY <1>9, <2>1, <3>1
    <2>. QED  BY <1>1, <1>10, <2>3, NullNotClear
  <1>12. PICK page \in 1 .. (highest_page - 1) :
           /\ page \in P!ClearBits
           /\ pointer = HigherHalf + page
           /\ bitmap' = P!SetBits(bitmap, P!RunBits(page, count))
           /\ stray' = (stray \/ P!Outside(bitmap, P!RunBits(page, count)))
           /\ used_pages' = (used_pages + count) % CounterMod
    BY <1>1, <1>2, <1>4, <1>11, AllocOutcome
  <1>13. pointer * PageSize = Address(page)
    BY <1>12 DEF Address
  <1>14. page \in Nat /\ PageOf(Address(page)) = page
    BY <1>1, MemoryPages
  <1>. DEFINE run == page .. (page + count - 1)
  <1>15. BlockPages(c)' = run
    BY <1>5, <1>9, <1>13, <1>14
  <1>16. PmmInv' /\ P!Pool' = P!Pool /\ P!ClearBits' = P!ClearBits \ run /\ Marks(run)
    <2>1. run \subseteq P!ClearBits
      BY <1>10, <1>15
    <2>. QED  BY <1>1, <1>3, <1>4, <1>5, <1>12, <1>14, <2>1, MarkRun
  <1>. HIDE DEF run
  <1>17. run \subseteq P!Pool
    BY <1>1, <1>10, <1>15 DEF PmmInv
  <1>18. /\ DOMAIN metadata' = DOMAIN metadata \cup {Address(page)}
         /\ metadata'[Address(page)] = new
         /\ \A a \in DOMAIN metadata \ {Address(page)} : metadata'[a] = metadata[a]
         /\ DOMAIN metadata' \subseteq Nat
         /\ \A a \in DOMAIN metadata' : metadata'[a] \in {2 ^ k : k \in 1 .. MaxPower}
    BY <1>1, <1>2, <1>6, <1>7, <1>13, Written
  <1>19. SlabPagesOK' /\ S!TypeOK' /\ SlabsLaidOut' /\ FreeOnce'
    <2>1. SlabPagesOK'
      BY <1>1, <1>3 DEF SlabPagesOK
    <2>. QED  BY <1>1, <1>3, <2>1 DEF S!TypeOK, S!ObjectsOf, SlabsLaidOut, InPage, SlabsReady,
                FreeOnce
  <1>20. ASSUME NEW d \in Clients, Small(d)'
         PROVE  /\ d # c /\ Small(d) /\ held'[d] = held[d] /\ Object(d)' = Object(d)
                /\ \A i \in S!Slabs : IsTaken(d, i)' <=> IsTaken(d, i)
    <2>1. d # c
      BY <1>3, <1>8, <1>20 DEF Small
    <2>2. held'[d] = held[d]
      BY <1>8, <2>1
    <2>3. Small(d) /\ Object(d)' = Object(d)
      BY <1>20, <2>2 DEF Small, Object
    <2>. QED  BY <1>3, <2>1, <2>2, <2>3 DEF IsTaken, S!ObjectsOf, S!FreeObjects
  <1>21. SmallBlocksOK' /\ SmallOnce'
    <2>1. SmallBlocksOK'
      <3>1. ASSUME NEW d \in Clients, Small(d)'
            PROVE  \/ Object(d)' = NULL
                   \/ \E i \in S!Slabs : /\ Size[i] = next_pow_of_two(held'[d].size + MetaBytes)
                                         /\ IsTaken(d, i)'
        BY <1>1, <1>20, <3>1 DEF SmallBlocksOK
      <3>. QED  BY <3>1 DEF SmallBlocksOK
    <2>2. SmallOnce'
      BY <1>1, <1>20 DEF SmallOnce
    <2>. QED  BY <2>1, <2>2
  <1>22. BigBlocksOK'
    <2>1. ASSUME NEW d \in Clients, held'[d] # NoBlock, IsBig(held'[d].size)
          PROVE  \E other \in 1 .. (highest_page' - 1) :
                   /\ held'[d].pointer = Address(other) + PageSize
                   /\ Address(other) \in DOMAIN metadata'
                   /\ metadata'[Address(other)] = next_pow_of_two(held'[d].size)
      <3>1. CASE d = c
        BY <1>3, <1>8, <1>13, <1>18, <3>1 DEF new
      <3>2. CASE d # c
        <4>1. held'[d] = held[d] /\ d \in Holders
          BY <1>8, <2>1, <3>2 DEF Holders
        <4>2. PICK other \in 1 .. (highest_page - 1) :
                /\ held[d].pointer = Address(other) + PageSize
                /\ Address(other) \in DOMAIN metadata
                /\ metadata[Address(other)] = next_pow_of_two(held[d].size)
          BY <1>1, <2>1, <4>1 DEF BigBlocksOK
        <4>3. held[d].size \in Requests
          BY <4>1, Blocks
        <4>4. other \in BlockPages(d)
          BY <1>1, <2>1, <4>1, <4>2, <4>3, PagesOfBigBlock DEF BlockPages
        <4>5. other \notin P!ClearBits
          BY <1>1, <4>1, <4>4 DEF Accounting
        <4>6. Address(other) # Address(page)
          <5>1. PageOf(Address(other)) = other
            BY <1>1, MemoryPages
          <5>. QED  BY <1>12, <1>14, <4>5, <5>1
        <4>. QED  BY <1>3, <1>18, <4>1, <4>2, <4>6
      <3>. QED  BY <3>1, <3>2
    <2>. QED  BY <2>1 DEF BigBlocksOK
  <1>23. Accounting'
    <2>1. SlabPageSet' = SlabPageSet
      BY <1>3 DEF SlabPageSet
    <2>2. Holders \subseteq Clients
      BY DEF Holders
    <2>3. UNION {BlockPages(d)' : d \in Holders'} = (UNION {BlockPages(d) : d \in Holders}) \cup run
      <3>1. \A d \in Holders : BlockPages(d)' = BlockPages(d)
        BY <1>8, <2>2
      <3>2. BlockPages(c)' = run
        BY <1>15
      <3>3. {BlockPages(d)' : d \in Holders'} = {BlockPages(d) : d \in Holders} \cup {run}
        BY <1>8, <3>1, <3>2
      <3>. HIDE DEF run
      <3>4. UNION ({BlockPages(d) : d \in Holders} \cup {run})
              = (UNION {BlockPages(d) : d \in Holders}) \cup run
        BY UnionOfOneMore
      <3>. QED  BY <3>3, <3>4, Zenon
    <2>4. P!Pool' \ P!ClearBits' = SlabPageSet' \cup UNION {BlockPages(d)' : d \in Holders'}
      <3>1. P!Pool \ P!ClearBits = SlabPageSet \cup UNION {BlockPages(d) : d \in Holders}
        BY <1>1 DEF Accounting
      <3>. DEFINE owned == UNION {BlockPages(d) : d \in Holders}
                  then == UNION {BlockPages(d)' : d \in Holders'}
      <3>2. /\ P!Pool \ P!ClearBits = SlabPageSet \cup owned /\ then = owned \cup run
            /\ P!Pool' \ P!ClearBits' = P!Pool \ (P!ClearBits \ run)
            /\ SlabPageSet' = SlabPageSet
        <4>1. P!Pool' \ P!ClearBits' = P!Pool \ (P!ClearBits \ run)
          BY <1>16, Zenon
        <4>2. P!Pool \ P!ClearBits = SlabPageSet \cup owned
          BY <3>1
        <4>3. then = owned \cup run
          BY <2>3, Zenon
        <4>. HIDE DEF owned, then
        <4>. QED  BY <2>1, <4>1, <4>2, <4>3, Zenon
      <3>. HIDE DEF owned, then
      <3>3. P!Pool' \ P!ClearBits' = SlabPageSet' \cup then
        BY <1>17, <3>2
      <3>. QED  BY <3>3 DEF then
    <2>5. run \cap SlabPageSet = {} /\ \A d \in Holders : BlockPages(d) \cap run = {}
      BY <1>1, <1>10, <1>15 DEF Accounting
    <2>6. \A d \in Holders' : BlockPages(d)' \cap SlabPageSet' = {}
      BY <1>1, <1>8, <1>15, <2>1, <2>2, <2>5 DEF Accounting
    <2>7. ASSUME NEW d \in Holders', NEW e \in Holders', d # e
          PROVE  BlockPages(d)' \cap BlockPages(e)' = {}
      <3>1. CASE d = c
        BY <1>8, <1>15, <2>2, <2>5, <2>7, <3>1
      <3>2. CASE e = c
        BY <1>8, <1>15, <2>2, <2>5, <2>7, <3>2
      <3>3. CASE d # c /\ e # c
        BY <1>1, <1>8, <2>2, <2>7, <3>3 DEF Accounting
      <3>. QED  BY <3>1, <3>2, <3>3
    <2>. QED  BY <2>4, <2>6, <2>7 DEF Accounting
  <1>24. BlocksTyped'
    <2>1. \A d \in Holders' : held'[d].size \in Requests
      BY <1>1, <1>8 DEF BlocksTyped, Holders
    <2>2. SlabsReady'
      BY <1>3 DEF SlabsReady
    <2>. QED  BY <1>8, <1>18, <2>1, <2>2 DEF BlocksTyped
  <1>25. KmallocInv'
    BY <1>16, <1>19, <1>21, <1>22, <1>23, <1>24 DEF KmallocInv
  <1>26. \A d \in Holders : held'[d] = held[d]
    BY <1>8 DEF Holders
  <1>. QED  BY <1>8, <1>15, <1>16, <1>25, <1>26

\* A step that leaves the physical memory manager alone keeps its part.
LEMMA MemoryKept ==
  ASSUME PmmInv, UNCHANGED memVars
  PROVE  PmmInv' /\ P!Pool' = P!Pool /\ P!ClearBits' = P!ClearBits
  <1>1. /\ phase' = phase /\ memory_map' = memory_map /\ highest_page' = highest_page
        /\ bitmap' = bitmap /\ used_pages' = used_pages /\ stray' = stray
    BY DEF memVars
  <1>2. P!Pool' = P!Pool /\ P!BitsIn(bitmap.size)' = P!BitsIn(bitmap.size)
    BY <1>1 DEF P!Pool, P!UsablePages, P!BitsIn
  <1>3. P!ClearBits' = P!ClearBits
    BY <1>1 DEF P!ClearBits, P!Covered, P!BitsIn
  <1>4. P!TypeOK'
    BY <1>1 DEF PmmInv, P!TypeOK
  <1>. QED  BY <1>1, <1>2, <1>3, <1>4 DEF PmmInv

\* The metadata of a big block is not in an object of a slab, and not at NULL.
LEMMA MetadataOutsideSlabs ==
  ASSUME KmallocInv, NEW d \in Holders, IsBig(held[d].size),
         NEW page \in 1 .. (highest_page - 1), held[d].pointer = Address(page) + PageSize,
         NEW object, object = NULL \/ \E i \in S!Slabs : object \in S!ObjectsOf(i)
  PROVE  Address(page) # object
  <1>1. /\ PmmInv /\ SlabPagesOK /\ S!TypeOK /\ SlabsLaidOut /\ Accounting
        /\ SlabsReady /\ held[d].size \in Requests /\ d \in Clients
    BY Blocks DEF KmallocInv
  <1>2. /\ Address(page) \in Nat /\ Address(page) >= PageSize /\ Address(page) % PageSize = 0
        /\ PageSize \in Nat \ {0} /\ PageOf(Address(page)) = page
    BY <1>1, MemoryPages, PmmConstants
  <1>3. CASE object = NULL
    BY <1>2, <1>3 DEF NULL
  <1>4. ASSUME NEW i \in S!Slabs, object \in S!ObjectsOf(i)
        PROVE  Address(page) # object
    <2>1. PICK other \in 1 .. (highest_page - 1) :
            /\ other \in SlabPageSet
            /\ Address(other) <= object /\ object + Size[i] <= Address(other) + PageSize
      BY <1>1, <1>4, ObjectInPage
    <2>2. page \in BlockPages(d)
      BY <1>1, PagesOfBigBlock DEF BlockPages
    <2>3. page # other
      BY <1>1, <2>1, <2>2 DEF Accounting
    <2>4. /\ Address(other) \in Nat /\ Address(other) % PageSize = 0
          /\ PageOf(Address(other)) = other
      BY <1>1, MemoryPages
    <2>5. Address(other) # Address(page)
      BY <1>2, <2>3, <2>4
    <2>6. Address(page) + PageSize <= Address(other) \/ Address(other) + PageSize <= Address(page)
      <3>1. Address(page) \in Int /\ Address(other) \in Int
        BY <1>2, <2>4
      <3>. QED  BY <1>2, <2>4, <2>5, <3>1, MultiplesApart
    <2>7. object \in Nat /\ Size[i] \in Nat \ {0}
      BY <1>1, <1>4, ObjectsInside
    <2>. DEFINE mine  == Address(page)
                start == Address(other)
                size  == Size[i]
    <2>8. /\ mine \in Nat /\ start \in Nat /\ size \in Nat \ {0} /\ PageSize \in Nat
          /\ object \in Nat /\ start <= object /\ object + size <= start + PageSize
          /\ mine + PageSize <= start \/ start + PageSize <= mine
      BY <1>2, <2>1, <2>4, <2>6, <2>7
    <2>. HIDE DEF mine, start, size
    <2>9. mine # object
      BY <2>8
    <2>. QED  BY <2>9 DEF mine
  <1>. QED  BY <1>3, <1>4

\* Every big block was held before.
BigBlocksKept ==
  \A d \in Holders' : IsBig(held'[d].size) => d \in Holders /\ held'[d] = held[d]

LEMMA SmallAllocKeepsInv ==
  ASSUME KmallocInv, NEW c \in Clients, NEW size \in Requests,
         SlabsReady, held[c] = NoBlock, small_alloc(c, size), UNCHANGED pages
  PROVE  KmallocInv' /\ P!Pool' = P!Pool /\ P!ClearBits' = P!ClearBits /\ BigBlocksKept
  <1>. DEFINE new == next_pow_of_two(size + MetaBytes)
  <1>1. /\ PmmInv /\ SlabPagesOK /\ S!TypeOK /\ SlabsLaidOut /\ FreeOnce /\ SmallBlocksOK
        /\ SmallOnce /\ BigBlocksOK /\ Accounting /\ BlocksTyped
    BY DEF KmallocInv
  <1>2. PICK object \in {NULL} \cup UNION {S!FreeObjects(i) : i \in S!Slabs} :
          /\ S!slab_alloc(new, object)
          /\ Write(object, new)
          /\ Return(c, size, object + MetaBytes)
    BY DEF small_alloc
  <1>3. ~IsBig(size) /\ UNCHANGED memVars /\ pages' = pages
    BY DEF small_alloc
  <1>4. PmmInv' /\ P!Pool' = P!Pool /\ P!ClearBits' = P!ClearBits /\ highest_page' = highest_page
        /\ phase' = phase
    BY <1>1, <1>3, MemoryKept DEF memVars
  <1>5. new \in {2 ^ k : k \in 1 .. MaxPower}
    BY RequestRounded
  <1>. HIDE DEF new
  <1>6. /\ LayoutKept /\ S!TypeOK' /\ FreeOnce'
        /\ \A j \in S!Slabs : S!FreeObjects(j)' \subseteq S!FreeObjects(j)
        /\ \/ object = NULL
           \/ \E i \in S!Slabs : /\ Size[i] = new /\ object # NULL
                                 /\ object \in S!FreeObjects(i) \ S!FreeObjects(i)'
    BY <1>1, <1>2, SlabAllocates
  <1>7. object = NULL \/ \E i \in S!Slabs : object \in S!ObjectsOf(i)
    BY <1>1, <1>6, SlotObjects
  <1>8. /\ object \in Nat /\ object + MetaBytes \in Nat \ {0}
        /\ (object + MetaBytes) - MetaBytes = object
    <2>1. object \in Nat
      BY <1>1, <1>7, ObjectsInside DEF NULL
    <2>. QED  BY <2>1, KmallocAssumption
  <1>9. /\ held' \in [Clients -> [pointer : Nat, size : Requests \cup {0}]]
        /\ held'[c].pointer = object + MetaBytes /\ held'[c].size = size /\ held'[c] # NoBlock
        /\ \A d \in Clients \ {c} : held'[d] = held[d]
        /\ Holders' = Holders \cup {c} /\ c \notin Holders
        /\ \A d \in Clients \ {c} : BlockPages(d)' = BlockPages(d)
    BY <1>1, <1>2, <1>8, Returned
  <1>10. /\ DOMAIN metadata' = DOMAIN metadata \cup {object}
         /\ \A a \in DOMAIN metadata \ {object} : metadata'[a] = metadata[a]
         /\ DOMAIN metadata' \subseteq Nat
         /\ \A a \in DOMAIN metadata' : metadata'[a] \in {2 ^ k : k \in 1 .. MaxPower}
    BY <1>1, <1>2, <1>5, <1>8, Written
  <1>11. SlabPagesOK' /\ SlabsLaidOut'
    <2>1. SlabPagesOK'
      BY <1>1, <1>3, <1>4 DEF SlabPagesOK
    <2>. QED  BY <1>1, <1>3, <1>6, <2>1, LayoutKeepsSlabs
  <1>12. \A i \in S!Slabs : S!ObjectsOf(i)' = S!ObjectsOf(i)
    BY <1>6 DEF LayoutKept
  <1>13. Small(c)' /\ Object(c)' = object
    BY <1>3, <1>8, <1>9 DEF Small, Object
  <1>14. ASSUME NEW d \in Clients \ {c}
         PROVE  /\ held'[d] = held[d] /\ (Small(d)' <=> Small(d)) /\ Object(d)' = Object(d)
                /\ \A i \in S!Slabs : IsTaken(d, i) => IsTaken(d, i)'
    <2>1. held'[d] = held[d]
      BY <1>9
    <2>2. (Small(d)' <=> Small(d)) /\ Object(d)' = Object(d)
      BY <2>1 DEF Small, Object
    <2>3. \A i \in S!Slabs : IsTaken(d, i) => IsTaken(d, i)'
      BY <1>6, <1>12, <2>2 DEF IsTaken
    <2>. QED  BY <2>1, <2>2, <2>3
  <1>15. SmallBlocksOK'
    <2>1. ASSUME NEW d \in Clients, Small(d)'
          PROVE  \/ Object(d)' = NULL
                 \/ \E i \in S!Slabs : /\ Size[i] = next_pow_of_two(held'[d].size + MetaBytes)
                                       /\ IsTaken(d, i)'
      <3>1. CASE d = c
        <4>1. CASE object = NULL
          BY <1>13, <3>1, <4>1
        <4>2. CASE object # NULL
          <5>1. PICK i \in S!Slabs : /\ Size[i] = new
                                     /\ object \in S!FreeObjects(i) \ S!FreeObjects(i)'
            BY <1>6, <4>2
          <5>2. object \in S!ObjectsOf(i)'
            BY <1>1, <1>12, <5>1, SlotObjects
          <5>3. IsTaken(c, i)'
            BY <1>13, <5>1, <5>2 DEF IsTaken
          <5>4. Size[i] = next_pow_of_two(held'[c].size + MetaBytes)
            BY <1>9, <5>1 DEF new
          <5>. QED  BY <3>1, <5>3, <5>4
        <4>. QED  BY <4>1, <4>2
      <3>2. CASE d # c
        BY <1>1, <1>14, <2>1, <3>2 DEF SmallBlocksOK
      <3>. QED  BY <3>1, <3>2
    <2>. QED  BY <2>1 DEF SmallBlocksOK
  <1>16. SmallOnce'
    <2>1. ASSUME NEW d \in Clients \ {c}, Small(d), Object(d) # NULL
          PROVE  Object(d) # object
      <3>1. CASE object = NULL
        BY <2>1, <3>1
      <3>2. CASE object # NULL
        <4>1. PICK i \in S!Slabs : object \in S!FreeObjects(i)
          BY <1>6, <3>2
        <4>2. PICK j \in S!Slabs : IsTaken(d, j)
          BY <1>1, <2>1 DEF SmallBlocksOK
        <4>3. object \in S!ObjectsOf(i)
          BY <1>1, <4>1, SlotObjects
        <4>4. CASE i = j
          BY <4>1, <4>2, <4>4 DEF IsTaken
        <4>5. CASE i # j
          <5>1. object \notin S!ObjectsOf(j)
            BY <1>1, <4>3, <4>5, SlabOfObject
          <5>. QED  BY <4>2, <5>1 DEF IsTaken
        <4>. QED  BY <4>4, <4>5
      <3>. QED  BY <3>1, <3>2
    <2>2. ASSUME NEW d \in Clients, NEW e \in Clients, d # e, Small(d)', Small(e)',
                 Object(d)' # NULL
          PROVE  Object(d)' # Object(e)'
      <3>1. CASE d = c
        <4>1. e \in Clients \ {c} /\ Object(e)' = Object(e) /\ Small(e) /\ Object(d)' = object
          BY <1>13, <1>14, <2>2, <3>1
        <4>. QED  BY <2>1, <2>2, <4>1
      <3>2. CASE e = c
        <4>1. d \in Clients \ {c} /\ Object(d)' = Object(d) /\ Small(d) /\ Object(e)' = object
          BY <1>13, <1>14, <2>2, <3>2
        <4>. QED  BY <2>1, <2>2, <4>1
      <3>3. CASE d # c /\ e # c
        BY <1>1, <1>14, <2>2, <3>3 DEF SmallOnce
      <3>. QED  BY <3>1, <3>2, <3>3
    <2>. QED  BY <2>2 DEF SmallOnce
  <1>17. BigBlocksOK'
    <2>1. ASSUME NEW d \in Clients, held'[d] # NoBlock, IsBig(held'[d].size)
          PROVE  \E page \in 1 .. (highest_page' - 1) :
                   /\ held'[d].pointer = Address(page) + PageSize
                   /\ Address(page) \in DOMAIN metadata'
                   /\ metadata'[Address(page)] = next_pow_of_two(held'[d].size)
      <3>1. d # c
        BY <1>3, <1>9, <2>1
      <3>2. held'[d] = held[d] /\ d \in Holders
        BY <1>9, <2>1, <3>1 DEF Holders
      <3>3. PICK page \in 1 .. (highest_page - 1) :
              /\ held[d].pointer = Address(page) + PageSize
              /\ Address(page) \in DOMAIN metadata
              /\ metadata[Address(page)] = next_pow_of_two(held[d].size)
        BY <1>1, <2>1, <3>2 DEF BigBlocksOK
      <3>4. Address(page) # object
        BY <1>7, <2>1, <3>2, <3>3, MetadataOutsideSlabs
      <3>. QED  BY <1>4, <1>10, <3>2, <3>3, <3>4
    <2>. QED  BY <2>1 DEF BigBlocksOK
  <1>18. Accounting'
    <2>1. SlabPageSet' = SlabPageSet
      BY <1>3 DEF SlabPageSet
    <2>2. Holders \subseteq Clients
      BY DEF Holders
    <2>3. BlockPages(c)' = {}
      BY <1>3, <1>9 DEF BlockPages
    <2>4. \A d \in Holders : BlockPages(d)' = BlockPages(d)
      BY <1>9, <2>2
    <2>5. UNION {BlockPages(d)' : d \in Holders'} = UNION {BlockPages(d) : d \in Holders}
      <3>1. {BlockPages(d)' : d \in Holders'} = {BlockPages(d) : d \in Holders} \cup {{}}
        BY <1>9, <2>3, <2>4
      <3>2. UNION ({BlockPages(d) : d \in Holders} \cup {{}})
              = (UNION {BlockPages(d) : d \in Holders}) \cup {}
        BY UnionOfOneMore
      <3>. QED  BY <3>1, <3>2
    <2>6. P!Pool' \ P!ClearBits' = SlabPageSet' \cup UNION {BlockPages(d)' : d \in Holders'}
      <3>1. P!Pool \ P!ClearBits = SlabPageSet \cup UNION {BlockPages(d) : d \in Holders}
        BY <1>1 DEF Accounting
      <3>. QED  BY <1>4, <2>1, <2>5, <3>1, Zenon
    <2>7. \A d \in Holders' : BlockPages(d)' \cap SlabPageSet' = {}
      BY <1>1, <1>9, <2>1, <2>3, <2>4 DEF Accounting
    <2>8. \A d, e \in Holders' : d # e => BlockPages(d)' \cap BlockPages(e)' = {}
      BY <1>1, <1>9, <2>3, <2>4 DEF Accounting
    <2>. QED  BY <2>6, <2>7, <2>8 DEF Accounting
  <1>19. BlocksTyped'
    <2>1. \A d \in Holders' : held'[d].size \in Requests
      BY <1>1, <1>9 DEF BlocksTyped, Holders
    <2>2. SlabsReady'
      BY <1>3 DEF SlabsReady
    <2>. QED  BY <1>9, <1>10, <2>1, <2>2 DEF BlocksTyped
  <1>20. KmallocInv'
    BY <1>4, <1>6, <1>11, <1>15, <1>16, <1>17, <1>18, <1>19 DEF KmallocInv
  <1>21. BigBlocksKept
    BY <1>3, <1>9 DEF BigBlocksKept, Holders
  <1>. QED  BY <1>4, <1>20, <1>21
----------------------------------------------------------------------------
(* kfree.                                                                  *)

\* A client that frees its block holds none, and the others keep theirs.
LEMMA Released ==
  ASSUME BlocksTyped, NEW c \in Clients, held' = [held EXCEPT ![c] = NoBlock],
         UNCHANGED <<pages, metadata>>
  PROVE  /\ held'[c] = NoBlock
         /\ \A d \in Clients \ {c} :
              /\ held'[d] = held[d]
              /\ Small(d)' <=> Small(d)
              /\ Object(d)' = Object(d) /\ BlockPages(d)' = BlockPages(d)
         /\ ~Small(c)' /\ Holders' = Holders \ {c}
         /\ \A d \in Holders' : d \in Clients \ {c} /\ d \in Holders
         /\ SlabPageSet' = SlabPageSet
         /\ BlocksTyped'
  <1>1. held \in [Clients -> [pointer : Nat, size : Requests \cup {0}]]
    BY DEF BlocksTyped
  <1>2. NoBlock \in [pointer : Nat, size : Requests \cup {0}]
    BY DEF NoBlock, NULL
  <1>3. /\ held' \in [Clients -> [pointer : Nat, size : Requests \cup {0}]]
        /\ held'[c] = NoBlock /\ \A d \in Clients \ {c} : held'[d] = held[d]
    BY <1>1, <1>2
  <1>4. /\ ~Small(c)'
        /\ \A d \in Clients \ {c} : /\ Small(d)' <=> Small(d)
                                    /\ Object(d)' = Object(d) /\ BlockPages(d)' = BlockPages(d)
    BY <1>3 DEF Small, Object, BlockPages
  <1>5. Holders' = Holders \ {c} /\ \A d \in Holders' : d \in Clients \ {c} /\ d \in Holders
    BY <1>3 DEF Holders
  <1>6. SlabPageSet' = SlabPageSet /\ SlabsReady' = SlabsReady
    BY DEF SlabPageSet, SlabsReady
  <1>7. BlocksTyped'
    <2>1. \A d \in Holders' : held'[d].size \in Requests
      BY <1>3, <1>5 DEF BlocksTyped
    <2>2. ~SlabsReady' => Holders' = {}
      BY <1>5, <1>6 DEF BlocksTyped
    <2>. QED  BY <1>3, <2>1, <2>2 DEF BlocksTyped
  <1>. QED  BY <1>3, <1>4, <1>5, <1>6, <1>7

\* The big blocks of the other clients keep their metadata.
LEMMA OtherBigBlocks ==
  ASSUME KmallocInv, NEW c \in Clients, held' = [held EXCEPT ![c] = NoBlock],
         UNCHANGED <<pages, metadata, highest_page>>
  PROVE  BigBlocksOK'
  <1>1. held'[c] = NoBlock /\ \A d \in Clients \ {c} : held'[d] = held[d]
    BY Released DEF KmallocInv
  <1>2. ASSUME NEW d \in Clients, held'[d] # NoBlock, IsBig(held'[d].size)
        PROVE  \E page \in 1 .. (highest_page' - 1) :
                 /\ held'[d].pointer = Address(page) + PageSize
                 /\ Address(page) \in DOMAIN metadata'
                 /\ metadata'[Address(page)] = next_pow_of_two(held'[d].size)
    <2>1. d # c /\ held'[d] = held[d]
      BY <1>1, <1>2
    <2>. QED  BY <1>2, <2>1 DEF KmallocInv, BigBlocksOK
  <1>. QED  BY <1>2 DEF BigBlocksOK

\* kfree of a big block gives back the pages that kmalloc took: it reads
\* their number from the metadata.
LEMMA BigFreeKeepsInv ==
  ASSUME KmallocInv, NEW c \in Clients, Kfree(c), IsBig(held[c].size)
  PROVE  /\ KmallocInv' /\ Frees(BlockPages(c))
         /\ Holders' = Holders \ {c} /\ \A d \in Holders' : held'[d] = held[d]
  <1>1. /\ PmmInv /\ SlabPagesOK /\ S!TypeOK /\ SlabsLaidOut /\ FreeOnce /\ SmallBlocksOK
        /\ SmallOnce /\ BigBlocksOK /\ Accounting /\ BlocksTyped
    BY DEF KmallocInv
  <1>2. /\ held[c] # NoBlock /\ kfree(held[c].pointer)
        /\ held' = [held EXCEPT ![c] = NoBlock] /\ pages' = pages /\ metadata' = metadata
    BY DEF Kfree
  <1>3. c \in Holders /\ held[c].size \in Requests /\ SlabsReady /\ phase = "ready"
    <2>1. c \in Holders
      BY <1>2 DEF Holders
    <2>. QED  BY <2>1, Blocks
  <1>. DEFINE new == next_pow_of_two(held[c].size)
              count == BigPages(new)
  <1>4. PICK page \in 1 .. (highest_page - 1) :
          /\ held[c].pointer = Address(page) + PageSize
          /\ Address(page) \in DOMAIN metadata /\ metadata[Address(page)] = new
    BY <1>1, <1>2 DEF BigBlocksOK
  <1>5. /\ page \in Nat /\ page \in 0 .. (IntMod - 1)
        /\ held[c].pointer % PageSize = 0
    BY <1>1, <1>4, MemoryPages
  <1>6. /\ held[c].pointer - PageSize = Address(page)
        /\ BlockPages(c) = page .. (page + count - 1)
    BY <1>1, <1>3, <1>4, PagesOfBigBlock DEF BlockPages
  <1>7. P!pmm_free(HigherHalf + page, count) /\ slabs' = slabs
        /\ phase' = phase /\ memory_map' = memory_map /\ highest_page' = highest_page
    <2>1. /\ P!pmm_free((held[c].pointer - PageSize) \div PageSize,
                        BigPages(metadata[held[c].pointer - PageSize]))
          /\ UNCHANGED <<phase, memory_map, highest_page, slabs>>
      BY <1>2, <1>5 DEF kfree
    <2>2. Address(page) \div PageSize = HigherHalf + page
      BY <1>5, AddressNames
    <2>. QED  BY <1>4, <1>6, <2>1, <2>2
  <1>8. count \in Nat \ {0}
    BY <1>3, BigBlock
  <1>. DEFINE run == page .. (page + count - 1)
  <1>9. run \subseteq P!Pool \ P!ClearBits
    BY <1>1, <1>3, <1>6 DEF Accounting
  <1>10. PmmInv' /\ P!Pool' = P!Pool /\ P!ClearBits' = P!ClearBits \cup run /\ Frees(run)
    <2>. HIDE DEF count
    <2>. QED  BY <1>1, <1>3, <1>5, <1>7, <1>8, <1>9, FreeRun
  <1>. HIDE DEF run
  <1>11. /\ held'[c] = NoBlock
         /\ \A d \in Clients \ {c} :
              /\ held'[d] = held[d]
              /\ Small(d)' <=> Small(d)
              /\ Object(d)' = Object(d) /\ BlockPages(d)' = BlockPages(d)
         /\ ~Small(c)' /\ Holders' = Holders \ {c}
         /\ \A d \in Holders' : d \in Clients \ {c} /\ d \in Holders
         /\ SlabPageSet' = SlabPageSet
         /\ BlocksTyped'
    BY <1>1, <1>2, Released
  <1>12. SlabPagesOK' /\ S!TypeOK' /\ SlabsLaidOut' /\ FreeOnce'
    <2>1. SlabPagesOK'
      BY <1>1, <1>2, <1>7 DEF SlabPagesOK
    <2>. QED  BY <1>1, <1>2, <1>7, <2>1 DEF S!TypeOK, S!ObjectsOf, SlabsLaidOut, InPage,
                SlabsReady, FreeOnce
  <1>13. SmallBlocksOK'
    <2>1. ASSUME NEW d \in Clients, Small(d)'
          PROVE  \/ Object(d)' = NULL
                 \/ \E i \in S!Slabs : /\ Size[i] = next_pow_of_two(held'[d].size + MetaBytes)
                                       /\ IsTaken(d, i)'
      <3>1. d # c /\ held'[d] = held[d] /\ Small(d) /\ Object(d)' = Object(d)
        BY <1>11, <2>1
      <3>2. \A i \in S!Slabs : IsTaken(d, i)' <=> IsTaken(d, i)
        BY <1>7, <3>1 DEF IsTaken, S!ObjectsOf, S!FreeObjects
      <3>. QED  BY <1>1, <3>1, <3>2 DEF SmallBlocksOK
    <2>. QED  BY <2>1 DEF SmallBlocksOK
  <1>14. SmallOnce'
    BY <1>1, <1>11 DEF SmallOnce
  <1>15. BigBlocksOK'
    BY <1>2, <1>7, OtherBigBlocks
  <1>16. Accounting'
    <2>. DEFINE others == UNION {BlockPages(d) : d \in Holders \ {c}}
                owned  == UNION {BlockPages(d) : d \in Holders}
    <2>1. owned = others \cup run /\ run \cap others = {} /\ run \cap SlabPageSet = {}
      <3>1. BlockPages(c) = run
        BY <1>6 DEF run
      <3>2. {BlockPages(d) : d \in Holders} = {BlockPages(d) : d \in Holders \ {c}} \cup {run}
        BY <1>3, <3>1
      <3>3. UNION ({BlockPages(d) : d \in Holders \ {c}} \cup {run}) = others \cup run
        BY UnionOfOneMore
      <3>4. \A d \in Holders \ {c} : BlockPages(d) \cap run = {}
        BY <1>1, <1>3, <3>1 DEF Accounting
      <3>. QED  BY <1>1, <1>3, <3>1, <3>2, <3>3, <3>4 DEF Accounting
    <2>2. {BlockPages(d)' : d \in Holders'} = {BlockPages(d) : d \in Holders \ {c}}
      BY <1>11
    <2>3. P!Pool \ P!ClearBits = SlabPageSet \cup owned
      BY <1>1 DEF Accounting
    <2>4. P!Pool' \ P!ClearBits' = P!Pool \ (P!ClearBits \cup run)
      BY <1>10, Zenon
    <2>5. P!Pool' \ P!ClearBits' = SlabPageSet' \cup UNION {BlockPages(d)' : d \in Holders'}
      <3>1. P!Pool' \ P!ClearBits' = SlabPageSet' \cup others
        <4>. HIDE DEF others, owned
        <4>. QED  BY <1>11, <2>1, <2>3, <2>4
      <3>. QED  BY <2>2, <3>1, Zenon
    <2>6. \A d \in Holders' : BlockPages(d)' \cap SlabPageSet' = {}
      BY <1>1, <1>11 DEF Accounting
    <2>7. \A d, e \in Holders' : d # e => BlockPages(d)' \cap BlockPages(e)' = {}
      BY <1>1, <1>11 DEF Accounting
    <2>. QED  BY <2>5, <2>6, <2>7 DEF Accounting
  <1>17. KmallocInv'
    BY <1>10, <1>11, <1>12, <1>13, <1>14, <1>15, <1>16 DEF KmallocInv
  <1>18. Frees(BlockPages(c))
    BY <1>6, <1>10 DEF run
  <1>. QED  BY <1>11, <1>17, <1>18

\* kfree of a small block gives its object back to the slab it is from.
LEMMA SmallFreeKeepsInv ==
  ASSUME EmptyRequestsSafe, KmallocInv, NEW c \in Clients, Kfree(c), ~IsBig(held[c].size)
  PROVE  /\ KmallocInv' /\ UNCHANGED memVars
         /\ P!Pool' = P!Pool /\ P!ClearBits' = P!ClearBits /\ BigBlocksKept
  <1>1. /\ PmmInv /\ SlabPagesOK /\ S!TypeOK /\ SlabsLaidOut /\ FreeOnce /\ SmallBlocksOK
        /\ SmallOnce /\ BigBlocksOK /\ Accounting /\ BlocksTyped
    BY DEF KmallocInv
  <1>2. /\ held[c] # NoBlock /\ kfree(held[c].pointer)
        /\ held' = [held EXCEPT ![c] = NoBlock] /\ pages' = pages /\ metadata' = metadata
    BY DEF Kfree
  <1>3. c \in Holders /\ SlabsReady
    <2>1. c \in Holders
      BY <1>2 DEF Holders
    <2>. QED  BY <2>1, Blocks
  <1>4. S!slab_free(Object(c)) /\ UNCHANGED memVars
    <2>1. held[c].pointer % PageSize # 0
      BY <1>3, InvImpliesFreeFindsAllocator DEF FreeFindsAllocator
    <2>. QED  BY <1>2, <2>1 DEF kfree, Object
  <1>5. PmmInv' /\ P!Pool' = P!Pool /\ P!ClearBits' = P!ClearBits /\ highest_page' = highest_page
        /\ phase' = phase
    BY <1>1, <1>4, MemoryKept DEF memVars
  <1>6. Small(c)
    BY <1>2 DEF Small
  <1>7. /\ LayoutKept /\ S!TypeOK' /\ FreeOnce'
        /\ \A i \in S!Slabs : \A p \in S!FreeObjects(i)' \ S!FreeObjects(i) :
             p = Object(c) /\ p # NULL
    <2>1. CASE Object(c) = NULL
      <3>1. DOMAIN slabs' = S!Slabs /\ \A j \in S!Slabs : slabs'[j] = slabs[j]
        BY <1>1, <1>4, <2>1, NullIsNotFreed
      <3>2. \A j \in S!Slabs : /\ S!ObjectsOf(j)' = S!ObjectsOf(j)
                               /\ S!FreeObjects(j)' = S!FreeObjects(j)
        BY <3>1 DEF S!ObjectsOf, S!FreeObjects
      <3>3. LayoutKept /\ FreeOnce'
        BY <1>1, <3>1, <3>2 DEF LayoutKept, FreeOnce
      <3>4. S!TypeOK'
        <4>1. \A j \in S!Slabs :
                slabs'[j] \in [is_full : BOOLEAN, start : Nat, end : Nat,
                               objects : [S!Slots(j) -> {NULL} \cup S!ObjectsOf(j)']]
          BY <1>1, <3>1, <3>2 DEF S!TypeOK, NULL, S!NULL
        <4>. QED  BY <3>1, <4>1 DEF S!TypeOK, NULL, S!NULL
      <3>. QED  BY <3>2, <3>3, <3>4
    <2>2. CASE Object(c) # NULL
      <3>1. PICK i \in S!Slabs : IsTaken(c, i)
        BY <1>1, <1>6, <2>2 DEF SmallBlocksOK
      <3>2. Object(c) \in S!ObjectsOf(i) \ S!FreeObjects(i)
        BY <3>1 DEF IsTaken
      <3>3. /\ LayoutKept /\ S!TypeOK' /\ FreeOnce'
            /\ S!FreeObjects(i)' \subseteq S!FreeObjects(i) \cup {Object(c)}
            /\ \A j \in S!Slabs \ {i} : S!FreeObjects(j)' = S!FreeObjects(j)
        BY <1>1, <1>3, <1>4, <2>2, <3>2, SlabFrees
      <3>. QED  BY <2>2, <3>3
    <2>. QED  BY <2>1, <2>2
  <1>8. /\ held'[c] = NoBlock
        /\ \A d \in Clients \ {c} :
             /\ held'[d] = held[d]
             /\ Small(d)' <=> Small(d)
             /\ Object(d)' = Object(d) /\ BlockPages(d)' = BlockPages(d)
        /\ ~Small(c)' /\ Holders' = Holders \ {c}
        /\ \A d \in Holders' : d \in Clients \ {c} /\ d \in Holders
        /\ SlabPageSet' = SlabPageSet
        /\ BlocksTyped'
    BY <1>1, <1>2, Released
  <1>9. SlabPagesOK' /\ SlabsLaidOut'
    <2>1. SlabPagesOK'
      BY <1>1, <1>2, <1>5 DEF SlabPagesOK
    <2>. QED  BY <1>1, <1>2, <1>7, <2>1, LayoutKeepsSlabs
  <1>10. SmallBlocksOK'
    <2>1. ASSUME NEW d \in Clients, Small(d)'
          PROVE  \/ Object(d)' = NULL
                 \/ \E i \in S!Slabs : /\ Size[i] = next_pow_of_two(held'[d].size + MetaBytes)
                                       /\ IsTaken(d, i)'
      <3>1. d # c /\ held'[d] = held[d] /\ Small(d) /\ Object(d)' = Object(d)
        BY <1>8, <2>1
      <3>2. CASE Object(d) = NULL
        BY <3>1, <3>2
      <3>3. CASE Object(d) # NULL
        <4>1. PICK i \in S!Slabs : /\ Size[i] = next_pow_of_two(held[d].size + MetaBytes)
                                   /\ IsTaken(d, i)
          BY <1>1, <3>1, <3>3 DEF SmallBlocksOK
        <4>2. Object(d) # Object(c)
          BY <1>1, <1>6, <3>1, <3>3 DEF SmallOnce
        <4>3. S!ObjectsOf(i)' = S!ObjectsOf(i)
          BY <1>7 DEF LayoutKept
        <4>4. IsTaken(d, i)'
          BY <1>7, <3>1, <4>1, <4>2, <4>3 DEF IsTaken
        <4>. QED  BY <3>1, <4>1, <4>4
      <3>. QED  BY <3>2, <3>3
    <2>. QED  BY <2>1 DEF SmallBlocksOK
  <1>11. SmallOnce'
    BY <1>1, <1>8 DEF SmallOnce
  <1>12. BigBlocksOK'
    BY <1>2, <1>5, OtherBigBlocks
  <1>13. Accounting'
    <2>1. BlockPages(c) = {}
      BY DEF BlockPages
    <2>2. UNION {BlockPages(d)' : d \in Holders'} = UNION {BlockPages(d) : d \in Holders}
      <3>1. {BlockPages(d) : d \in Holders} = {BlockPages(d)' : d \in Holders'} \cup {{}}
        BY <1>3, <1>8, <2>1
      <3>2. UNION ({BlockPages(d)' : d \in Holders'} \cup {{}})
              = (UNION {BlockPages(d)' : d \in Holders'}) \cup {}
        BY UnionOfOneMore
      <3>. QED  BY <3>1, <3>2
    <2>3. P!Pool' \ P!ClearBits' = SlabPageSet' \cup UNION {BlockPages(d)' : d \in Holders'}
      <3>1. P!Pool \ P!ClearBits = SlabPageSet \cup UNION {BlockPages(d) : d \in Holders}
        BY <1>1 DEF Accounting
      <3>. QED  BY <1>5, <1>8, <2>2, <3>1, Zenon
    <2>4. \A d \in Holders' : BlockPages(d)' \cap SlabPageSet' = {}
      BY <1>1, <1>8 DEF Accounting
    <2>5. \A d, e \in Holders' : d # e => BlockPages(d)' \cap BlockPages(e)' = {}
      BY <1>1, <1>8 DEF Accounting
    <2>. QED  BY <2>3, <2>4, <2>5 DEF Accounting
  <1>14. KmallocInv'
    BY <1>5, <1>7, <1>8, <1>9, <1>10, <1>11, <1>12, <1>13 DEF KmallocInv
  <1>15. BigBlocksKept
    BY <1>8 DEF BigBlocksKept
  <1>. QED  BY <1>4, <1>5, <1>14, <1>15
----------------------------------------------------------------------------
(* The bytes of a block.                                                   *)

\* The bytes of a big block lie in its pages.
LEMMA BytesOfBigBlock ==
  ASSUME KmallocInv, NEW c \in Holders, IsBig(held[c].size), NEW byte \in BlockBytes(c)
  PROVE  PageOf(byte) \in BlockPages(c)
  <1>1. PmmInv /\ BigBlocksOK /\ Accounting
    BY DEF KmallocInv
  <1>2. c \in Clients /\ held[c] # NoBlock /\ held[c].size \in Requests
    BY Blocks
  <1>. DEFINE size  == held[c].size
              new   == next_pow_of_two(size)
              count == BigPages(new)
  <1>3. PICK page \in 1 .. (highest_page - 1) : held[c].pointer = Address(page) + PageSize
    BY <1>1, <1>2 DEF BigBlocksOK
  <1>4. /\ held[c].pointer - PageSize = Address(page)
        /\ BlockPages(c) = page .. (page + count - 1)
    BY <1>1, <1>2, <1>3, PagesOfBigBlock DEF BlockPages
  <1>5. /\ new \in Nat /\ new >= size /\ count \in Nat \ {0}
        /\ count * PageSize = new + PageSize /\ size \in Nat
    BY <1>2, BigBlock, RequestRounded
  <1>6. page \in Nat /\ Address(page) \in Nat /\ PageSize \in Nat \ {0} /\ HigherHalf \in Nat
    BY <1>1, MemoryPages, PmmConstants
  <1>7. byte \in Address(page) .. (Address(page) + PageSize + size - 1)
    <2>1. byte \in (held[c].pointer - PageSize) .. (held[c].pointer + size - 1)
      BY DEF BlockBytes
    <2>. QED  BY <1>3, <1>4, <2>1
  <1>. HIDE DEF size, new, count
  <1>8. page + count <= IntMod
    <2>1. page .. (page + count - 1) \subseteq P!Pool
      BY <1>1, <1>4 DEF Accounting
    <2>. QED  BY <1>1, <1>5, <1>6, <2>1, RunOfPool
  <1>9. Address(page + count) = Address(page) + new + PageSize
    <2>1. (HigherHalf + page + count) * PageSize = (HigherHalf + page) * PageSize + count * PageSize
      BY <1>5, <1>6
    <2>2. Address(page + count) = (HigherHalf + page) * PageSize + count * PageSize
      BY <1>5, <1>6, <2>1 DEF Address
    <2>3. (HigherHalf + page) * PageSize = Address(page)
      BY DEF Address
    <2>. QED  BY <1>5, <1>6, <2>2, <2>3
  <1>10. byte \in Address(page) .. (Address(page + count) - 1)
    <2>. DEFINE start == Address(page)
                end   == Address(page + count)
    <2>1. start \in Nat /\ byte \in start .. (start + PageSize + size - 1)
          /\ end = start + new + PageSize
      BY <1>6, <1>7, <1>9
    <2>. HIDE DEF start, end
    <2>2. byte \in start .. (end - 1)
      BY <1>5, <1>6, <2>1
    <2>. QED  BY <2>2 DEF start, end
  <1>11. PageOf(byte) \in page .. (page + count - 1)
    BY <1>5, <1>6, <1>8, <1>10, BytesOfRun
  <1>. QED  BY <1>4, <1>11

\* The bytes of a small block that is not made from NULL lie in an object of
\* a slab, which lies in a page of the slabs.
LEMMA BytesOfSmallBlock ==
  ASSUME KmallocInv, NEW c \in Holders, ~IsBig(held[c].size), IsBacked(c)
  PROVE  /\ Small(c) /\ Object(c) # NULL
         /\ \E i \in S!Slabs : /\ Object(c) \in S!ObjectsOf(i)
                               /\ BlockBytes(c) \subseteq S!Bytes(Object(c), Size[i])
         /\ \A byte \in BlockBytes(c) : PageOf(byte) \in SlabPageSet
  <1>1. PmmInv /\ SlabPagesOK /\ S!TypeOK /\ SlabsLaidOut /\ SmallBlocksOK
    BY DEF KmallocInv
  <1>2. /\ c \in Clients /\ held[c] # NoBlock /\ held[c].size \in Requests /\ SlabsReady
        /\ held[c].pointer \in Nat
    BY Blocks
  <1>3. /\ PageSize \in Nat \ {0} /\ MetaBytes \in Nat \ {0} /\ MetaBytes < PageSize
    BY KmallocAssumption, PmmConstants
  <1>. DEFINE pointer == held[c].pointer
              size    == held[c].size
  <1>4. Small(c)
    BY <1>2 DEF Small
  <1>5. Object(c) # NULL
    <2>1. pointer > PageSize
      BY DEF IsBacked
    <2>2. Object(c) = pointer - MetaBytes
      BY DEF Object
    <2>3. pointer \in Nat
      BY <1>2
    <2>. HIDE DEF pointer
    <2>. QED  BY <1>3, <2>1, <2>2, <2>3 DEF NULL
  <1>6. PICK i \in S!Slabs : Size[i] = next_pow_of_two(size + MetaBytes) /\ IsTaken(c, i)
    BY <1>1, <1>2, <1>4, <1>5 DEF SmallBlocksOK
  <1>. DEFINE p == Object(c)
  <1>7. p \in S!ObjectsOf(i)
    BY <1>6 DEF IsTaken
  <1>8. p \in Nat /\ Size[i] \in Nat \ {0}
    BY <1>1, <1>7, ObjectsInside
  <1>9. Size[i] >= size + MetaBytes /\ size \in Nat
    BY <1>2, <1>6, RequestRounded
  <1>10. BlockBytes(c) = p .. (pointer + size - 1) /\ p = pointer - MetaBytes /\ pointer \in Nat
    BY <1>2 DEF BlockBytes, Object
  <1>11. S!Bytes(p, Size[i]) = p .. (p + Size[i] - 1)
    BY DEF S!Bytes
  <1>12. PICK page \in 1 .. (highest_page - 1) :
           /\ page \in SlabPageSet
           /\ Address(page) <= p /\ p + Size[i] <= Address(page) + PageSize
    BY <1>1, <1>2, <1>7, ObjectInPage
  <1>13. /\ page \in Nat /\ page \in 0 .. (IntMod - 1) /\ Address(page) \in Nat
    BY <1>1, MemoryPages
  <1>14. Address(page + 1) = Address(page) + PageSize /\ page + 1 <= IntMod
    BY <1>13, AddressType, PmmConstants
  <1>. DEFINE start == Address(page)
              whole == Size[i]
  <1>15. BlockBytes(c) \subseteq S!Bytes(p, Size[i])
    <2>1. pointer + size - 1 <= p + whole - 1 /\ pointer + size - 1 \in Int /\ p + whole - 1 \in Int
      <3>1. /\ pointer \in Nat /\ p = pointer - MetaBytes /\ whole \in Nat
            /\ whole >= size + MetaBytes /\ size \in Nat
        BY <1>8, <1>9, <1>10
      <3>. HIDE DEF pointer, size, p, whole
      <3>. QED  BY <1>3, <3>1
    <2>2. p .. (pointer + size - 1) \subseteq p .. (p + whole - 1)
      <3>1. p \in Int
        BY <1>8
      <3>. HIDE DEF pointer, size, p, whole
      <3>. QED  BY <2>1, <3>1
    <2>. QED  BY <1>10, <1>11, <2>2
  <1>16. ASSUME NEW byte \in BlockBytes(c)
         PROVE  PageOf(byte) \in SlabPageSet
    <2>1. byte \in p .. (p + whole - 1) /\ p \in Nat /\ whole \in Nat \ {0}
          /\ start <= p /\ p + whole <= start + PageSize /\ start \in Nat
      BY <1>8, <1>11, <1>12, <1>13, <1>15, <1>16
    <2>. DEFINE end == Address(page + 1)
    <2>2. end = start + PageSize
      BY <1>14
    <2>. HIDE DEF start, p, whole, end
    <2>3. byte \in start .. (end - 1)
      BY <1>3, <2>1, <2>2
    <2>4. byte \in Address(page) .. (Address(page + 1) - 1)
      BY <2>3 DEF start, end
    <2>5. PageOf(byte) \in page .. (page + 1 - 1)
      BY <1>13, <1>14, <2>4, BytesOfRun
    <2>6. PageOf(byte) = page
      BY <1>13, <2>5
    <2>. QED  BY <1>12, <2>6
  <1>. QED  BY <1>4, <1>5, <1>7, <1>15, <1>16

LEMMA InvImpliesBlocksDisjoint == KmallocInv => BlocksDisjoint
  <1>. SUFFICES ASSUME KmallocInv, NEW c \in Holders, NEW d \in Holders, c # d,
                       IsBacked(c), IsBacked(d)
                PROVE  BlockBytes(c) \cap BlockBytes(d) = {}
    BY DEF BlocksDisjoint
  <1>1. S!TypeOK /\ SlabsLaidOut /\ SmallOnce /\ Accounting /\ SlabsReady
        /\ c \in Clients /\ d \in Clients
    BY Blocks DEF KmallocInv
  <1>2. CASE IsBig(held[c].size)
    <2>1. \A byte \in BlockBytes(c) : PageOf(byte) \in BlockPages(c)
      BY <1>2, BytesOfBigBlock
    <2>2. \A byte \in BlockBytes(d) : PageOf(byte) \notin BlockPages(c)
      <3>1. CASE IsBig(held[d].size)
        BY <1>1, <3>1, BytesOfBigBlock DEF Accounting
      <3>2. CASE ~IsBig(held[d].size)
        BY <1>1, <3>2, BytesOfSmallBlock DEF Accounting
      <3>. QED  BY <3>1, <3>2
    <2>. QED  BY <2>1, <2>2
  <1>3. CASE ~IsBig(held[c].size) /\ IsBig(held[d].size)
    <2>1. \A byte \in BlockBytes(c) : PageOf(byte) \in SlabPageSet
      BY <1>3, BytesOfSmallBlock
    <2>2. \A byte \in BlockBytes(d) : PageOf(byte) \notin SlabPageSet
      BY <1>1, <1>3, BytesOfBigBlock DEF Accounting
    <2>. QED  BY <2>1, <2>2
  <1>4. CASE ~IsBig(held[c].size) /\ ~IsBig(held[d].size)
    <2>1. PICK i \in S!Slabs : /\ Object(c) \in S!ObjectsOf(i)
                               /\ BlockBytes(c) \subseteq S!Bytes(Object(c), Size[i])
      BY <1>4, BytesOfSmallBlock
    <2>2. PICK j \in S!Slabs : /\ Object(d) \in S!ObjectsOf(j)
                               /\ BlockBytes(d) \subseteq S!Bytes(Object(d), Size[j])
      BY <1>4, BytesOfSmallBlock
    <2>3. Object(c) # Object(d)
      BY <1>1, <1>4, BytesOfSmallBlock DEF SmallOnce
    <2>4. S!Bytes(Object(c), Size[i]) \cap S!Bytes(Object(d), Size[j]) = {}
      BY <1>1, <2>1, <2>2, <2>3, DistinctObjectsDisjoint
    <2>. QED  BY <2>1, <2>2, <2>4
  <1>. QED  BY <1>2, <1>3, <1>4
----------------------------------------------------------------------------
(* The theorems.                                                           *)

LEMMA InitInv == Init => KmallocInv
  <1>. SUFFICES ASSUME Init PROVE KmallocInv
    OBVIOUS
  <1>1. /\ phase = "boot" /\ memory_map \in MemMaps /\ highest_page = 0
        /\ bitmap = [at |-> 0, size |-> 0, ones |-> {}] /\ used_pages = 0 /\ stray = FALSE
        /\ pages = <<>> /\ metadata = [a \in {} |-> 0] /\ held = [c \in Clients |-> NoBlock]
        /\ slabs = [i \in S!Slabs |-> [is_full |-> FALSE, start |-> 0, end |-> 0,
                                       objects |-> [slot \in S!Slots(i) |-> 0]]]
    BY DEF Init, NULL
  <1>2. \A c \in Clients : held[c] = NoBlock
    BY <1>1
  <1>3. Holders = {} /\ ~SlabsReady
    BY <1>1, <1>2, KmallocAssumption DEF Holders, SlabsReady
  <1>4. PmmInv
    <2>1. memory_map \in Seq(P!Entry)
      BY <1>1, InstancesAssumption DEF P!WellFormedMap
    <2>2. bitmap \in [at : Nat, size : Nat, ones : SUBSET Nat] /\ bitmap.size = 0
      BY <1>1
    <2>3. 0 \in 0 .. (CounterMod - 1) /\ 2 * 0 <= IntMod
      BY PmmConstants
    <2>4. P!TypeOK
      <3>1. [c \in Clients |-> [pointer |-> 0, count |-> 0]]
              \in [Clients -> P!Block \cup {P!NoBlock}]
        BY DEF P!NoBlock, P!NULL
      <3>. QED  BY <1>1, <2>1, <2>2, <2>3, <3>1, Zenon DEF P!TypeOK
    <2>5. P!Pool = {}
      BY <1>1 DEF P!Pool
    <2>6. P!ClearBits = {}
      <3>1. P!BitsIn(bitmap.size) = ByteBits * 0
        BY <2>2, SMT DEF P!BitsIn
      <3>2. P!BitsIn(bitmap.size) = 0
        BY <3>1, PmmConstants
      <3>. QED  BY <3>2 DEF P!ClearBits, P!Covered
    <2>7. phase # "ready"
      BY <1>1
    <2>. QED  BY <1>1, <2>3, <2>4, <2>5, <2>6, <2>7, Zenon DEF PmmInv
  <1>5. SlabPagesOK
    BY <1>1, KmallocAssumption DEF SlabPagesOK
  <1>6. S!TypeOK /\ FreeOnce
    <2>1. DOMAIN slabs = S!Slabs
      BY <1>1
    <2>2. \A i \in S!Slabs : slabs[i] = [is_full |-> FALSE, start |-> 0, end |-> 0,
                                         objects |-> [slot \in S!Slots(i) |-> 0]]
      BY <1>1
    <2>3. ASSUME NEW i \in S!Slabs
          PROVE  slabs[i] \in [is_full : BOOLEAN, start : Nat, end : Nat,
                               objects : [S!Slots(i) -> {0} \cup S!ObjectsOf(i)]]
      <3>1. [slot \in S!Slots(i) |-> 0] \in [S!Slots(i) -> {0} \cup S!ObjectsOf(i)]
        OBVIOUS
      <3>. DEFINE objects == [slot \in S!Slots(i) |-> 0]
      <3>2. slabs[i] = [is_full |-> FALSE, start |-> 0, end |-> 0, objects |-> objects]
        BY <2>2
      <3>. HIDE DEF objects
      <3>3. objects \in [S!Slots(i) -> {0} \cup S!ObjectsOf(i)]
        BY <3>1 DEF objects
      <3>. QED  BY <3>2, <3>3
    <2>4. S!TypeOK
      BY <2>1, <2>3 DEF S!TypeOK, S!NULL
    <2>5. FreeOnce
      <3>1. ASSUME NEW i \in S!Slabs
            PROVE  slabs[i].objects = [slot \in S!Slots(i) |-> 0]
        <4>. DEFINE objects == [slot \in S!Slots(i) |-> 0]
        <4>1. slabs[i] = [is_full |-> FALSE, start |-> 0, end |-> 0, objects |-> objects]
          BY <2>2
        <4>. HIDE DEF objects
        <4>2. slabs[i].objects = objects
          BY <4>1
        <4>. QED  BY <4>2 DEF objects
      <3>2. \A i \in S!Slabs : \A slot \in S!Slots(i) : slabs[i].objects[slot] = 0
        BY <3>1
      <3>. QED  BY <3>2 DEF FreeOnce, NULL
    <2>. QED  BY <2>4, <2>5
  <1>7. SlabsLaidOut
    BY <1>3 DEF SlabsLaidOut
  <1>8. SmallBlocksOK /\ SmallOnce /\ BigBlocksOK
    BY <1>2 DEF SmallBlocksOK, SmallOnce, BigBlocksOK, Small
  <1>9. Accounting
    <2>1. P!Pool = {} /\ SlabPageSet = {}
      BY <1>1 DEF P!Pool, SlabPageSet
    <2>. QED  BY <1>3, <2>1 DEF Accounting
  <1>10. BlocksTyped
    <2>1. held \in [Clients -> [pointer : Nat, size : Requests \cup {0}]]
      BY <1>1 DEF NoBlock, NULL
    <2>2. DOMAIN metadata = {}
      BY <1>1
    <2>. QED  BY <1>3, <2>1, <2>2 DEF BlocksTyped
  <1>. QED  BY <1>4, <1>5, <1>6, <1>7, <1>8, <1>9, <1>10 DEF KmallocInv

LEMMA StutterKeepsInv == KmallocInv /\ UNCHANGED vars => KmallocInv'
  <1>. SUFFICES ASSUME KmallocInv, UNCHANGED vars PROVE KmallocInv'
    OBVIOUS
  <1>1. /\ UNCHANGED memVars /\ highest_page' = highest_page /\ phase' = phase
        /\ slabs' = slabs /\ pages' = pages /\ metadata' = metadata /\ held' = held
    BY DEF vars, memVars
  <1>2. PmmInv' /\ P!Pool' = P!Pool /\ P!ClearBits' = P!ClearBits
    BY <1>1, MemoryKept DEF KmallocInv
  <1>3. SlabPagesOK' /\ S!TypeOK' /\ SlabsLaidOut' /\ FreeOnce'
    BY <1>1 DEF KmallocInv, SlabPagesOK, S!TypeOK, S!ObjectsOf, SlabsLaidOut, InPage,
             SlabsReady, FreeOnce
  <1>4. SmallBlocksOK' /\ SmallOnce' /\ BigBlocksOK'
    BY <1>1 DEF KmallocInv, SmallBlocksOK, SmallOnce, BigBlocksOK, Small, Object, IsTaken,
             S!ObjectsOf, S!FreeObjects
  <1>5. Accounting'
    <2>1. SlabPageSet' = SlabPageSet /\ Holders' = Holders
      BY <1>1 DEF SlabPageSet, Holders
    <2>2. \A c \in Clients : BlockPages(c)' = BlockPages(c)
      BY <1>1 DEF BlockPages
    <2>3. \A c \in Holders : BlockPages(c)' = BlockPages(c)
      BY <2>2 DEF Holders
    <2>4. {BlockPages(c)' : c \in Holders'} = {BlockPages(c) : c \in Holders}
      BY <2>1, <2>3
    <2>5. P!Pool' \ P!ClearBits' = SlabPageSet' \cup UNION {BlockPages(c)' : c \in Holders'}
      <3>1. P!Pool \ P!ClearBits = SlabPageSet \cup UNION {BlockPages(c) : c \in Holders}
        BY DEF KmallocInv, Accounting
      <3>. QED  BY <1>2, <2>1, <2>4, <3>1, Zenon
    <2>. QED  BY <2>1, <2>3, <2>5 DEF KmallocInv, Accounting
  <1>6. BlocksTyped'
    BY <1>1 DEF KmallocInv, BlocksTyped, Holders, SlabsReady
  <1>. QED  BY <1>2, <1>3, <1>4, <1>5, <1>6 DEF KmallocInv

----------------------------------------------------------------------------
(* Memory that the big blocks divide without a rest.                       *)

\* A block of count pages from start on.
Run(start, count) == start .. (start + count - 1)

\* The pages that pmm_init has to give away when memory ends at top.
Left(map, top) == P!UsablePages(P!Shrink(map, P!BitmapPages(top))) \ {0}

\* They are the pages the slabs take, which come first, and places for blocks
\* of count pages behind them.
Divides(first, starts, count, left) ==
  /\ first \in [1 .. SlabPages -> left] /\ starts \subseteq Nat
  /\ \A k, l \in 1 .. SlabPages : k < l => first[k] < first[l]
  /\ \A k \in 1 .. SlabPages, start \in starts : first[k] < start
  /\ \A start, other \in starts : start < other => start + count <= other
  /\ left = {first[k] : k \in 1 .. SlabPages} \cup UNION {Run(start, count) : start \in starts}

\* There is a place for a big block of each client.
PlacesSuffice(starts) ==
  (\E size \in Requests : IsBig(size))
    => IsFiniteSet(Clients) /\ Cardinality(Clients) <= Cardinality(starts)

\* Where all big blocks take the same number of pages and memory is enough,
\* pmm_alloc's search for one free page finds a run of free pages.
UniformBlocks(count) ==
  /\ \A size \in Requests : IsBig(size) => BigPages(next_pow_of_two(size)) = count
  /\ \A map \in MemMaps : \A top \in {0} \cup P!Tops(map) :
       (\A end \in P!Tops(map) : end <= top)
         => \E first, starts : /\ Divides(first, starts, count, Left(map, top))
                               /\ PlacesSuffice(starts)

\* used_pages, which also counts what pmm_init takes for memory in use, does
\* not wrap.
CounterFits ==
  KbFactor > 1 /\ \A map \in MemMaps : \A top \in P!Tops(map) : KbFactor * top < CounterMod

\* The slabs' pages and the big blocks lie in their places.
Placed(first, starts, count) ==
  /\ Divides(first, starts, count, P!Pool)
  /\ PlacesSuffice(starts)
  /\ \A k \in DOMAIN pages : pages[k] = Address(first[k])
  /\ \A c \in Holders : IsBig(held[c].size)
       => \E start \in starts : BlockPages(c) = Run(start, count)
PlacesOK(count) == phase = "ready" => \E first, starts : Placed(first, starts, count)

\* used_pages counts the marked pages of the pool, and more pages than none.
Counted(base) ==
  /\ base \in Nat \ {0} /\ IsFiniteSet(P!Pool) /\ base + Cardinality(P!Pool) < CounterMod
  /\ used_pages = base + Cardinality(P!Pool \ P!ClearBits)
CountOK == phase = "ready" => \E base : Counted(base)

\* How many pages of the pool are not clear while a run is, and after it was
\* marked.
MarkingCounts(pool, clear, run) ==
  /\ Cardinality(run) \in Nat /\ Cardinality(pool) \in Nat
  /\ Cardinality(pool \ clear) \in Nat /\ Cardinality(pool \ (clear \ run)) \in Nat
  /\ Cardinality(pool \ (clear \ run)) = Cardinality(pool \ clear) + Cardinality(run)
  /\ Cardinality(pool \ (clear \ run)) <= Cardinality(pool)

LEMMA RunsCount ==
  ASSUME NEW pool, IsFiniteSet(pool), NEW clear, NEW run, run \subseteq clear, run \subseteq pool
  PROVE  MarkingCounts(pool, clear, run)
  <1>1. /\ run \in SUBSET pool /\ pool \ clear \in SUBSET pool
        /\ pool \ (clear \ run) \in SUBSET pool
    OBVIOUS
  <1>2. /\ IsFiniteSet(run) /\ IsFiniteSet(pool \ clear) /\ IsFiniteSet(pool \ (clear \ run))
        /\ Cardinality(pool \ (clear \ run)) <= Cardinality(pool)
    BY <1>1, FS_Subset
  <1>3. /\ Cardinality(run) \in Nat /\ Cardinality(pool \ clear) \in Nat
        /\ Cardinality(pool \ (clear \ run)) \in Nat /\ Cardinality(pool) \in Nat
    BY <1>2, FS_CardinalityType
  <1>4. pool \ (clear \ run) = (pool \ clear) \cup run /\ (pool \ clear) \cap run = {}
    OBVIOUS
  <1>5. Cardinality((pool \ clear) \cup run)
          = Cardinality(pool \ clear) + Cardinality(run) - Cardinality((pool \ clear) \cap run)
    BY <1>2, FS_Union
  <1>6. Cardinality((pool \ clear) \cap run) = 0
    BY <1>4, FS_EmptySet
  <1>. DEFINE before == Cardinality(pool \ clear)
              after  == Cardinality(pool \ (clear \ run))
              both   == Cardinality((pool \ clear) \cap run)
              n      == Cardinality(run)
  <1>7. after = before + n - both /\ both = 0 /\ before \in Nat /\ n \in Nat
    BY <1>3, <1>4, <1>5, <1>6
  <1>. HIDE DEF before, after, both, n
  <1>8. after = before + n
    BY <1>7
  <1>. QED  BY <1>2, <1>3, <1>8 DEF before, after, n, MarkingCounts

LEMMA MarksCounts ==
  ASSUME PmmInv, NEW base, Counted(base), NEW run, Marks(run)
  PROVE  Counted(base)'
  <1>. DEFINE pool  == P!Pool
              clear == P!ClearBits
              n     == Cardinality(run)
              before == Cardinality(pool \ clear)
              after == Cardinality(pool \ (clear \ run))
              all == Cardinality(pool)
  <1>1. /\ base \in Nat \ {0} /\ IsFiniteSet(pool) /\ base + all < CounterMod
        /\ used_pages = base + before
    BY DEF Counted
  <1>2. run \subseteq clear /\ run \subseteq pool
    BY DEF Marks, PmmInv
  <1>3. /\ n \in Nat /\ before \in Nat /\ after \in Nat /\ all \in Nat
        /\ after = before + n /\ after <= all
    <2>. HIDE DEF pool, clear
    <2>1. MarkingCounts(pool, clear, run)
      BY <1>1, <1>2, RunsCount, Zenon
    <2>. QED  BY <2>1 DEF MarkingCounts
  <1>4. used_pages' = (used_pages + n) % CounterMod /\ P!Pool' = pool /\ P!ClearBits' = clear \ run
    BY DEF Marks
  <1>5. CounterMod \in Nat \ {0}
    BY PmmConstants
  <1>. HIDE DEF n, before, after, all
  <1>6. used_pages + n = base + after /\ base + after \in Nat /\ base + after < CounterMod
    BY <1>1, <1>3, <1>5
  <1>7. used_pages' = base + after
    BY <1>4, <1>5, <1>6, RemainderSmall
  <1>. QED  BY <1>1, <1>4, <1>7 DEF Counted, after, all

LEMMA FreesCounts ==
  ASSUME PmmInv, NEW base, Counted(base), NEW run, Frees(run)
  PROVE  Counted(base)'
  <1>. DEFINE pool  == P!Pool
              clear == P!ClearBits \cup run
              n     == Cardinality(run)
              after == Cardinality(pool \ clear)
              before == Cardinality(pool \ (clear \ run))
              all == Cardinality(pool)
  <1>1. clear \ run = P!ClearBits /\ run \subseteq clear /\ run \subseteq pool
    BY DEF Frees
  <1>2. /\ base \in Nat \ {0} /\ IsFiniteSet(pool) /\ base + all < CounterMod
        /\ used_pages = base + before
    BY <1>1 DEF Counted
  <1>3. /\ n \in Nat /\ before \in Nat /\ after \in Nat /\ all \in Nat
        /\ before = after + n /\ before <= all
    <2>. HIDE DEF pool, clear
    <2>1. MarkingCounts(pool, clear, run)
      BY <1>1, <1>2, RunsCount, Zenon
    <2>. QED  BY <2>1 DEF MarkingCounts
  <1>4. used_pages' = (used_pages - n) % CounterMod /\ P!Pool' = pool /\ P!ClearBits' = clear
    BY DEF Frees
  <1>5. CounterMod \in Nat \ {0}
    BY PmmConstants
  <1>. HIDE DEF n, before, after, all
  <1>6. used_pages - n = base + after /\ base + after \in Nat /\ base + after < CounterMod
    BY <1>2, <1>3, <1>5
  <1>7. used_pages' = base + after
    BY <1>4, <1>5, <1>6, RemainderSmall
  <1>. QED  BY <1>2, <1>4, <1>7 DEF Counted, after, all

\* pmm_init leaves the pages that the slabs and the blocks divide.
LEMMA InitPlaces ==
  ASSUME NEW count, UniformBlocks(count), BitmapsCover, KmallocInv, BootPMM
  PROVE  PlacesOK(count)'
  <1>1. P!pmm_init /\ pages' = pages /\ held' = held
    BY DEF BootPMM
  <1>2. PmmInv /\ phase = "boot" /\ phase' = "ready" /\ pages = <<>>
    BY <1>1 DEF KmallocInv, SlabPagesOK, P!pmm_init
  <1>3. /\ memory_map \in MemMaps /\ highest_page' \in {0} \cup P!Tops(memory_map)
        /\ \A end \in P!Tops(memory_map) : end <= highest_page'
        /\ memory_map' = P!Shrink(memory_map, P!BitmapPages(highest_page'))
    BY <1>1, <1>2 DEF P!pmm_init, PmmInv
  <1>4. PICK first, starts : /\ Divides(first, starts, count, Left(memory_map, highest_page'))
                             /\ PlacesSuffice(starts)
    BY <1>3, Zenon DEF UniformBlocks
  <1>5. P!Pool' = Left(memory_map, highest_page')
    BY <1>2, <1>3 DEF P!Pool, Left, P!UsablePages, P!EntryPages
  <1>6. Holders' = {}
    <2>1. ~SlabsReady
      BY <1>2, KmallocAssumption DEF SlabsReady
    <2>2. Holders = {}
      BY <2>1 DEF KmallocInv, BlocksTyped
    <2>. QED  BY <1>1, <2>2 DEF Holders
  <1>7. DOMAIN pages' = {}
    BY <1>1, <1>2
  <1>. QED  BY <1>4, <1>5, <1>6, <1>7 DEF PlacesOK, Placed

\* No place starts below 1, and the slabs' pages exist.
LEMMA InitCounts ==
  ASSUME NEW count, UniformBlocks(count), CounterFits, BitmapsCover, KmallocInv, BootPMM
  PROVE  CountOK'
  <1>. DEFINE usable == P!UsablePages(memory_map')
              pool == P!Pool'
              top  == highest_page'
              total == KbFactor * top
              all  == Cardinality(usable)
  <1>1. P!pmm_init /\ PmmInv
    BY DEF BootPMM, KmallocInv
  <1>2. PmmInv' /\ phase' = "ready" /\ P!ClearBits' = pool
    BY <1>1, InitStep
  <1>3. /\ memory_map \in MemMaps /\ top \in {0} \cup P!Tops(memory_map)
        /\ used_pages' = (total - P!Cardinality(usable)) % CounterMod
    BY <1>1 DEF P!pmm_init, PmmInv
  <1>4. pool = usable \ {0}
    BY <1>2 DEF P!Pool, P!UsablePages, P!EntryPages
  <1>5. top \in Nat /\ pool \subseteq 1 .. (top - 1)
    BY <1>2, PmmTypes DEF PmmInv, P!TypeOK
  <1>6. pool # {}
    <2>1. PICK first, starts : Placed(first, starts, count)'
      BY <1>2, InitPlaces DEF PlacesOK
    <2>2. first \in [1 .. SlabPages -> pool] /\ 1 \in 1 .. SlabPages
      BY <2>1, KmallocAssumption DEF Placed, Divides
    <2>. QED  BY <2>2
  <1>. HIDE DEF usable, pool, top
  <1>7. top >= 2 /\ usable \subseteq 0 .. (top - 1)
    <2>1. PICK page \in pool : page \in 1 .. (top - 1)
      BY <1>5, <1>6
    <2>2. top >= 2
      BY <1>5, <2>1
    <2>3. \A other \in usable : other = 0 \/ other \in 1 .. (top - 1)
      BY <1>4, <1>5
    <2>. QED  BY <1>5, <2>2, <2>3
  <1>8. /\ IsFiniteSet(usable) /\ all \in Nat /\ all <= top
    <2>1. /\ IsFiniteSet(0 .. (top - 1)) /\ Cardinality(0 .. (top - 1)) = top
      <3>1. 0 \in Int /\ top - 1 \in Int /\ ~(0 > top - 1) /\ (top - 1) - 0 + 1 = top
        BY <1>5, <1>7
      <3>. QED  BY <3>1, FS_Interval
    <2>2. usable \in SUBSET (0 .. (top - 1))
      BY <1>7
    <2>3. IsFiniteSet(usable) /\ all <= top
      BY <2>1, <2>2, FS_Subset
    <2>. QED  BY <2>3, FS_CardinalityType
  <1>9. IsFiniteSet(pool) /\ Cardinality(pool) <= all /\ Cardinality(pool) \in Nat
    <2>1. pool \in SUBSET usable
      BY <1>4
    <2>2. IsFiniteSet(pool) /\ Cardinality(pool) <= all
      BY <1>8, <2>1, FS_Subset
    <2>. QED  BY <2>2, FS_CardinalityType
  <1>10. total < CounterMod /\ total \in Nat /\ total >= 2 * top
    <2>1. top \in P!Tops(memory_map)
      BY <1>3, <1>7
    <2>2. total < CounterMod /\ KbFactor > 1
      BY <1>3, <2>1 DEF CounterFits
    <2>3. \A k, n \in Nat : k > 1 => k * n \in Nat /\ k * n >= 2 * n
      OBVIOUS
    <2>. QED  BY <1>5, <2>2, <2>3, PmmConstants
  <1>11. P!Cardinality(usable) = all
    BY CardinalityInP
  <1>. DEFINE some == Cardinality(pool)
  <1>. HIDE DEF total, all, some, top
  <1>12. total - all \in Nat \ {0} /\ total - all < CounterMod /\ (total - all) + some < CounterMod
    BY <1>5, <1>7, <1>8, <1>9, <1>10, PmmConstants DEF some
  <1>13. used_pages' = total - all
    BY <1>3, <1>11, <1>12, RemainderSmall, PmmConstants
  <1>14. Cardinality(pool \ P!ClearBits') = 0
    <2>1. pool \ P!ClearBits' = {}
      BY <1>2 DEF pool
    <2>. QED  BY <2>1, FS_EmptySet
  <1>15. PICK base \in Nat \ {0} : base = total - all
    BY <1>12
  <1>16. Counted(base)'
    <2>1. base = base + 0
      OBVIOUS
    <2>2. IsFiniteSet(P!Pool') /\ base + Cardinality(P!Pool') < CounterMod
      BY <1>9, <1>12, <1>15 DEF pool, some
    <2>3. used_pages' = base + Cardinality(P!Pool' \ P!ClearBits')
      BY <1>13, <1>14, <1>15, <2>1 DEF pool
    <2>. QED  BY <1>15, <2>2, <2>3 DEF Counted
  <1>. QED  BY <1>16 DEF CountOK

\* The search of pmm_alloc ends at the first clear bit, and used_pages does
\* not keep it from searching.
LEMMA FirstClearPage ==
  ASSUME PmmInv, phase = "ready", CountOK, NEW page \in P!ClearBits,
         \A other \in P!ClearBits : page <= other,
         NEW count, count # 0, NEW pointer, P!pmm_alloc(count, pointer)
  PROVE  pointer = HigherHalf + page
  <1>1. used_pages # 0
    <2>1. PICK base : Counted(base)
      BY DEF CountOK
    <2>. DEFINE marked == Cardinality(P!Pool \ P!ClearBits)
    <2>2. marked \in Nat
      <3>1. P!Pool \ P!ClearBits \in SUBSET P!Pool /\ IsFiniteSet(P!Pool)
        BY <2>1 DEF Counted
      <3>2. IsFiniteSet(P!Pool \ P!ClearBits)
        BY <3>1, FS_Subset
      <3>. QED  BY <3>2, FS_CardinalityType
    <2>3. base \in Nat \ {0} /\ used_pages = base + marked
      BY <2>1 DEF Counted
    <2>. HIDE DEF marked
    <2>. QED  BY <2>2, <2>3
  <1>2. PICK garbage \in SUBSET (P!BitsIn(bitmap.size) .. (highest_page - 1)),
             found \in 0 .. highest_page :
          /\ P!pmm_find_first_free_page(count, P!FreeBits(garbage), found)
          /\ \/ used_pages = 0 \/ found = 0
             \/ found # 0 /\ pointer = P!phys_to_higher_half_data(found)
    BY DEF P!pmm_alloc, P!NULL
  <1>3. /\ highest_page \in Nat /\ P!BitsIn(bitmap.size) \in Nat
        /\ highest_page <= P!BitsIn(bitmap.size) /\ P!ClearBits \subseteq 1 .. (highest_page - 1)
    BY PmmTypes DEF PmmInv
  <1>4. P!FreeBits(garbage) = P!ClearBits
    <2>1. ASSUME NEW bit \in 0 .. (highest_page - 1)
          PROVE  bit < P!BitsIn(bitmap.size) /\ bit \in 0 .. (P!BitsIn(bitmap.size) - 1)
      BY <1>3
    <2>2. P!FreeBits(garbage) = {bit \in 0 .. (highest_page - 1) : bit \notin bitmap.ones}
      BY <2>1 DEF P!FreeBits
    <2>3. \A bit \in P!ClearBits : bit \in 0 .. (highest_page - 1) /\ bit \notin bitmap.ones
      BY <1>3 DEF P!ClearBits
    <2>4. \A bit \in 0 .. (highest_page - 1) : bit \notin bitmap.ones => bit \in P!ClearBits
      BY <2>1 DEF P!ClearBits, P!Covered
    <2>. QED  BY <2>2, <2>3, <2>4
  <1>5. found \in P!ClearBits /\ found <= page
    BY <1>2, <1>4 DEF P!pmm_find_first_free_page
  <1>6. found = page /\ page \in 1 .. (highest_page - 1)
    BY <1>3, <1>5
  <1>7. page \in 0 .. (IntMod - 1)
    BY <1>3, <1>6, PmmConstants DEF PmmInv
  <1>8. pointer = P!phys_to_higher_half_data(page)
    BY <1>1, <1>2, <1>3, <1>6
  <1>. QED  BY <1>7, <1>8, AddressNames

\* The pages that the slabs have are the first ones of the pool.
LEMMA SlabsHaveFirstPages ==
  ASSUME KmallocInv, NEW first, NEW starts, NEW count, Placed(first, starts, count)
  PROVE  /\ SlabPageSet = {first[k] : k \in DOMAIN pages}
         /\ DOMAIN pages = 1 .. Len(pages) /\ Len(pages) \in Nat
         /\ DOMAIN pages \subseteq 1 .. SlabPages
         /\ \A k \in 1 .. SlabPages : first[k] \in 1 .. (highest_page - 1)
  <1>1. PmmInv /\ SlabPagesOK
    BY DEF KmallocInv
  <1>2. pages \in Seq(Nat) /\ Len(pages) <= SlabPages
    BY <1>1 DEF SlabPagesOK
  <1>3. DOMAIN pages = 1 .. Len(pages) /\ Len(pages) \in Nat
    BY <1>2
  <1>4. DOMAIN pages \subseteq 1 .. SlabPages
    BY <1>2, <1>3, KmallocAssumption
  <1>5. \A k \in 1 .. SlabPages : first[k] \in 1 .. (highest_page - 1)
    <2>1. first \in [1 .. SlabPages -> P!Pool] /\ P!Pool \subseteq 1 .. (highest_page - 1)
      BY <1>1 DEF PmmInv, Placed, Divides
    <2>. QED  BY <2>1
  <1>6. \A k \in DOMAIN pages : PageOf(pages[k]) = first[k]
    <2>1. ASSUME NEW k \in DOMAIN pages PROVE PageOf(pages[k]) = first[k]
      <3>1. pages[k] = Address(first[k]) /\ first[k] \in 1 .. (highest_page - 1)
        BY <1>4, <1>5 DEF Placed
      <3>. QED  BY <1>1, <3>1, MemoryPages
    <2>. QED  BY <2>1
  <1>. QED  BY <1>3, <1>4, <1>5, <1>6 DEF SlabPageSet

\* slab_init gets the pages it is to get.
LEMMA BootSlabsPlaces ==
  ASSUME NEW count, KmallocInv, CountOK, PlacesOK(count), BootSlabs
  PROVE  /\ RunsWereFree
         /\ \E first, starts : /\ Placed(first, starts, count)
                               /\ pages' = Append(pages, Address(first[Len(pages) + 1]))
  <1>1. PmmInv /\ Accounting /\ BlocksTyped /\ SlabPagesOK
    BY DEF KmallocInv
  <1>2. phase = "ready" /\ ~SlabsReady /\ held' = held
    BY DEF BootSlabs
  <1>3. PICK first, starts : Placed(first, starts, count)
    BY <1>2 DEF PlacesOK
  <1>4. Divides(first, starts, count, P!Pool)
    BY <1>3 DEF Placed
  <1>. DEFINE n == Len(pages)
              page == first[n + 1]
  <1>5. /\ SlabPageSet = {first[k] : k \in 1 .. n} /\ n \in Nat /\ n < SlabPages
        /\ n + 1 \in 1 .. SlabPages
        /\ \A k \in 1 .. SlabPages : first[k] \in 1 .. (highest_page - 1)
    <2>1. /\ SlabPageSet = {first[k] : k \in DOMAIN pages}
          /\ DOMAIN pages = 1 .. Len(pages) /\ Len(pages) \in Nat
          /\ \A k \in 1 .. SlabPages : first[k] \in 1 .. (highest_page - 1)
      BY <1>3, SlabsHaveFirstPages
    <2>2. n < SlabPages
      <3>1. Len(pages) <= SlabPages /\ Len(pages) # SlabPages
        BY <1>1, <1>2 DEF SlabPagesOK, SlabsReady
      <3>2. SlabPages \in Nat
        BY KmallocAssumption
      <3>3. \A k, l \in Nat : k <= l /\ k # l => k < l
        OBVIOUS
      <3>. QED  BY <2>1, <3>1, <3>2, <3>3, Zenon
    <2>3. n + 1 \in 1 .. SlabPages
      BY <2>1, <2>2, KmallocAssumption
    <2>. QED  BY <2>1, <2>2, <2>3
  <1>6. P!ClearBits = P!Pool \ {first[k] : k \in 1 .. n}
    <2>1. Holders = {}
      BY <1>1, <1>2 DEF BlocksTyped
    <2>2. P!Pool \ P!ClearBits = SlabPageSet
      BY <1>1, <2>1 DEF Accounting
    <2>3. P!ClearBits \subseteq P!Pool
      BY <1>1 DEF PmmInv
    <2>. QED  BY <1>5, <2>2, <2>3
  <1>7. highest_page \in Nat /\ SlabPages \in Nat
    BY <1>1, PmmTypes, KmallocAssumption
  <1>8. /\ \A k, l \in 1 .. SlabPages : k < l => first[k] < first[l]
        /\ starts \subseteq Nat
        /\ \A k \in 1 .. SlabPages, start \in starts : first[k] < start
        /\ \A k \in 1 .. SlabPages : first[k] \in P!Pool
        /\ P!Pool = {first[k] : k \in 1 .. SlabPages}
                      \cup UNION {Run(start, count) : start \in starts}
    BY <1>4 DEF Divides
  <1>. HIDE DEF n
  <1>9. page \in P!ClearBits
    <2>1. \A k \in 1 .. n : k \in 1 .. SlabPages /\ k < n + 1
      BY <1>5, <1>7
    <2>2. \A k \in 1 .. n : first[k] < page /\ first[k] \in Int /\ page \in Int
      BY <1>5, <1>7, <1>8, <2>1
    <2>3. \A k \in 1 .. n : first[k] # page
      BY <2>2
    <2>. QED  BY <1>5, <1>6, <1>8, <2>3
  <1>10. ASSUME NEW other \in P!ClearBits
         PROVE  page <= other
    <2>1. other \in P!Pool /\ \A k \in 1 .. n : other # first[k]
      BY <1>6
    <2>2. page \in Int
      BY <1>5, <1>7
    <2>3. CASE other \in {first[k] : k \in 1 .. SlabPages}
      <3>1. PICK k \in 1 .. SlabPages : other = first[k]
        BY <2>3
      <3>2. k \notin 1 .. n
        BY <2>1, <3>1
      <3>3. k = n + 1 \/ n + 1 < k
        BY <1>5, <1>7, <3>2
      <3>. QED  BY <1>5, <1>7, <1>8, <2>2, <3>1, <3>3
    <2>4. CASE other \in UNION {Run(start, count) : start \in starts}
      <3>1. PICK start \in starts : other \in Run(start, count)
        BY <2>4
      <3>2. page < start
        BY <1>5, <1>8
      <3>3. other >= start /\ other \in Int
        BY <3>1 DEF Run
      <3>4. start \in Int
        BY <1>8
      <3>. QED  BY <2>2, <3>2, <3>3, <3>4
    <2>. QED  BY <1>8, <2>1, <2>3, <2>4
  <1>. HIDE DEF page
  <1>11. PICK pointer : P!pmm_alloc(1, pointer) /\ pages' = Append(pages, pointer * PageSize)
    BY DEF BootSlabs
  <1>12. pointer = HigherHalf + page
    BY <1>1, <1>2, <1>9, <1>10, <1>11, FirstClearPage
  <1>13. pages' = Append(pages, Address(page))
    BY <1>11, <1>12 DEF Address
  <1>14. RunsWereFree
    <2>1. PageOf(Address(page)) = page
      BY <1>1, <1>5, MemoryPages DEF page
    <2>2. ASSUME NEW k \in DOMAIN pages' \ DOMAIN pages
          PROVE  PageOf(pages'[k]) \in P!ClearBits
      <3>1. pages \in Seq(Nat)
        BY <1>1 DEF SlabPagesOK
      <3>2. Address(page) \in Nat
        BY <1>1, <1>5, MemoryPages DEF page
      <3>3. pages'[k] = Address(page)
        BY <1>13, <2>2, <3>1, <3>2
      <3>. QED  BY <1>9, <2>1, <3>3
    <2>. QED  BY <1>2, <2>2 DEF RunsWereFree
  <1>. QED  BY <1>3, <1>13, <1>14 DEF n, page

\* Places do not overlap, and none is the other.
LEMMA PlacesApart ==
  ASSUME NEW starts \in SUBSET Nat, NEW count \in Nat \ {0},
         \A start, other \in starts : start < other => start + count <= other,
         NEW start \in starts, NEW other \in starts, start # other
  PROVE  /\ Run(start, count) \cap Run(other, count) = {}
         /\ Run(start, count) # Run(other, count)
  <1>1. start \in Nat /\ other \in Nat /\ (start + count <= other \/ other + count <= start)
    OBVIOUS
  <1>2. Run(start, count) \cap Run(other, count) = {}
    BY <1>1 DEF Run
  <1>3. start \in Run(start, count)
    BY <1>1 DEF Run
  <1>. QED  BY <1>2, <1>3

\* A place where no block lies is free.
LEMMA FreePlace ==
  ASSUME KmallocInv, SlabsReady, NEW first, NEW starts, NEW count \in Nat \ {0},
         Placed(first, starts, count), NEW start \in starts,
         \A c \in Holders : IsBig(held[c].size) => BlockPages(c) # Run(start, count)
  PROVE  Run(start, count) \subseteq P!ClearBits
  <1>1. Accounting /\ Divides(first, starts, count, P!Pool)
    BY DEF KmallocInv, Placed
  <1>2. /\ Run(start, count) \subseteq P!Pool
        /\ starts \in SUBSET Nat
        /\ \A k \in 1 .. SlabPages, other \in starts : first[k] < other
        /\ \A other, third \in starts : other < third => other + count <= third
    BY <1>1 DEF Divides
  <1>3. ASSUME NEW page \in Run(start, count)
        PROVE  page \notin SlabPageSet
    <2>1. /\ SlabPageSet = {first[k] : k \in DOMAIN pages}
          /\ DOMAIN pages \subseteq 1 .. SlabPages
          /\ \A k \in 1 .. SlabPages : first[k] \in 1 .. (highest_page - 1)
      BY SlabsHaveFirstPages
    <2>2. page >= start /\ start \in Int /\ page \in Int
      BY <1>2, <1>3 DEF Run
    <2>3. \A k \in DOMAIN pages : first[k] \in Int /\ first[k] < start
      BY <1>2, <2>1
    <2>4. \A k \in DOMAIN pages : first[k] # page
      BY <2>2, <2>3
    <2>. QED  BY <2>1, <2>4
  <1>4. ASSUME NEW page \in Run(start, count), NEW c \in Holders
        PROVE  page \notin BlockPages(c)
    <2>1. CASE ~IsBig(held[c].size)
      BY <2>1 DEF BlockPages
    <2>2. CASE IsBig(held[c].size)
      <3>1. PICK other \in starts : BlockPages(c) = Run(other, count)
        BY <2>2 DEF Placed
      <3>2. other # start
        BY <2>2, <3>1
      <3>3. Run(start, count) \cap Run(other, count) = {}
        BY <1>2, <3>2, PlacesApart
      <3>. QED  BY <1>4, <3>1, <3>3
    <2>. QED  BY <2>1, <2>2
  <1>. QED  BY <1>1, <1>2, <1>3, <1>4 DEF Accounting

\* A client that holds no block leaves one of the places free.
LEMMA PlaceLeft ==
  ASSUME KmallocInv, NEW first, NEW starts, NEW count \in Nat \ {0},
         Placed(first, starts, count), IsFiniteSet(Clients),
         Cardinality(Clients) <= Cardinality(starts),
         NEW c \in Clients, held[c] = NoBlock
  PROVE  \E start \in starts :
           \A d \in Holders : IsBig(held[d].size) => BlockPages(d) # Run(start, count)
  <1>. SUFFICES ASSUME \A start \in starts : \E d \in Holders : BlockPages(d) = Run(start, count)
                PROVE  FALSE
    OBVIOUS
  <1>. DEFINE others == Clients \ {c}
              owner == [start \in starts |-> CHOOSE d \in others : BlockPages(d) = Run(start, count)]
  <1>1. \A start \in starts : owner[start] \in others /\ BlockPages(owner[start]) = Run(start, count)
    <2>1. Holders \subseteq others
      BY DEF Holders
    <2>2. \A start \in starts : \E d \in others : BlockPages(d) = Run(start, count)
      BY <2>1
    <2>. QED  BY <2>2
  <1>2. /\ starts \in SUBSET Nat
        /\ \A start, other \in starts : start < other => start + count <= other
    BY DEF Placed, Divides
  <1>. HIDE DEF others
  <1>3. owner \in [starts -> others]
    BY <1>1
  <1>. HIDE DEF owner
  <1>4. \A start, other \in starts : owner[start] = owner[other] => start = other
    BY <1>1, <1>2, PlacesApart
  <1>5. owner \in Injection(starts, others)
    BY <1>3, <1>4 DEF Injection, IsInjective
  <1>6. IsFiniteSet(others) /\ Cardinality(others) = Cardinality(Clients) - 1
    BY FS_RemoveElement DEF others
  <1>7. IsFiniteSet(starts) /\ Cardinality(starts) <= Cardinality(others)
    BY <1>5, <1>6, FS_Injection
  <1>8. Cardinality(Clients) \in Nat /\ Cardinality(starts) \in Nat
    BY <1>7, FS_CardinalityType
  <1>. QED  BY <1>6, <1>7, <1>8

\* kmalloc gets a place for a big block.
LEMMA BigAllocPlaces ==
  ASSUME NEW count, UniformBlocks(count), KmallocInv, CountOK, PlacesOK(count),
         NEW c \in Clients, NEW size \in Requests,
         SlabsReady, held[c] = NoBlock, big_alloc(c, size), UNCHANGED pages
  PROVE  /\ RunsWereFree
         /\ \E first, starts : /\ Placed(first, starts, count)
                               /\ \E start \in starts : BlockPages(c)' = Run(start, count)
  <1>1. PmmInv /\ Accounting /\ BlocksTyped /\ SlabPagesOK
    BY DEF KmallocInv
  <1>2. IsBig(size)
    BY DEF big_alloc
  <1>. DEFINE new == next_pow_of_two(size)
  <1>3. /\ count = BigPages(new) /\ count \in Nat \ {0} /\ count - 1 = new \div PageSize
    BY <1>2, BigBlock DEF UniformBlocks
  <1>4. phase = "ready"
    <2>1. phase \in {"boot", "ready"}
      BY <1>1, PmmTypes
    <2>. QED  BY <1>1, <2>1, KmallocAssumption DEF SlabPagesOK, SlabsReady
  <1>5. PICK first, starts : Placed(first, starts, count)
    BY <1>4 DEF PlacesOK
  <1>6. /\ starts \subseteq Nat
        /\ P!Pool = {first[k] : k \in 1 .. SlabPages}
                      \cup UNION {Run(start, count) : start \in starts}
        /\ IsFiniteSet(Clients) /\ Cardinality(Clients) <= Cardinality(starts)
    BY <1>2, <1>5 DEF Placed, Divides, PlacesSuffice
  <1>7. PICK left \in starts :
          \A d \in Holders : IsBig(held[d].size) => BlockPages(d) # Run(left, count)
    BY <1>3, <1>5, <1>6, PlaceLeft
  <1>8. left \in P!ClearBits
    <2>1. Run(left, count) \subseteq P!ClearBits
      BY <1>3, <1>5, <1>7, FreePlace
    <2>2. left \in Run(left, count)
      BY <1>3, <1>6 DEF Run
    <2>. QED  BY <2>1, <2>2
  <1>9. P!ClearBits \subseteq P!Pool /\ P!Pool \subseteq 1 .. (highest_page - 1)
    BY <1>1 DEF PmmInv
  <1>10. PICK page \in P!ClearBits : \A other \in P!ClearBits : page <= other
    <2>1. P!ClearBits \in SUBSET Nat /\ P!ClearBits # {}
      BY <1>8, <1>9
    <2>. QED  BY <2>1, LeastElement
  <1>11. page \in 1 .. (highest_page - 1) /\ page \in Nat
    BY <1>9
  <1>12. PICK start \in starts : page \in Run(start, count)
    <2>1. page \notin SlabPageSet
      BY <1>1, <1>10 DEF Accounting
    <2>2. SlabPageSet = {first[k] : k \in 1 .. SlabPages}
      <3>1. SlabPageSet = {first[k] : k \in DOMAIN pages} /\ DOMAIN pages = 1 .. Len(pages)
        BY <1>5, SlabsHaveFirstPages
      <3>. QED  BY <3>1 DEF SlabsReady
    <2>. QED  BY <1>6, <1>9, <2>1, <2>2
  <1>13. page = start
    <2>1. ASSUME NEW d \in Holders, IsBig(held[d].size)
          PROVE  BlockPages(d) # Run(start, count)
      <3>1. page \notin BlockPages(d)
        BY <1>1, <1>10, <2>1 DEF Accounting
      <3>. QED  BY <1>12, <3>1
    <2>2. Run(start, count) \subseteq P!ClearBits
      BY <1>3, <1>5, <2>1, FreePlace
    <2>3. start \in Run(start, count)
      BY <1>3, <1>6 DEF Run
    <2>4. page <= start
      BY <1>10, <2>2, <2>3
    <2>5. start <= page /\ start \in Nat
      BY <1>6, <1>12 DEF Run
    <2>. QED  BY <1>11, <2>4, <2>5
  <1>14. PICK pointer \in 0 .. (AddrPages - 1) :
           /\ P!pmm_alloc(BigPages(new), pointer)
           /\ Return(c, size, pointer * PageSize + PageSize)
    BY DEF big_alloc
  <1>15. pointer * PageSize = Address(page)
    <2>1. pointer = HigherHalf + page
      <3>1. count # 0
        BY <1>3
      <3>. QED  BY <1>1, <1>3, <1>4, <1>10, <1>14, <3>1, FirstClearPage
    <2>. QED  BY <2>1 DEF Address
  <1>16. /\ Address(page) \in Nat /\ PageOf(Address(page)) = page
         /\ Address(page) + PageSize \in Nat \ {0}
         /\ Address(page) + PageSize - PageSize = Address(page)
    BY <1>1, <1>11, MemoryPages, PmmConstants
  <1>17. /\ held'[c].pointer = Address(page) + PageSize /\ held'[c].size = size
         /\ \A d \in Clients \ {c} : held'[d] = held[d]
    BY <1>1, <1>14, <1>15, <1>16, Returned
  <1>18. BlockPages(c)' = Run(start, count)
    <2>1. BlockPages(c)' = PageOf(held'[c].pointer - PageSize) ..
            (PageOf(held'[c].pointer - PageSize) + next_pow_of_two(held'[c].size) \div PageSize)
      BY <1>2, <1>17, Zenon DEF BlockPages, PageOf, P!higher_half_data_to_phys
    <2>2. BlockPages(c)' = page .. (page + new \div PageSize)
      <3>1. held'[c].pointer - PageSize = Address(page)
        <4>1. \A a, b \in Nat : (a + b) - b = a
          OBVIOUS
        <4>2. (Address(page) + PageSize) - PageSize = Address(page)
          BY <1>16, <4>1, PmmConstants
        <4>. QED  BY <1>17, <4>2, Zenon
      <3>. QED  BY <1>16, <1>17, <2>1, <3>1, Zenon
    <2>. HIDE DEF new
    <2>3. page + (count - 1) = page + count - 1
      BY <1>3, <1>11
    <2>. QED  BY <1>3, <1>13, <2>2, <2>3 DEF Run
  <1>19. RunsWereFree
    <2>1. Run(start, count) \subseteq P!ClearBits
      <3>1. ASSUME NEW d \in Holders, IsBig(held[d].size)
            PROVE  BlockPages(d) # Run(start, count)
        <4>1. page \notin BlockPages(d)
          BY <1>1, <1>10, <3>1 DEF Accounting
        <4>. QED  BY <1>12, <4>1
      <3>. QED  BY <1>3, <1>5, <3>1, FreePlace
    <2>2. ASSUME NEW d \in Clients, held[d] = NoBlock, held'[d] # NoBlock
          PROVE  BlockPages(d)' \subseteq P!ClearBits
      <3>1. d = c
        BY <1>17, <2>2
      <3>. QED  BY <1>18, <2>1, <3>1
    <2>. QED  BY <2>2 DEF RunsWereFree
  <1>. QED  BY <1>5, <1>18, <1>19

\* The places stay as they are: each big block is an old one or lies in one.
LEMMA PlacesKept ==
  ASSUME NEW first, NEW starts, NEW count, Placed(first, starts, count),
         P!Pool' = P!Pool,
         \A k \in DOMAIN pages' : pages'[k] = Address(first[k]),
         \A c \in Holders' : IsBig(held'[c].size) =>
           \/ c \in Holders /\ held'[c] = held[c]
           \/ \E start \in starts : BlockPages(c)' = Run(start, count)
  PROVE  PlacesOK(count)'
  <1>1. ASSUME NEW c \in Holders', IsBig(held'[c].size)
        PROVE  \E start \in starts : BlockPages(c)' = Run(start, count)
    <2>1. CASE c \in Holders /\ held'[c] = held[c]
      <3>1. BlockPages(c)' = BlockPages(c)
        BY <2>1 DEF BlockPages
      <3>. QED  BY <1>1, <2>1, <3>1 DEF Placed
    <2>. QED  BY <1>1, <2>1
  <1>2. Placed(first, starts, count)'
    BY <1>1 DEF Placed
  <1>. QED  BY <1>2 DEF PlacesOK

\* The inductive invariant: the heap, its places and its counter.
HeapInv(count) == KmallocInv /\ PlacesOK(count) /\ CountOK

LEMMA BootPMMKeepsHeap ==
  ASSUME NEW count, UniformBlocks(count), CounterFits, BitmapsCover, HeapInv(count), BootPMM
  PROVE  HeapInv(count)'
  BY BootPMMKeepsInv, InitPlaces, InitCounts DEF HeapInv

LEMMA BootSlabsKeepsHeap ==
  ASSUME NEW count, HeapInv(count), BootSlabs
  PROVE  HeapInv(count)'
  <1>1. KmallocInv /\ PlacesOK(count) /\ CountOK /\ PmmInv /\ SlabPagesOK
    BY DEF HeapInv, KmallocInv
  <1>2. phase = "ready" /\ phase' = "ready" /\ held' = held /\ ~SlabsReady
    BY DEF BootSlabs
  <1>3. RunsWereFree
    BY <1>1, BootSlabsPlaces
  <1>4. PICK first, starts : /\ Placed(first, starts, count)
                             /\ pages' = Append(pages, Address(first[Len(pages) + 1]))
    BY <1>1, BootSlabsPlaces
  <1>5. KmallocInv' /\ \E page : Marks({page})
    BY <1>1, <1>3, BootSlabsKeepsInv
  <1>6. PICK run : Marks(run)
    BY <1>5
  <1>7. PlacesOK(count)'
    <2>1. Holders' = {}
      BY <1>1, <1>2 DEF KmallocInv, BlocksTyped, Holders
    <2>2. P!Pool' = P!Pool
      BY <1>6 DEF Marks
    <2>3. \A k \in DOMAIN pages' : pages'[k] = Address(first[k])
      <3>1. pages \in Seq(Nat)
        BY <1>1 DEF SlabPagesOK
      <3>2. \A k \in DOMAIN pages : pages[k] = Address(first[k])
        BY <1>4 DEF Placed
      <3>3. PICK address : address = Address(first[Len(pages) + 1])
        OBVIOUS
      <3>4. /\ DOMAIN pages' = DOMAIN pages \cup {Len(pages) + 1}
            /\ \A k \in DOMAIN pages : pages'[k] = pages[k]
            /\ pages'[Len(pages) + 1] = address
        BY <1>4, <3>1, <3>3
      <3>. QED  BY <3>2, <3>3, <3>4
    <2>. QED  BY <1>4, <2>1, <2>2, <2>3, PlacesKept
  <1>8. CountOK'
    <2>1. PICK base : Counted(base)
      BY <1>1, <1>2 DEF CountOK
    <2>2. Counted(base)'
      BY <1>1, <1>6, <2>1, MarksCounts
    <2>. QED  BY <2>2 DEF CountOK
  <1>. QED  BY <1>5, <1>7, <1>8 DEF HeapInv

LEMMA BigAllocKeepsHeap ==
  ASSUME NEW count, UniformBlocks(count), HeapInv(count), NEW c \in Clients, NEW size \in Requests,
         SlabsReady, held[c] = NoBlock, big_alloc(c, size), UNCHANGED pages
  PROVE  HeapInv(count)'
  <1>1. KmallocInv /\ PlacesOK(count) /\ CountOK /\ PmmInv
    BY DEF HeapInv, KmallocInv
  <1>2. phase = "ready"
    <2>1. phase \in {"boot", "ready"}
      BY <1>1, PmmTypes
    <2>. QED  BY <1>1, <2>1, KmallocAssumption DEF KmallocInv, SlabPagesOK, SlabsReady
  <1>3. RunsWereFree
    BY <1>1, BigAllocPlaces
  <1>4. PICK first, starts : /\ Placed(first, starts, count)
                             /\ \E start \in starts : BlockPages(c)' = Run(start, count)
    BY <1>1, BigAllocPlaces
  <1>5. KmallocInv' /\ Holders' = Holders \cup {c} /\ \A d \in Holders : held'[d] = held[d]
    BY <1>1, <1>3, BigAllocKeepsInv
  <1>6. PICK run : Marks(run)
    BY <1>1, <1>3, BigAllocKeepsInv
  <1>7. PlacesOK(count)'
    <2>1. P!Pool' = P!Pool
      BY <1>6 DEF Marks
    <2>2. \A k \in DOMAIN pages' : pages'[k] = Address(first[k])
      BY <1>4 DEF Placed
    <2>3. \A d \in Holders' : \/ d \in Holders /\ held'[d] = held[d]
                              \/ \E start \in starts : BlockPages(d)' = Run(start, count)
      <3>1. ASSUME NEW d \in Holders'
            PROVE  \/ d \in Holders /\ held'[d] = held[d]
                   \/ \E start \in starts : BlockPages(d)' = Run(start, count)
        <4>1. CASE d = c
          BY <1>4, <4>1
        <4>2. CASE d # c
          BY <1>5, <3>1, <4>2
        <4>. QED  BY <4>1, <4>2
      <3>. QED  BY <3>1
    <2>. QED  BY <1>4, <2>1, <2>2, <2>3, PlacesKept
  <1>8. CountOK'
    <2>1. PICK base : Counted(base)
      BY <1>1, <1>2 DEF CountOK
    <2>2. Counted(base)'
      BY <1>1, <1>6, <2>1, MarksCounts
    <2>. QED  BY <2>2 DEF CountOK
  <1>. QED  BY <1>5, <1>7, <1>8 DEF HeapInv

\* A step that leaves the counter and the bits alone, and adds no big block.
LEMMA MemoryKeepsHeap ==
  ASSUME NEW count, HeapInv(count), KmallocInv', UNCHANGED memVars, pages' = pages,
         P!Pool' = P!Pool, P!ClearBits' = P!ClearBits, BigBlocksKept
  PROVE  HeapInv(count)'
  <1>1. PlacesOK(count) /\ CountOK /\ phase' = phase /\ used_pages' = used_pages
    BY DEF HeapInv, memVars
  <1>2. PlacesOK(count)'
    <2>1. CASE phase = "ready"
      <3>1. PICK first, starts : Placed(first, starts, count)
        BY <1>1, <2>1 DEF PlacesOK
      <3>2. \A k \in DOMAIN pages' : pages'[k] = Address(first[k])
        BY <3>1 DEF Placed
      <3>. QED  BY <3>1, <3>2, PlacesKept DEF BigBlocksKept
    <2>2. CASE phase # "ready"
      BY <1>1, <2>2 DEF PlacesOK
    <2>. QED  BY <2>1, <2>2
  <1>3. CountOK'
    <2>1. ASSUME phase' = "ready" PROVE \E base : Counted(base)'
      <3>1. PICK base : Counted(base)
        BY <1>1, <2>1 DEF CountOK
      <3>2. Counted(base)'
        BY <1>1, <3>1 DEF Counted
      <3>. QED  BY <3>2
    <2>. QED  BY <2>1 DEF CountOK
  <1>. QED  BY <1>2, <1>3 DEF HeapInv

LEMMA BigFreeKeepsHeap ==
  ASSUME NEW count, HeapInv(count), NEW c \in Clients, Kfree(c), IsBig(held[c].size)
  PROVE  HeapInv(count)'
  <1>1. KmallocInv /\ PlacesOK(count) /\ CountOK /\ PmmInv
    BY DEF HeapInv, KmallocInv
  <1>2. phase = "ready" /\ pages' = pages
    <2>1. c \in Holders /\ pages' = pages
      BY DEF Kfree, Holders
    <2>. QED  BY <1>1, <2>1, Blocks
  <1>3. /\ KmallocInv' /\ Frees(BlockPages(c))
        /\ Holders' = Holders \ {c} /\ \A d \in Holders' : held'[d] = held[d]
    BY <1>1, BigFreeKeepsInv
  <1>4. PlacesOK(count)'
    <2>1. PICK first, starts : Placed(first, starts, count)
      BY <1>1, <1>2 DEF PlacesOK
    <2>2. P!Pool' = P!Pool
      BY <1>3 DEF Frees
    <2>3. \A k \in DOMAIN pages' : pages'[k] = Address(first[k])
      BY <1>2, <2>1 DEF Placed
    <2>. QED  BY <1>3, <2>1, <2>2, <2>3, PlacesKept
  <1>5. CountOK'
    <2>1. PICK base : Counted(base)
      BY <1>1, <1>2 DEF CountOK
    <2>2. PICK run : run = BlockPages(c) /\ Frees(run)
      BY <1>3
    <2>3. Counted(base)'
      BY <1>1, <2>1, <2>2, FreesCounts
    <2>. QED  BY <2>3 DEF CountOK
  <1>. QED  BY <1>3, <1>4, <1>5 DEF HeapInv

LEMMA NextKeepsHeap ==
  ASSUME NEW count, UniformBlocks(count), CounterFits, BitmapsCover, EmptyRequestsSafe
  PROVE  HeapInv(count) /\ [Next]_vars => HeapInv(count)'
  <1>. SUFFICES ASSUME HeapInv(count), [Next]_vars PROVE HeapInv(count)'
    OBVIOUS
  <1>1. CASE BootPMM
    BY <1>1, BootPMMKeepsHeap
  <1>2. CASE BootSlabs
    BY <1>2, BootSlabsKeepsHeap
  <1>3. ASSUME NEW c \in Clients, NEW size \in Requests, Kmalloc(c, size)
        PROVE  HeapInv(count)'
    <2>1. SlabsReady /\ held[c] = NoBlock /\ UNCHANGED pages
      BY <1>3 DEF Kmalloc
    <2>2. CASE big_alloc(c, size)
      BY <2>1, <2>2, BigAllocKeepsHeap
    <2>3. CASE small_alloc(c, size)
      <3>1. UNCHANGED memVars
        BY <2>3 DEF small_alloc
      <3>2. KmallocInv' /\ P!Pool' = P!Pool /\ P!ClearBits' = P!ClearBits /\ BigBlocksKept
        BY <2>1, <2>3, SmallAllocKeepsInv DEF HeapInv
      <3>. QED  BY <2>1, <3>1, <3>2, MemoryKeepsHeap
    <2>. QED  BY <1>3, <2>2, <2>3 DEF Kmalloc
  <1>4. ASSUME NEW c \in Clients, Kfree(c)
        PROVE  HeapInv(count)'
    <2>1. CASE IsBig(held[c].size)
      BY <1>4, <2>1, BigFreeKeepsHeap
    <2>2. CASE ~IsBig(held[c].size)
      <3>1. /\ KmallocInv' /\ UNCHANGED memVars
            /\ P!Pool' = P!Pool /\ P!ClearBits' = P!ClearBits /\ BigBlocksKept
        BY <1>4, <2>2, SmallFreeKeepsInv DEF HeapInv
      <3>2. pages' = pages
        BY <1>4 DEF Kfree
      <3>. QED  BY <3>1, <3>2, MemoryKeepsHeap
    <2>. QED  BY <2>1, <2>2
  <1>5. CASE UNCHANGED vars
    <2>1. KmallocInv' /\ UNCHANGED memVars /\ pages' = pages
      BY <1>5, StutterKeepsInv DEF HeapInv, vars, memVars
    <2>2. P!Pool' = P!Pool /\ P!ClearBits' = P!ClearBits
      BY <2>1, MemoryKept DEF HeapInv, KmallocInv
    <2>3. BigBlocksKept
      BY <1>5 DEF BigBlocksKept, vars, Holders
    <2>. QED  BY <2>1, <2>2, <2>3, MemoryKeepsHeap
  <1>. QED  BY <1>1, <1>2, <1>3, <1>4, <1>5 DEF Next

LEMMA Invariance ==
  ASSUME NEW count, UniformBlocks(count), CounterFits, BitmapsCover, EmptyRequestsSafe
  PROVE  Spec => []KmallocInv
  <1>1. Init => HeapInv(count)
    <2>1. Init => phase # "ready"
      BY DEF Init
    <2>. QED  BY <2>1, InitInv DEF HeapInv, PlacesOK, CountOK
  <1>2. HeapInv(count) /\ [Next]_vars => HeapInv(count)'
    BY NextKeepsHeap
  <1>3. HeapInv(count) => KmallocInv
    BY DEF HeapInv
  <1>. QED  BY <1>1, <1>2, <1>3, PTL DEF Spec

\* Whatever sequences of kmalloc and kfree follow the boot, the slabs' slots
\* hold objects of their own slab or nothing, and the state of both allocators
\* and the size words have their types.
THEOREM HeapKeepsTypes ==
  ASSUME NEW count, UniformBlocks(count), CounterFits, BitmapsCover, EmptyRequestsSafe
  PROVE  Spec => []TypeOK
  <1>1. KmallocInv => TypeOK
    BY DEF KmallocInv, PmmInv, BlocksTyped, SlabPagesOK, TypeOK
  <1>. QED  BY Invariance, <1>1, PTL

\* kfree finds the allocator of every block from the low bits of its pointer
\* (kmalloc.c:89), and before a big block the size that kmalloc wrote for this
\* block, whatever was allocated and freed there before.
THEOREM KfreeFindsAllocator ==
  ASSUME NEW count, UniformBlocks(count), CounterFits, BitmapsCover, EmptyRequestsSafe
  PROVE  Spec => []FreeFindsAllocator
  <1>1. KmallocInv => FreeFindsAllocator
    BY InvImpliesFreeFindsAllocator
  <1>. QED  BY Invariance, <1>1, PTL

\* If all big blocks take the same number of pages, and the pool, behind the
\* pages of the slabs, is made of places for such blocks, one for each client,
\* then no byte of a block or of its metadata is in another block, in whatever
\* order big and small blocks are allocated and freed (kmalloc.c).
THEOREM BlocksNeverOverlap ==
  ASSUME NEW count, UniformBlocks(count), CounterFits, BitmapsCover, EmptyRequestsSafe
  PROVE  Spec => []BlocksDisjoint
  BY Invariance, InvImpliesBlocksDisjoint, PTL

\* Under the same conditions, every page of the pool that is marked has an
\* owner, and every page of an owner is marked: kfree gives back what kmalloc
\* took (kmalloc.c).
THEOREM EveryPageHasOwner ==
  ASSUME NEW count, UniformBlocks(count), CounterFits, BitmapsCover, EmptyRequestsSafe
  PROVE  Spec => []PagesAccounted
  <1>1. KmallocInv => PagesAccounted
    BY DEF KmallocInv, Accounting, PagesAccounted
  <1>. QED  BY Invariance, <1>1, PTL
=============================================================================
