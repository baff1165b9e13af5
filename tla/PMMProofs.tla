----------------------------- MODULE PMMProofs -----------------------------
(***************************************************************************)
(* Theorems about PMM, for every memory map, number of clients and width   *)
(* of the integers.                                                        *)
(***************************************************************************)
EXTENDS PMM, ArithmeticProofs, FiniteSetTheorems, TLAPS
----------------------------------------------------------------------------
(* Pages, pointers and bits.                                               *)

\* The higher-half pointer of a page is not NULL and names the page again.
LEMMA HigherHalfInverse ==
  ASSUME NEW page \in 0 .. (IntMod - 1)
  PROVE  /\ phys_to_higher_half_data(page) \in 1 .. (AddrPages - 1)
         /\ higher_half_data_to_phys(phys_to_higher_half_data(page)) = page
  <1>. USE ParametersAssumption, AddressAssumption
  <1>1. HigherHalf + page \in 1 .. (AddrPages - 1)
    OBVIOUS
  <1>2. phys_to_higher_half_data(page) = HigherHalf + page
    BY <1>1, RemainderSmall DEF phys_to_higher_half_data
  <1>3. page \in Nat /\ page < AddrPages /\ AddrPages \in Nat \ {0}
    OBVIOUS
  <1>4. (HigherHalf + page) - HigherHalf = page
    OBVIOUS
  <1>. QED  BY <1>1, <1>2, <1>3, <1>4, RemainderSmall DEF higher_half_data_to_phys

\* pmm_init passes physical addresses to pmm_free, which takes higher-half
\* ones: as an int the bit number is the same.
LEMMA PhysicalPointerBit ==
  ASSUME NEW page \in Nat, NEW i \in Nat, page + i < IntMod
  PROVE  BitOf(higher_half_data_to_phys(page) + i) = page + i
  <1>. DEFINE upper == AddrPages - HigherHalf
  <1>1. /\ page - HigherHalf < 0 /\ page - HigherHalf + AddrPages >= 0
        /\ AddrPages \in Nat \ {0} /\ HigherHalf \in Nat
    BY ParametersAssumption, AddressAssumption
  <1>2. (page - HigherHalf) % AddrPages = (page - HigherHalf) + AddrPages
    BY <1>1
  <1>3. higher_half_data_to_phys(page) + i = (page + i) + upper
    BY <1>1, <1>2 DEF higher_half_data_to_phys
  <1>4. /\ upper \in Int /\ upper % IntMod = 0
        /\ page + i \in Nat /\ IntMod \in Nat \ {0}
    BY ParametersAssumption, AddressAssumption
  <1>. HIDE DEF upper
  <1>5. ((page + i) + upper) % IntMod = (page + i) % IntMod
    BY <1>4, RemainderShift
  <1>6. (page + i) % IntMod = page + i
    BY <1>4, RemainderSmall
  <1>. QED  BY <1>3, <1>5, <1>6 DEF BitOf
----------------------------------------------------------------------------
(* Memory maps.                                                            *)

\* The page numbers of the memory in use are not negative as an int.
Bounded(map) ==
  \A i \in DOMAIN map :
    map[i].type # "other" => 2 * (map[i].base + map[i].length) <= IntMod

\* Taking the bitmap's pages from the host entry keeps where entries end.
LEMMA ShrinkKeepsEntries ==
  ASSUME NEW map \in Seq(Entry), Bounded(map), NEW pages \in Nat
  PROVE  /\ Shrink(map, pages) \in Seq(Entry)
         /\ Bounded(Shrink(map, pages))
         /\ DOMAIN Shrink(map, pages) = DOMAIN map
         /\ \A i \in DOMAIN map :
              /\ Shrink(map, pages)[i].type = map[i].type
              /\ Shrink(map, pages)[i].base + Shrink(map, pages)[i].length
                   = map[i].base + map[i].length
  <1>. DEFINE new == Shrink(map, pages)
  <1>1. DOMAIN new = DOMAIN map
    BY DEF Shrink
  <1>2. ASSUME NEW i \in DOMAIN map
        PROVE  /\ new[i] \in Entry /\ new[i].type = map[i].type
               /\ new[i].base + new[i].length = map[i].base + map[i].length
    <2>1. map[i] \in Entry
      OBVIOUS
    <2>2. CASE IsHost(map, pages, i)
      <3>1. new[i] = [base |-> map[i].base + pages,
                      length |-> map[i].length - pages, type |-> "usable"]
        BY <2>2 DEF Shrink
      <3>2. map[i].length >= pages /\ map[i].type = "usable"
        BY <2>2 DEF IsHost
      <3>. QED  BY <2>1, <3>1, <3>2 DEF Entry
    <2>3. CASE ~IsHost(map, pages, i)
      BY <2>1, <2>3 DEF Shrink
    <2>. QED  BY <2>2, <2>3
  <1>3. new \in Seq(Entry)
    <2>1. PICK n \in Nat : DOMAIN map = 1 .. n
      OBVIOUS
    <2>2. new \in [1 .. n -> Entry]
      BY <1>1, <1>2, <2>1 DEF Shrink
    <2>. QED  BY <2>2
  <1>4. Bounded(new)
    BY <1>1, <1>2 DEF Bounded
  <1>. QED  BY <1>1, <1>2, <1>3, <1>4

LEMMA UsablePagesBounded ==
  ASSUME NEW map \in Seq(Entry), Bounded(map)
  PROVE  /\ UsablePages(map) \subseteq Nat
         /\ \A page \in UsablePages(map) : 2 * page < IntMod
         /\ Cardinality(UsablePages(map)) \in Nat
  <1>1. \A page \in UsablePages(map) : page \in Nat /\ 2 * page < IntMod
    <2>. SUFFICES ASSUME NEW i \in DOMAIN map, map[i].type = "usable",
                         NEW page \in EntryPages(map[i])
                  PROVE  page \in Nat /\ 2 * page < IntMod
      BY DEF UsablePages
    <2>1. map[i] \in Entry
      OBVIOUS
    <2>2. 2 * (map[i].base + map[i].length) <= IntMod
      BY DEF Bounded
    <2>. QED  BY <2>1, <2>2, ParametersAssumption DEF Entry, EntryPages
  <1>2. IsFiniteSet(UsablePages(map))
    <2>1. UsablePages(map) \in SUBSET Nat /\ IntMod \in Nat
      BY <1>1, ParametersAssumption
    <2>2. \A page \in UsablePages(map) : page <= IntMod
      BY <1>1, <2>1
    <2>. QED  BY <2>1, <2>2, FS_BoundedSetOfNaturals
  <1>. QED  BY <1>1, <1>2, FS_CardinalityType

\* Step 6 of pmm_init clears the bits of the usable pages and no others.
LEMMA FreedBitsAreUsable ==
  ASSUME NEW map \in Seq(Entry), Bounded(map)
  PROVE  FreedBits(map) = UsablePages(map)
  <1>1. ASSUME NEW i \in DOMAIN map, map[i].type = "usable"
        PROVE  RunBits(higher_half_data_to_phys(map[i].base), map[i].length)
                 = EntryPages(map[i])
    <2>1. map[i].base \in Nat /\ map[i].length \in Nat
      <3>1. map[i] \in Entry
        OBVIOUS
      <3>. QED  BY <3>1 DEF Entry
    <2>2. 2 * (map[i].base + map[i].length) <= IntMod /\ IntMod \in Nat \ {0}
      BY <1>1, ParametersAssumption DEF Bounded
    <2>3. ASSUME NEW k \in 0 .. (map[i].length - 1)
          PROVE  BitOf(higher_half_data_to_phys(map[i].base) + k) = map[i].base + k
      <3>1. k \in Nat /\ map[i].base + k < IntMod
        BY <2>1, <2>2
      <3>. QED  BY <2>1, <3>1, PhysicalPointerBit
    <2>4. RunBits(higher_half_data_to_phys(map[i].base), map[i].length)
            = {map[i].base + k : k \in 0 .. (map[i].length - 1)}
      BY <2>3 DEF RunBits
    <2>5. \A page \in EntryPages(map[i]) :
            /\ page - map[i].base \in 0 .. (map[i].length - 1)
            /\ page = map[i].base + (page - map[i].base)
      BY <2>1 DEF EntryPages
    <2>6. \A k \in 0 .. (map[i].length - 1) : map[i].base + k \in EntryPages(map[i])
      BY <2>1 DEF EntryPages
    <2>. QED  BY <2>4, <2>5, <2>6
  <1>. QED  BY <1>1 DEF FreedBits, UsablePages
----------------------------------------------------------------------------
(* Types and the null page, whatever page counts are asked for.            *)

\* Blocks lie in the memory pmm_init has seen, so the bits of a block, whose
\* first page is not 0, do not wrap around to bit 0 as an int.
Inv ==
  /\ TypeOK
  /\ NullPageReserved
  /\ 2 * highest_page <= IntMod
  /\ phase = "boot" => memory_map \in MemMaps /\ held = [c \in Clients |-> NoBlock]
  /\ \A c \in Clients :
       held[c] # NoBlock
         => higher_half_data_to_phys(held[c].pointer) \in 1 .. (highest_page - 1)

LEMMA MemMapsBounded ==
  ASSUME NEW map \in MemMaps
  PROVE  map \in Seq(Entry) /\ Bounded(map)
  BY MemMapsAssumption DEF WellFormedMap, Bounded

LEMMA BitmapPagesType ==
  ASSUME NEW pages \in Nat
  PROVE  BitmapPages(pages) \in Nat
  <1>1. /\ PageSize \in Nat \ {0} /\ ByteBits \in Nat \ {0}
        /\ pages \div ByteBits \in Nat
    BY ParametersAssumption
  <1>2. (pages \div ByteBits) + PageSize - 1 \in Nat
    BY <1>1
  <1>3. \A a \in Nat : a \div PageSize \in Nat
    BY <1>1
  <1>. QED  BY <1>2, <1>3 DEF BitmapPages

\* What an allocation does: nothing, or it marks a run that starts at a page
\* whose bit reads as 0.
LEMMA AllocOutcome ==
  ASSUME Inv, NEW page_count \in PageCounts, NEW pointer,
         pmm_alloc(page_count, pointer)
  PROVE  \/ pointer = NULL /\ UNCHANGED <<bitmap, used_pages, stray>>
         \/ \E page \in 1 .. (highest_page - 1) :
              /\ page < BitsIn(bitmap.size) => page \notin bitmap.ones
              /\ pointer = phys_to_higher_half_data(page)
              /\ bitmap' = SetBits(bitmap, RunBits(page, page_count))
              /\ stray' = (stray \/ Outside(bitmap, RunBits(page, page_count)))
              /\ used_pages' = (used_pages + page_count) % CounterMod
  <1>1. PICK garbage \in SUBSET (BitsIn(bitmap.size) .. (highest_page - 1)),
             page \in 0 .. highest_page :
          /\ pmm_find_first_free_page(page_count, FreeBits(garbage), page)
          /\ \/ /\ used_pages = 0 \/ page = NULL
                /\ pointer = NULL
                /\ UNCHANGED <<bitmap, used_pages, stray>>
             \/ /\ used_pages # 0 /\ page # NULL
                /\ pointer = phys_to_higher_half_data(page)
                /\ bitmap' = SetBits(bitmap, RunBits(page, page_count))
                /\ stray' = (stray \/ Outside(bitmap, RunBits(page, page_count)))
                /\ used_pages' = (used_pages + page_count) % CounterMod
    BY DEF pmm_alloc
  <1>2. CASE page = NULL
    BY <1>1, <1>2
  <1>3. CASE page # NULL
    <2>1. page \in FreeBits(garbage)
      BY <1>1, <1>3 DEF pmm_find_first_free_page
    <2>2. /\ page \in 0 .. (highest_page - 1)
          /\ page < BitsIn(bitmap.size) => page \notin bitmap.ones
      BY <2>1 DEF FreeBits
    <2>3. page \in 1 .. (highest_page - 1)
      BY <1>3, <2>2 DEF Inv, TypeOK, NULL
    <2>. QED  BY <1>1, <1>3, <2>2, <2>3
  <1>. QED  BY <1>2, <1>3

LEMMA RunBitsType ==
  ASSUME NEW index \in Int, NEW page_count \in Nat
  PROVE  RunBits(index, page_count) \subseteq Nat
  BY DivisionWithRemainder, ParametersAssumption DEF RunBits, BitOf

THEOREM InitInv == Init => Inv
  <1>. SUFFICES ASSUME Init PROVE Inv
    OBVIOUS
  <1>1. memory_map \in Seq(Entry)
    BY MemMapsBounded DEF Init
  <1>2. TypeOK
    <2>1. bitmap \in [at : Nat, size : Nat, ones : SUBSET Nat]
      BY DEF Init, NULL
    <2>2. held \in [Clients -> Block \cup {NoBlock}]
      BY DEF Init
    <2>3. used_pages \in 0 .. (CounterMod - 1)
      BY ParametersAssumption DEF Init
    <2>. QED  BY <1>1, <2>1, <2>2, <2>3 DEF Init, TypeOK
  <1>. QED  BY <1>2, ParametersAssumption DEF Init, Inv, NullPageReserved

LEMMA InitStepInv == Inv /\ pmm_init => Inv'
  <1>. SUFFICES ASSUME Inv, pmm_init PROVE Inv'
    OBVIOUS
  <1>. DEFINE pages == BitmapPages(highest_page')
              new   == Shrink(memory_map, pages)
  <1>1. memory_map \in Seq(Entry) /\ Bounded(memory_map) /\ held' = held
        /\ held = [c \in Clients |-> NoBlock] /\ phase' = "ready"
    BY MemMapsBounded DEF Inv, pmm_init
  <1>2. highest_page' \in Nat /\ 2 * highest_page' <= IntMod
    <2>1. highest_page' \in {0} \cup Tops(memory_map)
      BY DEF pmm_init
    <2>2. ASSUME NEW i \in DOMAIN memory_map, memory_map[i].type # "other"
          PROVE  /\ memory_map[i].base + memory_map[i].length \in Nat
                 /\ 2 * (memory_map[i].base + memory_map[i].length) <= IntMod
      <3>1. memory_map[i] \in Entry
        BY <1>1
      <3>2. 2 * (memory_map[i].base + memory_map[i].length) <= IntMod
        BY <1>1, <2>2 DEF Bounded
      <3>. QED  BY <3>1, <3>2 DEF Entry
    <2>. QED  BY <2>1, <2>2, ParametersAssumption DEF Tops
  <1>3. pages \in Nat
    BY <1>2, BitmapPagesType
  <1>4. new \in Seq(Entry) /\ Bounded(new)
    BY <1>1, <1>3, ShrinkKeepsEntries
  <1>5. PICK at \in MapPointers(memory_map, pages) :
          /\ bitmap' = ReserveNull(UnsetBits(BlankBitmap(at, pages), FreedBits(new)))
          /\ stray' = Outside(BlankBitmap(at, pages), FreedBits(new) \cup {0})
    BY DEF pmm_init
  <1>6. at \in Nat
    <2>1. \A i \in DOMAIN memory_map : memory_map[i].base \in Nat
      <3>1. \A i \in DOMAIN memory_map : memory_map[i] \in Entry
        BY <1>1
      <3>. QED  BY <3>1 DEF Entry
    <2>. QED  BY <1>5, <2>1 DEF MapPointers, NULL
  <1>7. pages * PageSize \in Nat
    BY <1>3, ParametersAssumption
  <1>8. bitmap' = [at |-> at, size |-> pages * PageSize,
                   ones |-> ((0 .. (BitsIn(pages * PageSize) - 1)) \ FreedBits(new))
                              \cup {x \in {0} : x < BitsIn(pages * PageSize)}]
    BY <1>5 DEF ReserveNull, UnsetBits, SetBits, BlankBitmap
  <1>9. used_pages' \in 0 .. (CounterMod - 1)
    <2>1. Cardinality(UsablePages(new)) \in Nat
      BY <1>4, UsablePagesBounded
    <2>2. KbFactor * highest_page' \in Nat /\ CounterMod \in Nat \ {0}
      <3>1. \A a, b \in Nat : a * b \in Nat
        OBVIOUS
      <3>. QED  BY <1>2, <3>1, ParametersAssumption
    <2>3. used_pages' = (KbFactor * highest_page' - Cardinality(UsablePages(new)))
                          % CounterMod
      BY DEF pmm_init
    <2>. HIDE DEF new
    <2>4. KbFactor * highest_page' - Cardinality(UsablePages(new)) \in Int
      BY <2>1, <2>2
    <2>. QED  BY <2>2, <2>3, <2>4, DivisionWithRemainder
  <1>10. bitmap' \in [at : Nat, size : Nat, ones : SUBSET Nat]
    BY <1>6, <1>7, <1>8
  <1>11. TypeOK'
    <2>1. memory_map' = new /\ stray' \in BOOLEAN
      BY <1>5 DEF pmm_init, Outside
    <2>. QED  BY <1>1, <1>2, <1>4, <1>9, <1>10, <2>1 DEF TypeOK, Inv
  <1>12. NullPageReserved'
    <2>1. bitmap'.size = pages * PageSize
      BY <1>8
    <2>2. 0 < BitsIn(pages * PageSize) => 0 \in bitmap'.ones
      BY <1>8
    <2>3. BitsIn(pages * PageSize) \in Int
      BY <1>7, ParametersAssumption DEF BitsIn
    <2>. QED  BY <2>1, <2>2, <2>3 DEF NullPageReserved, ClearBits, Covered, BitsIn
  <1>. QED  BY <1>1, <1>2, <1>11, <1>12 DEF Inv

LEMMA AllocateInv ==
  ASSUME Inv, NEW c \in Clients, NEW page_count \in PageCounts, Allocate(c, page_count)
  PROVE  Inv'
  <1>1. /\ phase = "ready" /\ held[c] = NoBlock
        /\ UNCHANGED <<phase, memory_map, highest_page>>
    BY DEF Allocate
  <1>2. PICK pointer \in 0 .. (AddrPages - 1) :
          /\ pmm_alloc(page_count, pointer)
          /\ held' = IF pointer = NULL THEN held
                     ELSE [held EXCEPT ![c] = [pointer |-> pointer, count |-> page_count]]
    BY DEF Allocate
  <1>3. CASE pointer = NULL /\ UNCHANGED <<bitmap, used_pages, stray>>
    BY <1>1, <1>2, <1>3 DEF Inv, TypeOK, NullPageReserved, ClearBits, Covered
  <1>4. ASSUME NEW page \in 1 .. (highest_page - 1),
               pointer = phys_to_higher_half_data(page),
               bitmap' = SetBits(bitmap, RunBits(page, page_count)),
               stray' = (stray \/ Outside(bitmap, RunBits(page, page_count))),
               used_pages' = (used_pages + page_count) % CounterMod
        PROVE  Inv'
    <2>1. page_count \in Nat /\ 2 * page_count <= IntMod
      BY ParametersAssumption
    <2>2. page \in 0 .. (IntMod - 1)
      BY ParametersAssumption DEF Inv, TypeOK
    <2>3. pointer \in 1 .. (AddrPages - 1) /\ higher_half_data_to_phys(pointer) = page
      BY <1>4, <2>2, HigherHalfInverse
    <2>4. held' = [held EXCEPT ![c] = [pointer |-> pointer, count |-> page_count]]
      BY <1>2, <2>3, AddressAssumption DEF NULL
    <2>5. RunBits(page, page_count) \subseteq Nat
      BY <2>1, <2>2, RunBitsType
    <2>6. /\ bitmap' \in [at : Nat, size : Nat, ones : SUBSET Nat]
          /\ bitmap'.size = bitmap.size /\ bitmap.ones \subseteq bitmap'.ones
      BY <1>4, <2>5 DEF SetBits, Inv, TypeOK
    <2>7. used_pages' \in 0 .. (CounterMod - 1)
      <3>1. used_pages + page_count \in Int /\ CounterMod \in Nat \ {0}
        BY <2>1, ParametersAssumption DEF Inv, TypeOK
      <3>. QED  BY <1>4, <3>1, DivisionWithRemainder
    <2>8. stray' \in BOOLEAN
      BY <1>4 DEF Inv, TypeOK, Outside
    <2>9. held' \in [Clients -> Block \cup {NoBlock}]
      BY <2>3, <2>4 DEF Inv, TypeOK, Block
    <2>10. TypeOK'
      BY <1>1, <2>6, <2>7, <2>8, <2>9 DEF Inv, TypeOK
    <2>11. NullPageReserved'
      BY <1>1, <2>6 DEF Inv, NullPageReserved, ClearBits, Covered
    <2>12. \A d \in Clients :
             held'[d] # NoBlock
               => higher_half_data_to_phys(held'[d].pointer) \in 1 .. (highest_page - 1)
      BY <2>3, <2>4 DEF Inv, TypeOK
    <2>. QED  BY <1>1, <2>10, <2>11, <2>12 DEF Inv
  <1>. QED  BY <1>2, <1>3, <1>4, AllocOutcome

LEMMA ReleaseInv ==
  ASSUME Inv, NEW c \in Clients, Release(c)
  PROVE  Inv'
  <1>. DEFINE first == higher_half_data_to_phys(held[c].pointer)
              bits  == RunBits(first, held[c].count)
  <1>1. /\ phase = "ready" /\ held[c] # NoBlock
        /\ held' = [held EXCEPT ![c] = NoBlock]
        /\ UNCHANGED <<phase, memory_map, highest_page>>
        /\ bitmap' = UnsetBits(bitmap, bits)
        /\ stray' = (stray \/ Outside(bitmap, bits))
        /\ used_pages' = (used_pages - held[c].count) % CounterMod
    BY DEF Release, pmm_free
  <1>2. /\ held[c].count \in Nat /\ 2 * held[c].count <= IntMod
        /\ first \in 1 .. (highest_page - 1)
    <2>1. held[c] \in Block
      BY <1>1 DEF Inv, TypeOK
    <2>. QED  BY <1>1, <2>1, ParametersAssumption DEF Inv, Block
  <1>3. 0 \notin bits
    <2>1. ASSUME NEW i \in 0 .. (held[c].count - 1)
          PROVE  BitOf(first + i) = first + i
      <3>1. first + i \in Nat /\ first + i < IntMod /\ IntMod \in Nat \ {0}
        BY <1>2, ParametersAssumption DEF Inv, TypeOK
      <3>. HIDE DEF first
      <3>. QED  BY <3>1, RemainderSmall DEF BitOf
    <2>. HIDE DEF first
    <2>. QED  BY <1>2, <2>1 DEF RunBits, Inv, TypeOK
  <1>. HIDE DEF first, bits
  <1>4. /\ bitmap' \in [at : Nat, size : Nat, ones : SUBSET Nat]
        /\ bitmap'.size = bitmap.size /\ bitmap'.ones = bitmap.ones \ bits
    BY <1>1 DEF UnsetBits, Inv, TypeOK
  <1>5. used_pages' \in 0 .. (CounterMod - 1)
    <2>1. used_pages - held[c].count \in Int /\ CounterMod \in Nat \ {0}
      BY <1>2, ParametersAssumption DEF Inv, TypeOK
    <2>. QED  BY <1>1, <2>1, DivisionWithRemainder
  <1>6. TypeOK'
    <2>1. stray' \in BOOLEAN
      BY <1>1 DEF Inv, TypeOK, Outside
    <2>2. held' \in [Clients -> Block \cup {NoBlock}]
      BY <1>1 DEF Inv, TypeOK
    <2>. QED  BY <1>1, <1>4, <1>5, <2>1, <2>2 DEF Inv, TypeOK
  <1>7. NullPageReserved'
    BY <1>1, <1>3, <1>4 DEF Inv, NullPageReserved, ClearBits, Covered
  <1>8. \A d \in Clients :
          held'[d] # NoBlock
            => higher_half_data_to_phys(held'[d].pointer) \in 1 .. (highest_page - 1)
    BY <1>1 DEF Inv, TypeOK
  <1>. QED  BY <1>1, <1>6, <1>7, <1>8 DEF Inv

LEMMA StutterInv == Inv /\ UNCHANGED vars => Inv'
  BY DEF Inv, TypeOK, NullPageReserved, ClearBits, Covered, vars

THEOREM Invariance == Spec => []Inv
  <1>1. Inv /\ [Next]_vars => Inv'
    BY InitStepInv, AllocateInv, ReleaseInv, StutterInv DEF Next
  <1>. QED  BY <1>1, InitInv, PTL DEF Spec

\* Every variable keeps its type, whatever page counts are asked for.
THEOREM TypeCorrect == Spec => []TypeOK
  <1>1. Inv => TypeOK
    BY DEF Inv
  <1>. QED  BY <1>1, Invariance, PTL

\* Page 0 stays reserved: no sequence of allocations and releases of any
\* number of pages frees the page whose search result means "none".
THEOREM NullPageStaysReserved == Spec => []NullPageReserved
  <1>1. Inv => NullPageReserved
    BY DEF Inv
  <1>. QED  BY <1>1, Invariance, PTL
----------------------------------------------------------------------------
(* Single pages: no page that has a bit is lost or shared.                 *)

SinglePages == PageCounts = {1}

\* Conservation is inductive together with: the pool lies below highest_page,
\* from which the size of the bitmap is computed.
CInv ==
  /\ Inv
  /\ PageConservation
  /\ Pool \subseteq 1 .. (highest_page - 1)
  /\ phase = "ready" => bitmap.size = BitmapPages(highest_page) * PageSize

LEMMA HigherHalfToPhysType ==
  ASSUME NEW pointer \in Int
  PROVE  higher_half_data_to_phys(pointer) \in Int
  <1>1. /\ pointer - HigherHalf \in Int
        /\ AddrPages \in Nat \ {0}
    BY AddressAssumption, ParametersAssumption
  <1>. QED  BY <1>1, DivisionWithRemainder DEF higher_half_data_to_phys

LEMMA HeldPagesSingle ==
  ASSUME SinglePages, Inv, NEW c \in Clients
  PROVE  HeldPages(c) = IF held[c] = NoBlock THEN {}
                        ELSE {higher_half_data_to_phys(held[c].pointer)}
  <1>. DEFINE first == higher_half_data_to_phys(held[c].pointer)
  <1>1. held[c] \in Block \cup {NoBlock}
    BY DEF Inv, TypeOK
  <1>2. first \in Int
    <2>1. held[c].pointer \in Int
      BY <1>1, AddressAssumption DEF Block, NoBlock, NULL
    <2>. QED  BY <2>1, HigherHalfToPhysType
  <1>3. HeldPages(c) = first .. (first + held[c].count - 1)
    BY DEF HeldPages
  <1>. HIDE DEF first
  <1>4. CASE held[c] = NoBlock
    <2>1. held[c].count = 0
      BY <1>4 DEF NoBlock
    <2>. QED  BY <1>2, <1>3, <1>4, <2>1
  <1>5. CASE held[c] # NoBlock
    <2>1. held[c].count = 1
      BY <1>1, <1>5 DEF Block, SinglePages
    <2>2. HeldPages(c) = {first}
      BY <1>2, <1>3, <2>1
    <2>. QED  BY <1>5, <2>2 DEF first
  <1>. QED  BY <1>4, <1>5

LEMMA RunBitsSingle ==
  ASSUME NEW page \in Nat, page < IntMod
  PROVE  RunBits(page, 1) = {page}
  <1>1. BitOf(page + 0) = page
    BY RemainderSmall, ParametersAssumption DEF BitOf
  <1>2. 0 .. (1 - 1) = {0}
    OBVIOUS
  <1>. QED  BY <1>1, <1>2 DEF RunBits

LEMMA BitsInType ==
  ASSUME Inv
  PROVE  BitsIn(bitmap.size) \in Nat
  <1>1. \A a, b \in Nat : a * b \in Nat
    OBVIOUS
  <1>. QED  BY <1>1, ParametersAssumption DEF Inv, TypeOK, BitsIn

LEMMA EntryBelowTop ==
  ASSUME NEW e \in Entry, NEW top \in Nat, e.base + e.length <= top
  PROVE  EntryPages(e) \subseteq 0 .. (top - 1)
  BY DEF Entry, EntryPages

LEMMA UsableBelowTop ==
  ASSUME Inv, pmm_init
  PROVE  UsablePages(memory_map') \subseteq 0 .. (highest_page' - 1)
  <1>. DEFINE pages == BitmapPages(highest_page')
              new   == Shrink(memory_map, pages)
  <1>1. /\ Inv' /\ memory_map \in MemMaps /\ memory_map' = new
        /\ \A top \in Tops(memory_map) : top <= highest_page'
    BY InitStepInv DEF Inv, pmm_init
  <1>2. memory_map \in Seq(Entry) /\ Bounded(memory_map) /\ highest_page' \in Nat
    BY <1>1, MemMapsBounded DEF Inv, TypeOK
  <1>3. pages \in Nat /\ new \in Seq(Entry) /\ Bounded(new)
    BY <1>2, BitmapPagesType, ShrinkKeepsEntries
  <1>4. ASSUME NEW i \in DOMAIN new, new[i].type = "usable", NEW page \in EntryPages(new[i])
        PROVE  page \in 0 .. (highest_page' - 1)
    <2>1. new[i] \in Entry
      BY <1>3
    <2>2. /\ i \in DOMAIN memory_map /\ memory_map[i].type = "usable"
          /\ new[i].base + new[i].length = memory_map[i].base + memory_map[i].length
      BY <1>2, <1>3, <1>4, ShrinkKeepsEntries
    <2>3. new[i].base + new[i].length <= highest_page'
      BY <1>1, <2>2 DEF Tops
    <2>. HIDE DEF new
    <2>. QED  BY <1>2, <1>4, <2>1, <2>3, EntryBelowTop
  <1>5. UsablePages(new) \subseteq 0 .. (highest_page' - 1)
    <2>. HIDE DEF new
    <2>. QED  BY <1>4 DEF UsablePages
  <1>. QED  BY <1>1, <1>5

LEMMA InitStepConservation ==
  ASSUME SinglePages, CInv, pmm_init
  PROVE  CInv'
  <1>. DEFINE pages == BitmapPages(highest_page')
              new   == Shrink(memory_map, pages)
  <1>1. /\ Inv' /\ memory_map \in MemMaps /\ held' = held
        /\ held = [c \in Clients |-> NoBlock]
        /\ phase' = "ready" /\ memory_map' = new
        /\ highest_page' \in {0} \cup Tops(memory_map)
        /\ \A top \in Tops(memory_map) : top <= highest_page'
    BY InitStepInv DEF CInv, Inv, pmm_init
  <1>2. memory_map \in Seq(Entry) /\ Bounded(memory_map) /\ highest_page' \in Nat
    BY <1>1, MemMapsBounded DEF Inv, TypeOK
  <1>3. pages \in Nat /\ new \in Seq(Entry) /\ Bounded(new)
    BY <1>2, BitmapPagesType, ShrinkKeepsEntries
  <1>4. /\ bitmap'.size = pages * PageSize
        /\ bitmap'.ones = ((0 .. (BitsIn(pages * PageSize) - 1)) \ UsablePages(new))
                            \cup {x \in {0} : x < BitsIn(pages * PageSize)}
    <2>1. FreedBits(new) = UsablePages(new)
      BY <1>3, FreedBitsAreUsable
    <2>2. PICK at \in MapPointers(memory_map, pages) :
            bitmap' = ReserveNull(UnsetBits(BlankBitmap(at, pages), FreedBits(new)))
      BY DEF pmm_init
    <2>. HIDE DEF new, pages
    <2>. QED  BY <2>1, <2>2 DEF ReserveNull, UnsetBits, SetBits, BlankBitmap
  <1>5. BitsIn(bitmap'.size) \in Nat
    <2>1. \A a, b \in Nat : a * b \in Nat
      OBVIOUS
    <2>. QED  BY <1>1, <2>1, ParametersAssumption DEF Inv, TypeOK, BitsIn
  <1>7. UsablePages(new) \subseteq 0 .. (highest_page' - 1)
    <2>1. Inv
      BY DEF CInv
    <2>. QED  BY <1>1, <2>1, UsableBelowTop
  <1>8. Pool' = UsablePages(new) \ {0}
    BY <1>1 DEF Pool
  <1>9. ClearBits' = Pool' \cap Covered'
    <2>. HIDE DEF new, pages
    <2>1. BitsIn(pages * PageSize) \in Nat
      BY <1>4, <1>5
    <2>2. Covered' = 0 .. (BitsIn(pages * PageSize) - 1)
      BY <1>4 DEF Covered, BitsIn
    <2>3. ClearBits' = {x \in Covered' : x \notin bitmap'.ones}
      BY DEF ClearBits
    <2>. QED  BY <1>2, <1>4, <1>7, <1>8, <2>1, <2>2, <2>3
  <1>10. \A c \in Clients : HeldPages(c)' = {}
    <2>1. higher_half_data_to_phys(NULL) \in Int
      BY HigherHalfToPhysType DEF NULL
    <2>2. \A c \in Clients : held'[c].pointer = NULL /\ held'[c].count = 0
      BY <1>1 DEF NoBlock
    <2>. QED  BY <2>1, <2>2 DEF HeldPages, higher_half_data_to_phys
  <1>11. PageConservation'
    <2>1. \A c \in Clients : Owned(c)' = {}
      BY <1>10 DEF Owned
    <2>. QED  BY <1>9, <2>1 DEF PageConservation
  <1>12. Pool' \subseteq 1 .. (highest_page' - 1)
    BY <1>2, <1>7, <1>8
  <1>. QED  BY <1>1, <1>4, <1>11, <1>12 DEF CInv

\* An allocation moves one page from the clear bits to its client, or a page
\* that has no bit.
LEMMA AllocateMoves ==
  ASSUME SinglePages, CInv, NEW c \in Clients, NEW page_count \in PageCounts,
         Allocate(c, page_count)
  PROVE  \/ UNCHANGED vars
         \/ \E page \in 1 .. (highest_page - 1) :
              /\ page \in Covered => page \in ClearBits
              /\ Owned(c) = {} /\ Owned(c)' = {page} \cap Covered
              /\ \A d \in Clients \ {c} : Owned(d)' = Owned(d)
              /\ ClearBits' = ClearBits \ {page}
              /\ bitmap'.size = bitmap.size
              /\ stray' => stray \/ page \notin Covered
              /\ used_pages' = (used_pages + 1) % CounterMod
  <1>1. /\ phase = "ready" /\ held[c] = NoBlock /\ page_count = 1
        /\ UNCHANGED <<phase, memory_map, highest_page>> /\ Inv /\ Inv'
    BY AllocateInv DEF Allocate, CInv, SinglePages
  <1>2. PICK pointer \in 0 .. (AddrPages - 1) :
          /\ pmm_alloc(page_count, pointer)
          /\ held' = IF pointer = NULL THEN held
                     ELSE [held EXCEPT ![c] = [pointer |-> pointer, count |-> page_count]]
    BY DEF Allocate
  <1>3. CASE pointer = NULL /\ UNCHANGED <<bitmap, used_pages, stray>>
    BY <1>1, <1>2, <1>3 DEF vars
  <1>4. ASSUME NEW page \in 1 .. (highest_page - 1),
               page < BitsIn(bitmap.size) => page \notin bitmap.ones,
               pointer = phys_to_higher_half_data(page),
               bitmap' = SetBits(bitmap, RunBits(page, page_count)),
               stray' = (stray \/ Outside(bitmap, RunBits(page, page_count)))
        PROVE  /\ page \in Covered => page \in ClearBits
               /\ Owned(c) = {} /\ Owned(c)' = {page} \cap Covered
               /\ \A d \in Clients \ {c} : Owned(d)' = Owned(d)
               /\ ClearBits' = ClearBits \ {page}
               /\ bitmap'.size = bitmap.size
               /\ stray' => stray \/ page \notin Covered
    <2>1. page \in 0 .. (IntMod - 1) /\ highest_page \in Nat
      BY <1>1, ParametersAssumption DEF Inv, TypeOK
    <2>2. pointer \in 1 .. (AddrPages - 1) /\ higher_half_data_to_phys(pointer) = page
      BY <1>4, <2>1, HigherHalfInverse
    <2>3. held' = [held EXCEPT ![c] = [pointer |-> pointer, count |-> page_count]]
      BY <1>2, <2>2, AddressAssumption DEF NULL
    <2>4. /\ held'[c].pointer = pointer /\ held'[c].count = 1
          /\ \A d \in Clients \ {c} : held'[d] = held[d]
      BY <1>1, <2>3 DEF Inv, TypeOK
    <2>5. HeldPages(c)' = {page}
      BY <2>1, <2>2, <2>4 DEF HeldPages, higher_half_data_to_phys
    <2>6. \A d \in Clients \ {c} : HeldPages(d)' = HeldPages(d)
      BY <2>4 DEF HeldPages, higher_half_data_to_phys
    <2>7. HeldPages(c) = {}
      BY <1>1, HeldPagesSingle
    <2>8. RunBits(page, page_count) = {page}
      BY <1>1, <2>1, RunBitsSingle, ParametersAssumption
    <2>9. /\ BitsIn(bitmap.size) \in Nat
          /\ page \in Covered <=> page < BitsIn(bitmap.size)
      BY <1>1, <2>1, BitsInType DEF Covered
    <2>10. /\ bitmap'.size = bitmap.size
           /\ bitmap'.ones = bitmap.ones \cup {x \in {page} : x < BitsIn(bitmap.size)}
      BY <1>1, <1>4, <2>8 DEF SetBits, Inv, TypeOK
    <2>11. page \in Covered => page \in ClearBits
      BY <1>4, <2>9 DEF ClearBits
    <2>12. Covered' = Covered
      BY <2>10 DEF Covered, BitsIn
    <2>13. ClearBits' = ClearBits \ {page}
      BY <2>9, <2>10, <2>12 DEF ClearBits
    <2>14. stray' => stray \/ page \notin Covered
      <3>1. page \in Covered => ~Outside(bitmap, RunBits(page, page_count))
        BY <2>8, <2>9 DEF Outside
      <3>. QED  BY <1>4, <3>1, Zenon
    <2>. QED  BY <2>5, <2>6, <2>7, <2>10, <2>11, <2>12, <2>13, <2>14 DEF Owned
  <1>. QED  BY <1>1, <1>2, <1>3, <1>4, AllocOutcome

\* A release moves the client's page back to the clear bits, if it has a bit.
LEMMA ReleaseMoves ==
  ASSUME SinglePages, CInv, NEW c \in Clients, Release(c)
  PROVE  \E page \in 1 .. (highest_page - 1) :
           /\ Owned(c) = {page} \cap Covered /\ Owned(c)' = {}
           /\ \A d \in Clients \ {c} : Owned(d)' = Owned(d)
           /\ ClearBits' = ClearBits \cup ({page} \cap Covered)
           /\ bitmap'.size = bitmap.size
           /\ stray' => stray \/ page \notin Covered
           /\ used_pages' = (used_pages - 1) % CounterMod
  <1>. DEFINE page == higher_half_data_to_phys(held[c].pointer)
  <1>1. /\ held[c] # NoBlock /\ held' = [held EXCEPT ![c] = NoBlock]
        /\ bitmap' = UnsetBits(bitmap, RunBits(page, held[c].count))
        /\ stray' = (stray \/ Outside(bitmap, RunBits(page, held[c].count)))
        /\ used_pages' = (used_pages - held[c].count) % CounterMod
        /\ Inv /\ Inv'
    BY ReleaseInv DEF Release, pmm_free, CInv
  <1>2. page \in 1 .. (highest_page - 1) /\ HeldPages(c) = {page}
    BY <1>1, HeldPagesSingle DEF Inv
  <1>3. /\ held'[c] = NoBlock /\ \A d \in Clients \ {c} : held'[d] = held[d]
        /\ held[c].count = 1
    BY <1>1 DEF Inv, TypeOK, Block, SinglePages
  <1>4. HeldPages(c)' = {}
    <2>1. higher_half_data_to_phys(NULL) \in Int
      BY HigherHalfToPhysType DEF NULL
    <2>2. held'[c].pointer = NULL /\ held'[c].count = 0
      BY <1>3 DEF NoBlock
    <2>. QED  BY <2>1, <2>2 DEF HeldPages, higher_half_data_to_phys
  <1>5. \A d \in Clients \ {c} : HeldPages(d)' = HeldPages(d)
    BY <1>3 DEF HeldPages, higher_half_data_to_phys
  <1>. HIDE DEF page
  <1>6. /\ page \in Nat /\ page < IntMod /\ BitsIn(bitmap.size) \in Nat
        /\ page \in Covered <=> page < BitsIn(bitmap.size)
    BY <1>1, <1>2, BitsInType, ParametersAssumption DEF Inv, TypeOK, Covered
  <1>7. RunBits(page, held[c].count) = {page}
    BY <1>3, <1>6, RunBitsSingle
  <1>8. bitmap'.size = bitmap.size /\ bitmap'.ones = bitmap.ones \ {page}
    BY <1>1, <1>7 DEF UnsetBits, Inv, TypeOK
  <1>9. Covered' = Covered
    BY <1>8 DEF Covered, BitsIn
  <1>10. ClearBits' = ClearBits \cup ({page} \cap Covered)
    BY <1>8, <1>9 DEF ClearBits
  <1>11. stray' => stray \/ page \notin Covered
    <2>1. page \in Covered => ~Outside(bitmap, RunBits(page, held[c].count))
      BY <1>6, <1>7 DEF Outside
    <2>. QED  BY <1>1, <2>1, Zenon
  <1>12. used_pages' = (used_pages - 1) % CounterMod
    BY <1>1, <1>3
  <1>. QED  BY <1>2, <1>4, <1>5, <1>8, <1>9, <1>10, <1>11, <1>12 DEF Owned

LEMMA StutterConservation == CInv /\ UNCHANGED vars => CInv'
  BY StutterInv DEF CInv, PageConservation, ClearBits, Covered, Pool, UsablePages,
                    EntryPages, Owned, HeldPages, BitsIn, BitmapPages,
                    higher_half_data_to_phys, vars

LEMMA AllocateConservation ==
  ASSUME SinglePages, CInv, NEW c \in Clients, NEW page_count \in PageCounts,
         Allocate(c, page_count)
  PROVE  CInv'
  <1>1. /\ phase = "ready" /\ Inv' /\ Pool' = Pool
        /\ UNCHANGED <<phase, memory_map, highest_page>>
    BY AllocateInv DEF Allocate, CInv, Pool, UsablePages, EntryPages
  <1>2. CASE UNCHANGED vars
    BY <1>2, StutterConservation
  <1>3. ASSUME NEW page,
               page \in Covered => page \in ClearBits,
               Owned(c) = {}, Owned(c)' = {page} \cap Covered,
               \A d \in Clients \ {c} : Owned(d)' = Owned(d),
               ClearBits' = ClearBits \ {page},
               bitmap'.size = bitmap.size
        PROVE  CInv'
    <2>1. /\ ClearBits \cup UNION {Owned(d) : d \in Clients} = Pool \cap Covered
          /\ \A d \in Clients : Owned(d) \cap ClearBits = {}
          /\ \A d, e \in Clients : d # e => Owned(d) \cap Owned(e) = {}
      BY <1>1 DEF CInv, PageConservation
    <2>2. \A d \in Clients : Owned(d)' = IF d = c THEN {page} \cap Covered ELSE Owned(d)
      BY <1>3
    <2>3. UNION {Owned(d)' : d \in Clients}
            = (UNION {Owned(d) : d \in Clients}) \cup ({page} \cap Covered)
      BY <1>3, <2>2
    <2>4. Covered' = Covered /\ ClearBits \subseteq Covered
      BY <1>3 DEF Covered, ClearBits, BitsIn
    <2>5. ClearBits' \cup UNION {Owned(d)' : d \in Clients} = Pool' \cap Covered'
      BY <1>1, <1>3, <2>1, <2>3, <2>4
    <2>6. \A d \in Clients : Owned(d)' \cap ClearBits' = {}
      BY <1>3, <2>1, <2>2
    <2>7. \A d, e \in Clients : d # e => Owned(d)' \cap Owned(e)' = {}
      BY <1>3, <2>1, <2>2
    <2>8. PageConservation'
      BY <2>5, <2>6, <2>7 DEF PageConservation
    <2>. QED  BY <1>1, <1>3, <2>8 DEF CInv
  <1>. QED  BY <1>2, <1>3, AllocateMoves

LEMMA ReleaseConservation ==
  ASSUME SinglePages, CInv, NEW c \in Clients, Release(c)
  PROVE  CInv'
  <1>1. /\ phase = "ready" /\ Inv' /\ Pool' = Pool
        /\ UNCHANGED <<phase, memory_map, highest_page>>
    BY ReleaseInv DEF Release, CInv, Pool, UsablePages, EntryPages
  <1>2. PICK page \in 1 .. (highest_page - 1) :
           /\ Owned(c) = {page} \cap Covered /\ Owned(c)' = {}
           /\ \A d \in Clients \ {c} : Owned(d)' = Owned(d)
           /\ ClearBits' = ClearBits \cup ({page} \cap Covered)
           /\ bitmap'.size = bitmap.size
    BY ReleaseMoves
  <1>3. /\ ClearBits \cup UNION {Owned(d) : d \in Clients} = Pool \cap Covered
        /\ \A d \in Clients : Owned(d) \cap ClearBits = {}
        /\ \A d, e \in Clients : d # e => Owned(d) \cap Owned(e) = {}
    BY <1>1 DEF CInv, PageConservation
  <1>4. \A d \in Clients : Owned(d)' = IF d = c THEN {} ELSE Owned(d)
    BY <1>2
  <1>5. UNION {Owned(d) : d \in Clients}
          = (UNION {Owned(d)' : d \in Clients}) \cup ({page} \cap Covered)
    BY <1>2, <1>4
  <1>6. Covered' = Covered
    BY <1>2 DEF Covered, BitsIn
  <1>7. ClearBits' \cup UNION {Owned(d)' : d \in Clients} = Pool' \cap Covered'
    BY <1>1, <1>2, <1>3, <1>5, <1>6
  <1>8. \A d \in Clients : Owned(d)' \cap ClearBits' = {}
    BY <1>2, <1>3, <1>4
  <1>9. \A d, e \in Clients : d # e => Owned(d)' \cap Owned(e)' = {}
    BY <1>3, <1>4
  <1>10. PageConservation'
    BY <1>7, <1>8, <1>9 DEF PageConservation
  <1>. QED  BY <1>1, <1>2, <1>10 DEF CInv

LEMMA InitConservation == Init => CInv
  <1>. SUFFICES ASSUME Init PROVE CInv
    OBVIOUS
  <1>1. Inv /\ PageConservation /\ Pool = {}
    BY InitInv DEF Init, PageConservation, Pool
  <1>. QED  BY <1>1 DEF CInv, Init

THEOREM ConservationInvariance ==
  ASSUME SinglePages
  PROVE  Spec => []CInv
  <1>1. CInv /\ [Next]_vars => CInv'
    BY InitStepConservation, AllocateConservation, ReleaseConservation,
       StutterConservation DEF Next
  <1>. QED  BY <1>1, InitConservation, PTL DEF Spec

\* With single pages, no page of the pool that has a bit is ever lost, given to
\* two clients or held and clear at once, on any map.
THEOREM PagesConserved ==
  ASSUME SinglePages
  PROVE  Spec => []PageConservation
  <1>1. CInv => PageConservation
    BY DEF CInv
  <1>. QED  BY <1>1, ConservationInvariance, PTL
----------------------------------------------------------------------------
(* Single pages: PMM implements PageAllocator.                             *)

LEMMA InitImplements == SinglePages /\ Init => Abstract!Init
  <1>. SUFFICES ASSUME SinglePages, Init PROVE Abstract!Init
    OBVIOUS
  <1>1. Inv /\ \A c \in Clients : held[c] = NoBlock
    BY InitInv DEF Init
  <1>2. \A c \in Clients : Owned(c) = {}
    BY <1>1, HeldPagesSingle DEF Owned
  <1>3. Pool \cap Covered = {}
    BY DEF Init, Pool
  <1>. QED  BY <1>2, <1>3 DEF Abstract!Init

LEMMA InitStepImplements ==
  ASSUME SinglePages, CInv, pmm_init
  PROVE  Abstract!Populate
  <1>1. Pool \cap Covered = {} /\ UNCHANGED held
    BY DEF pmm_init, Pool
  <1>2. Pool' \cap Covered' \subseteq Nat \ {0}
    <2>1. CInv'
      BY InitStepConservation
    <2>2. Pool' \subseteq 1 .. (highest_page' - 1) /\ highest_page' \in Nat
      BY <2>1 DEF CInv, Inv, TypeOK
    <2>3. \A n \in Nat : 1 .. (n - 1) \subseteq Nat \ {0}
      OBVIOUS
    <2>. QED  BY <2>2, <2>3
  <1>3. \A c \in Clients : Owned(c)' = {} /\ Owned(c) = {}
    <2>1. Inv /\ Inv'
      BY InitStepInv DEF CInv
    <2>2. \A c \in Clients : held[c] = NoBlock /\ held'[c] = NoBlock
      BY <1>1, <2>1 DEF Inv, pmm_init
    <2>3. higher_half_data_to_phys(NULL) \in Int
      BY HigherHalfToPhysType DEF NULL
    <2>4. \A c \in Clients : HeldPages(c)' = {} /\ HeldPages(c) = {}
      BY <2>2, <2>3 DEF HeldPages, higher_half_data_to_phys, NoBlock
    <2>. QED  BY <2>4 DEF Owned
  <1>. QED  BY <1>1, <1>2, <1>3 DEF Abstract!Populate

LEMMA AllocateImplements ==
  ASSUME SinglePages, CInv, NEW c \in Clients, NEW page_count \in PageCounts,
         Allocate(c, page_count)
  PROVE  \/ Abstract!Allocate(c)
         \/ UNCHANGED <<Pool \cap Covered, [d \in Clients |-> Owned(d)]>>
  <1>1. Pool' = Pool /\ phase = "ready"
    BY DEF Allocate, Pool, UsablePages, EntryPages
  <1>2. CASE UNCHANGED vars
    BY <1>1, <1>2 DEF Owned, Covered, BitsIn, HeldPages, higher_half_data_to_phys, vars
  <1>3. ASSUME NEW page \in 1 .. (highest_page - 1),
               page \in Covered => page \in ClearBits,
               Owned(c) = {}, Owned(c)' = {page} \cap Covered,
               \A d \in Clients \ {c} : Owned(d)' = Owned(d),
               bitmap'.size = bitmap.size
        PROVE  \/ Abstract!Allocate(c)
               \/ UNCHANGED <<Pool \cap Covered, [d \in Clients |-> Owned(d)]>>
    <2>. DEFINE owned == [d \in Clients |-> Owned(d)]
    <2>1. Covered' = Covered
      BY <1>3 DEF Covered, BitsIn
    <2>2. CASE page \notin Covered
      <3>1. \A d \in Clients : Owned(d)' = Owned(d)
        BY <1>3, <2>2
      <3>. QED  BY <1>1, <2>1, <3>1
    <2>3. CASE page \in Covered
      <3>1. /\ page \in Pool \cap Covered
            /\ \A d \in Clients : page \notin Owned(d)
        BY <1>1, <1>3, <2>3 DEF CInv, PageConservation
      <3>2. page .. (page + 1 - 1) = {page}
        BY <1>3 DEF CInv, Inv, TypeOK
      <3>3. {page} \subseteq Abstract!Free
        BY <3>1 DEF Abstract!Free
      <3>4. [d \in Clients |-> Owned(d)]' = [owned EXCEPT ![c] = {page}]
        BY <1>3, <2>3
      <3>5. owned[c] = {} /\ 1 \in PageCounts
        BY <1>3 DEF SinglePages
      <3>. QED  BY <1>1, <2>1, <3>1, <3>2, <3>3, <3>4, <3>5 DEF Abstract!Allocate
    <2>. QED  BY <2>2, <2>3
  <1>. QED  BY <1>2, <1>3, AllocateMoves

LEMMA ReleaseImplements ==
  ASSUME SinglePages, CInv, NEW c \in Clients, Release(c)
  PROVE  \/ Abstract!Release(c)
         \/ UNCHANGED <<Pool \cap Covered, [d \in Clients |-> Owned(d)]>>
  <1>1. Pool' = Pool
    BY DEF Release, Pool, UsablePages, EntryPages
  <1>2. PICK page \in 1 .. (highest_page - 1) :
           /\ Owned(c) = {page} \cap Covered /\ Owned(c)' = {}
           /\ \A d \in Clients \ {c} : Owned(d)' = Owned(d)
           /\ bitmap'.size = bitmap.size
    BY ReleaseMoves
  <1>3. Covered' = Covered
    BY <1>2 DEF Covered, BitsIn
  <1>4. CASE page \notin Covered
    <2>1. \A d \in Clients : Owned(d)' = Owned(d)
      BY <1>2, <1>4
    <2>. QED  BY <1>1, <1>3, <2>1
  <1>5. CASE page \in Covered
    BY <1>1, <1>2, <1>3, <1>5 DEF Abstract!Release
  <1>. QED  BY <1>4, <1>5

\* With single pages, the bitmap, the search and the address arithmetic
\* implement PageAllocator for the pages that have a bit, on any map.
THEOREM PMMImplements ==
  ASSUME SinglePages
  PROVE  Spec => ImplementsPageAllocator
  <1>. DEFINE aVars == <<Pool \cap Covered, [c \in Clients |-> Owned(c)]>>
  <1>1. Init => Abstract!Init
    BY InitImplements
  <1>2. CInv /\ [Next]_vars => [Abstract!Next]_aVars
    <2>. SUFFICES ASSUME CInv, [Next]_vars PROVE [Abstract!Next]_aVars
      OBVIOUS
    <2>1. CASE pmm_init
      BY <2>1, InitStepImplements DEF Abstract!Next
    <2>2. ASSUME NEW c \in Clients, NEW page_count \in PageCounts, Allocate(c, page_count)
          PROVE  [Abstract!Next]_aVars
      BY <2>2, AllocateImplements DEF Abstract!Next
    <2>3. ASSUME NEW c \in Clients, Release(c)
          PROVE  [Abstract!Next]_aVars
      BY <2>3, ReleaseImplements DEF Abstract!Next
    <2>4. CASE UNCHANGED vars
      BY <2>4 DEF Pool, UsablePages, EntryPages, Owned, Covered, BitsIn, HeldPages,
                  higher_half_data_to_phys, vars
    <2>. QED  BY <2>1, <2>2, <2>3, <2>4 DEF Next
  <1>3. Spec => []CInv
    BY ConservationInvariance
  <1>. QED  BY <1>1, <1>2, <1>3, PTL DEF Spec, ImplementsPageAllocator, Abstract!Spec
----------------------------------------------------------------------------
(* Single pages: the bitmap is never handed out.                           *)

\* Each map has a usable entry that is long enough for its bitmap, and the
\* bitmap has bits for its own pages.
HostsExist ==
  \A map \in MemMaps : \A top \in {0} \cup Tops(map) :
    (\A other \in Tops(map) : other <= top)
      => \E i \in DOMAIN map :
           /\ IsHost(map, BitmapPages(top), i)
           /\ map[i].base + BitmapPages(top) <= BitsIn(BitmapPages(top) * PageSize)

BInv ==
  /\ CInv
  /\ phase = "ready" => BitmapStorage \cap Pool = {} /\ BitmapStorage \subseteq Covered

LEMMA ExactQuotient ==
  ASSUME NEW a \in Nat, NEW m \in Nat \ {0}
  PROVE  (a * m) \div m = a
  <1>. DEFINE q == (a * m) \div m
              r == (a * m) % m
  <1>1. q \in Int /\ r \in 0 .. (m - 1) /\ a * m = m * q + r
    <2>1. a * m \in Int
      OBVIOUS
    <2>. QED  BY <2>1, DivisionWithRemainder
  <1>. HIDE DEF q, r
  <1>2. m * q + r = m * a + 0
    BY <1>1
  <1>3. r = 0
    BY <1>1, <1>2, RemainderUnique
  <1>4. m * (q - a) = 0
    BY <1>1, <1>2, <1>3
  <1>5. q = a
    BY <1>1, <1>4
  <1>. QED  BY <1>5 DEF q

LEMMA InitStepBitmapSafe ==
  ASSUME SinglePages, HostsExist, BInv, pmm_init
  PROVE  BInv'
  <1>. DEFINE pages == BitmapPages(highest_page')
              new   == Shrink(memory_map, pages)
  <1>1. /\ CInv' /\ memory_map \in MemMaps
        /\ phase' = "ready" /\ memory_map' = new
        /\ highest_page' \in {0} \cup Tops(memory_map)
        /\ \A top \in Tops(memory_map) : top <= highest_page'
    BY InitStepConservation DEF BInv, CInv, Inv, pmm_init
  <1>2. memory_map \in Seq(Entry) /\ Bounded(memory_map) /\ highest_page' \in Nat
    BY <1>1, MemMapsBounded DEF CInv, Inv, TypeOK
  <1>3. pages \in Nat
    BY <1>2, BitmapPagesType
  <1>4. PICK host \in DOMAIN memory_map :
          /\ IsHost(memory_map, pages, host)
          /\ memory_map[host].base + pages <= BitsIn(pages * PageSize)
    BY <1>1 DEF HostsExist
  <1>5. \A i \in DOMAIN memory_map : IsHost(memory_map, pages, i) => i = host
    <2>1. DOMAIN memory_map \subseteq Int
      BY <1>2
    <2>. HIDE DEF pages
    <2>2. ASSUME NEW i \in DOMAIN memory_map, IsHost(memory_map, pages, i)
          PROVE  i = host
      <3>1. /\ memory_map[i].length >= pages /\ memory_map[i].type = "usable"
            /\ memory_map[host].length >= pages /\ memory_map[host].type = "usable"
            /\ i < host => memory_map[i].length < pages
            /\ host < i => memory_map[host].length < pages
        BY <1>4, <2>2 DEF IsHost
      <3>2. memory_map[i].length \in Nat /\ memory_map[host].length \in Nat
        <4>1. memory_map[i] \in Entry /\ memory_map[host] \in Entry
          BY <1>2
        <4>. QED  BY <4>1 DEF Entry
      <3>. QED  BY <1>3, <2>1, <3>1, <3>2
    <2>. QED  BY <2>2
  <1>6. bitmap'.at = memory_map[host].base /\ bitmap'.size = pages * PageSize
    <2>1. PICK at \in MapPointers(memory_map, pages) :
            bitmap' = ReserveNull(UnsetBits(BlankBitmap(at, pages), FreedBits(new)))
      BY DEF pmm_init
    <2>. HIDE DEF pages, new
    <2>2. at = memory_map[host].base
      BY <1>4, <1>5, <2>1 DEF MapPointers
    <2>. QED  BY <2>1, <2>2 DEF ReserveNull, UnsetBits, SetBits, BlankBitmap
  <1>7. bitmap'.size \div PageSize = pages
    BY <1>3, <1>6, ExactQuotient, ParametersAssumption
  <1>8. /\ memory_map[host] \in Entry /\ memory_map[host].type = "usable"
        /\ memory_map[host].length >= pages
    BY <1>2, <1>4 DEF IsHost
  <1>9. BitmapStorage' = memory_map[host].base .. (memory_map[host].base + pages - 1)
    BY <1>6, <1>7 DEF BitmapStorage
  <1>10. ASSUME NEW i \in DOMAIN new, new[i].type = "usable",
                NEW page \in EntryPages(new[i])
         PROVE  page \notin BitmapStorage'
    <2>1. /\ i \in DOMAIN memory_map /\ memory_map[i].type = "usable"
          /\ memory_map[i] \in Entry /\ new[i] \in Entry
      <3>1. new \in Seq(Entry) /\ DOMAIN new = DOMAIN memory_map
            /\ \A j \in DOMAIN memory_map : new[j].type = memory_map[j].type
        BY <1>2, <1>3, ShrinkKeepsEntries
      <3>. HIDE DEF new, pages
      <3>. QED  BY <1>2, <1>10, <3>1
    <2>2. CASE i = host
      <3>1. new[i].base = memory_map[i].base + pages
        BY <1>4, <2>1, <2>2 DEF Shrink
      <3>2. new[i].base <= page
        BY <1>10, <2>1 DEF EntryPages, Entry
      <3>. HIDE DEF new, pages
      <3>. QED  BY <1>3, <1>8, <1>9, <2>2, <3>1, <3>2 DEF Entry
    <2>3. CASE i # host
      <3>1. new[i] = memory_map[i]
        BY <1>5, <2>1, <2>3 DEF Shrink
      <3>2. EntryPages(memory_map[i]) \cap EntryPages(memory_map[host]) = {}
        BY <1>1, <1>8, <2>1, <2>3, MemMapsAssumption DEF WellFormedMap
      <3>. HIDE DEF new, pages
      <3>3. BitmapStorage' \subseteq EntryPages(memory_map[host])
        BY <1>3, <1>8, <1>9 DEF EntryPages, Entry
      <3>. QED  BY <1>10, <3>1, <3>2, <3>3
    <2>. QED  BY <2>2, <2>3
  <1>11. Pool' = UsablePages(new) \ {0}
    BY <1>1 DEF Pool
  <1>12. BitmapStorage' \cap Pool' = {}
    BY <1>10, <1>11 DEF UsablePages
  <1>13. BitmapStorage' \subseteq Covered'
    <2>. HIDE DEF pages
    <2>1. BitsIn(pages * PageSize) \in Nat
      <3>1. \A a, b \in Nat : a * b \in Nat
        OBVIOUS
      <3>. QED  BY <1>3, <3>1, ParametersAssumption DEF BitsIn
    <2>2. Covered' = 0 .. (BitsIn(pages * PageSize) - 1)
      BY <1>6 DEF Covered, BitsIn
    <2>. QED  BY <1>3, <1>4, <1>8, <1>9, <2>1, <2>2 DEF Entry
  <1>. QED  BY <1>1, <1>12, <1>13 DEF BInv

\* With single pages and an entry that hosts the bitmap, the pages of the
\* bitmap are never handed out, so no client overwrites it.
THEOREM BitmapStaysSafe ==
  ASSUME SinglePages, HostsExist
  PROVE  Spec => []BitmapSafe
  <1>1. Init => BInv
    BY InitConservation DEF BInv, Init, Pool
  <1>2. BInv /\ [Next]_vars => BInv'
    <2>. SUFFICES ASSUME BInv, [Next]_vars PROVE BInv'
      OBVIOUS
    <2>1. CASE pmm_init
      BY <2>1, InitStepBitmapSafe
    <2>2. ASSUME NEW c \in Clients, NEW page_count \in PageCounts, Allocate(c, page_count)
          PROVE  BInv'
      <3>1. Pool' = Pool
        BY <2>2 DEF Allocate, Pool, UsablePages, EntryPages
      <3>2. bitmap'.at = bitmap.at /\ bitmap'.size = bitmap.size
        BY <2>2 DEF Allocate, pmm_alloc, SetBits, BInv, CInv, Inv, TypeOK
      <3>. QED  BY <2>2, <3>1, <3>2, AllocateConservation DEF BInv, BitmapStorage, Covered, BitsIn, Allocate, Release
    <2>3. ASSUME NEW c \in Clients, Release(c)
          PROVE  BInv'
      <3>1. Pool' = Pool
        BY <2>3 DEF Release, Pool, UsablePages, EntryPages
      <3>2. bitmap'.at = bitmap.at /\ bitmap'.size = bitmap.size
        BY <2>3 DEF Release, pmm_free, UnsetBits, BInv, CInv, Inv, TypeOK
      <3>. QED  BY <2>3, <3>1, <3>2, ReleaseConservation DEF BInv, BitmapStorage, Covered, BitsIn, Allocate, Release
    <2>4. CASE UNCHANGED vars
      BY <2>4, StutterConservation
         DEF BInv, BitmapStorage, Covered, BitsIn, Pool, UsablePages, EntryPages, vars
    <2>. QED  BY <2>1, <2>2, <2>3, <2>4 DEF Next
  <1>3. BInv => BitmapSafe
    <2>. SUFFICES ASSUME BInv, phase = "ready", NEW c \in Clients
                  PROVE  HeldPages(c) \cap BitmapStorage = {}
      BY DEF BitmapSafe
    <2>1. Owned(c) \subseteq Pool /\ HeldPages(c) \cap Covered = Owned(c)
      BY DEF BInv, CInv, PageConservation, Owned
    <2>. QED  BY <2>1 DEF BInv
  <1>. QED  BY <1>1, <1>2, <1>3, PTL DEF Spec
----------------------------------------------------------------------------
(* Single pages: which bits behind the bitmap are written.                 *)

\* Each map has some memory in use.
MemoryExists == \A map \in MemMaps : \E top \in Tops(map) : top > 0

SInv ==
  /\ CInv
  /\ phase = "ready" =>
       /\ highest_page > 0
       /\ UsablePages(memory_map) \subseteq Covered \/ stray
       /\ stray => highest_page > BitsIn(bitmap.size)

\* The arithmetic of pmm.c:93: a bitmap that is too small for the memory is so
\* by less than one byte, and ends where a page of bitmap ends.
LEMMA MissingBits ==
  ASSUME NEW top \in Nat, top > BitsIn(BitmapPages(top) * PageSize)
  PROVE  top % BitsIn(PageSize) \in 1 .. (ByteBits - 1)
  <1>. DEFINE q == top \div ByteBits
              r == top % ByteBits
  <1>1. PageSize \in Nat \ {0} /\ ByteBits \in Nat \ {0}
    BY ParametersAssumption
  <1>2. q \in Int /\ r \in 0 .. (ByteBits - 1) /\ top = ByteBits * q + r
    <2>1. top \in Int
      OBVIOUS
    <2>. QED  BY <1>1, <2>1, DivisionWithRemainder, Zenon
  <1>. HIDE DEF q, r
  <1>. DEFINE pages == (q + PageSize - 1) \div PageSize
              s == (q + PageSize - 1) % PageSize
  <1>3. /\ pages \in Int /\ s \in 0 .. (PageSize - 1)
        /\ q + PageSize - 1 = PageSize * pages + s
    <2>1. q + PageSize - 1 \in Int
      BY <1>1, <1>2
    <2>. QED  BY <1>1, <2>1, DivisionWithRemainder
  <1>4. BitmapPages(top) = pages
    BY DEF BitmapPages, q
  <1>. HIDE DEF pages, s
  <1>5. PICK n \in Int : n = PageSize * pages
    BY <1>1, <1>3
  <1>6. q <= n
    BY <1>1, <1>2, <1>3, <1>5
  <1>7. top > ByteBits * n
    <2>1. pages * PageSize = n
      BY <1>1, <1>3, <1>5
    <2>. QED  BY <1>4, <2>1 DEF BitsIn
  <1>8. q = n
    <2>1. CASE q < n
      <3>1. q * ByteBits + ByteBits <= n * ByteBits
        BY <1>1, <1>2, <2>1, ProductGap
      <3>. QED  BY <1>1, <1>2, <1>7, <3>1
    <2>. QED  BY <1>2, <1>6, <2>1
  <1>9. r > 0
    BY <1>1, <1>2, <1>7, <1>8
  <1>10. PICK m \in Nat \ {0} : m = ByteBits * PageSize
    <2>1. \A a, b \in Nat \ {0} : a * b \in Nat \ {0}
      OBVIOUS
    <2>. QED  BY <1>1, <2>1
  <1>11. m >= ByteBits
    <2>1. \A a, b \in Nat \ {0} : a * b >= a
      OBVIOUS
    <2>. QED  BY <1>1, <1>10, <2>1
  <1>12. top = m * pages + r
    <2>1. ByteBits * (PageSize * pages) = (ByteBits * PageSize) * pages
      BY <1>1, <1>3
    <2>. QED  BY <1>2, <1>5, <1>8, <1>10, <2>1
  <1>13. top % m = r
    <2>1. /\ top \div m \in Int /\ top % m \in 0 .. (m - 1)
          /\ top = m * (top \div m) + (top % m)
      <3>1. top \in Int
        OBVIOUS
      <3>. QED  BY <1>10, <3>1, DivisionWithRemainder
    <2>2. r \in 0 .. (m - 1)
      BY <1>1, <1>2, <1>10, <1>11
    <2>3. m * (top \div m) + (top % m) = m * pages + r
      BY <1>12, <2>1
    <2>. QED  BY <1>3, <1>10, <2>1, <2>2, <2>3, RemainderUnique
  <1>. QED  BY <1>1, <1>2, <1>9, <1>10, <1>13 DEF BitsIn

LEMMA InitStepStray ==
  ASSUME SinglePages, MemoryExists, CInv, pmm_init
  PROVE  SInv'
  <1>. DEFINE pages == BitmapPages(highest_page')
              new   == Shrink(memory_map, pages)
  <1>1. /\ CInv' /\ Inv /\ memory_map \in MemMaps /\ phase' = "ready"
        /\ memory_map' = new
        /\ \A top \in Tops(memory_map) : top <= highest_page'
    BY InitStepConservation DEF CInv, Inv, pmm_init
  <1>2. memory_map \in Seq(Entry) /\ Bounded(memory_map) /\ highest_page' \in Nat
    BY <1>1, MemMapsBounded DEF CInv, Inv, TypeOK
  <1>3. pages \in Nat /\ new \in Seq(Entry) /\ Bounded(new)
    BY <1>2, BitmapPagesType, ShrinkKeepsEntries
  <1>4. PICK at \in MapPointers(memory_map, pages) :
          /\ bitmap' = ReserveNull(UnsetBits(BlankBitmap(at, pages), FreedBits(new)))
          /\ stray' = Outside(BlankBitmap(at, pages), FreedBits(new) \cup {0})
    BY DEF pmm_init
  <1>5. UsablePages(new) \subseteq 0 .. (highest_page' - 1)
    <2>1. memory_map' = new
      BY DEF pmm_init
    <2>. HIDE DEF new
    <2>. QED  BY <1>1, <2>1, UsableBelowTop
  <1>6. FreedBits(new) = UsablePages(new)
    BY <1>3, FreedBitsAreUsable
  <1>. HIDE DEF new, pages
  <1>7. bitmap'.size = BlankBitmap(at, pages).size
    BY <1>4 DEF ReserveNull, UnsetBits, SetBits, BlankBitmap
  <1>8. PICK n \in Nat : n = BitsIn(bitmap'.size)
    <2>1. \A a, b \in Nat : a * b \in Nat
      OBVIOUS
    <2>. QED  BY <1>1, <2>1, ParametersAssumption DEF CInv, Inv, TypeOK, BitsIn
  <1>9. highest_page' > 0
    <2>1. PICK top \in Tops(memory_map) : top > 0
      BY <1>1 DEF MemoryExists
    <2>2. top \in Int
      <3>1. PICK i \in DOMAIN memory_map : top = memory_map[i].base + memory_map[i].length
        BY DEF Tops
      <3>2. memory_map[i] \in Entry
        BY <1>2
      <3>. QED  BY <3>1, <3>2 DEF Entry
    <2>3. top <= highest_page'
      BY <1>1
    <2>. QED  BY <1>2, <2>1, <2>2, <2>3
  <1>10. stray' <=> \E x \in UsablePages(new) \cup {0} : x >= n
    BY <1>4, <1>6, <1>7, <1>8, Zenon DEF Outside
  <1>11. stray' => highest_page' > n
    BY <1>2, <1>5, <1>8, <1>9, <1>10
  <1>12. UsablePages(new) \subseteq Covered' \/ stray'
    <2>1. Covered' = 0 .. (n - 1)
      BY <1>8 DEF Covered, BitsIn
    <2>. QED  BY <1>2, <1>5, <1>8, <1>10, <2>1
  <1>. QED  BY <1>1, <1>8, <1>9, <1>11, <1>12 DEF SInv, BitsIn

\* A page that is handed out or given back and has no bit is a page behind the
\* end of the bitmap.
LEMMA PageBehindBitmap ==
  ASSUME Inv, NEW page \in 1 .. (highest_page - 1), page \notin Covered
  PROVE  highest_page > BitsIn(bitmap.size)
  BY BitsInType DEF Covered, Inv, TypeOK

\* With single pages, no loop of the allocator (pmm.c:148, 238, 262) touches a
\* bit behind the bitmap, except where memory ends by less than a byte's bits
\* behind a whole number of bitmap pages; there, usable memory behind the end
\* makes pmm_init itself do it.
THEOREM StrayBitsAreBehindTheEnd ==
  ASSUME SinglePages, MemoryExists
  PROVE  Spec => []WritesAtBitmapEnd
  <1>1. Init => SInv
    BY InitConservation DEF SInv, Init
  <1>2. SInv /\ [Next]_vars => SInv'
    <2>. SUFFICES ASSUME SInv, [Next]_vars PROVE SInv'
      OBVIOUS
    <2>. CInv /\ Inv
      BY DEF SInv, CInv
    <2>1. CASE pmm_init
      BY <2>1, InitStepStray
    <2>2. ASSUME phase = "ready", UNCHANGED <<phase, memory_map, highest_page>>,
                 CInv', bitmap'.size = bitmap.size, stray => stray',
                 stray' => stray \/ highest_page > BitsIn(bitmap.size)
          PROVE  SInv'
      <3>1. Covered' = Covered /\ BitsIn(bitmap.size)' = BitsIn(bitmap.size)
            /\ UsablePages(memory_map)' = UsablePages(memory_map)
        BY <2>2 DEF Covered, BitsIn, UsablePages, EntryPages
      <3>. QED  BY <2>2, <3>1 DEF SInv
    <2>3. ASSUME NEW c \in Clients, NEW page_count \in PageCounts, Allocate(c, page_count)
          PROVE  SInv'
      <3>1. CInv' /\ phase = "ready" /\ UNCHANGED <<phase, memory_map, highest_page>>
        BY <2>3, AllocateConservation DEF Allocate
      <3>2. stray => stray'
        BY <2>3 DEF Allocate, pmm_alloc
      <3>3. CASE UNCHANGED vars
        BY <2>2, <3>1, <3>3 DEF vars
      <3>4. ASSUME NEW page \in 1 .. (highest_page - 1),
                   bitmap'.size = bitmap.size, stray' => stray \/ page \notin Covered
            PROVE  SInv'
        BY <2>2, <3>1, <3>2, <3>4, PageBehindBitmap
      <3>. QED  BY <2>3, <3>3, <3>4, AllocateMoves
    <2>4. ASSUME NEW c \in Clients, Release(c)
          PROVE  SInv'
      <3>1. CInv' /\ phase = "ready" /\ UNCHANGED <<phase, memory_map, highest_page>>
        BY <2>4, ReleaseConservation DEF Release
      <3>2. stray => stray'
        BY <2>4 DEF Release, pmm_free
      <3>3. PICK page \in 1 .. (highest_page - 1) :
              bitmap'.size = bitmap.size /\ (stray' => stray \/ page \notin Covered)
        BY <2>4, ReleaseMoves
      <3>. QED  BY <2>2, <3>1, <3>2, <3>3, PageBehindBitmap
    <2>5. CASE UNCHANGED vars
      BY <2>5, StutterConservation
         DEF SInv, Covered, BitsIn, UsablePages, EntryPages, vars
    <2>. QED  BY <2>1, <2>3, <2>4, <2>5 DEF Next
  <1>3. SInv => WritesAtBitmapEnd
    <2>. SUFFICES ASSUME SInv, phase = "ready" PROVE WritesAtBitmapEnd
      BY DEF WritesAtBitmapEnd
    <2>1. highest_page \in Nat /\ bitmap.size = BitmapPages(highest_page) * PageSize
      BY DEF SInv, CInv, Inv, TypeOK
    <2>. QED  BY <2>1, MissingBits DEF SInv, WritesAtBitmapEnd
  <1>. QED  BY <1>1, <1>2, <1>3, PTL DEF Spec
----------------------------------------------------------------------------
(* Single pages: used_pages counts what is not free.                       *)

\* The bitmap pmm_init makes for each map has a bit for every page of it.
BitmapsCover ==
  \A map \in MemMaps : \A top \in Tops(map) : top <= BitsIn(BitmapPages(top) * PageSize)

\* used_pages starts from 1024 times the number of pages (pmm.c:155), and the
\* counter has room for it: up to 16 GiB.
CounterFits ==
  /\ KbFactor > 1
  /\ \A map \in MemMaps : \A top \in Tops(map) : KbFactor * top < CounterMod

UsedPages(map, clear, top) ==
  KbFactor * top - Cardinality(UsablePages(map)) + Cardinality((UsablePages(map) \ {0}) \ clear)

UInv ==
  /\ CInv
  /\ highest_page <= BitsIn(bitmap.size)
  /\ KbFactor * highest_page < CounterMod
  /\ phase = "ready" =>
       /\ UsablePages(memory_map) \subseteq 0 .. (highest_page - 1)
       /\ used_pages = UsedPages(memory_map, ClearBits, highest_page)

\* The bounds that keep the counter from wrapping.
LEMMA CounterBounds ==
  ASSUME NEW top \in Nat, NEW U, U \subseteq 0 .. (top - 1), KbFactor > 1,
         NEW clear
  PROVE  /\ IsFiniteSet(U) /\ Cardinality(U) \in 0 .. top
         /\ IsFiniteSet((U \ {0}) \ clear)
         /\ Cardinality((U \ {0}) \ clear) \in 0 .. Cardinality(U)
         /\ KbFactor * top \in Nat /\ KbFactor * top >= 2 * top
  <1>1. IsFiniteSet(U) /\ Cardinality(U) \in 0 .. top
    <2>1. IsFiniteSet(0 .. (top - 1)) /\ Cardinality(0 .. (top - 1)) = top
      BY FS_Interval
    <2>2. U \in SUBSET (0 .. (top - 1))
      OBVIOUS
    <2>3. IsFiniteSet(U) /\ Cardinality(U) <= top
      BY <2>1, <2>2, FS_Subset
    <2>4. Cardinality(U) \in Nat
      BY <2>3, FS_CardinalityType
    <2>. QED  BY <2>3, <2>4
  <1>2. IsFiniteSet((U \ {0}) \ clear) /\ Cardinality((U \ {0}) \ clear) \in 0 .. Cardinality(U)
    <2>1. (U \ {0}) \ clear \in SUBSET U
      OBVIOUS
    <2>2. /\ IsFiniteSet((U \ {0}) \ clear)
          /\ Cardinality((U \ {0}) \ clear) <= Cardinality(U)
      BY <1>1, <2>1, FS_Subset
    <2>3. Cardinality((U \ {0}) \ clear) \in Nat
      BY <2>2, FS_CardinalityType
    <2>. QED  BY <1>1, <2>2, <2>3
  <1>3. KbFactor * top \in Nat /\ KbFactor * top >= 2 * top
    <2>1. \A k, n \in Nat : k > 1 => k * n \in Nat /\ k * n >= 2 * n
      OBVIOUS
    <2>. QED  BY <2>1, ParametersAssumption
  <1>. QED  BY <1>1, <1>2, <1>3

LEMMA PagesCovered ==
  ASSUME Inv, highest_page <= BitsIn(bitmap.size), NEW page \in 1 .. (highest_page - 1)
  PROVE  page \in Covered
  BY BitsInType DEF Covered, Inv, TypeOK

LEMMA InitStepCounts ==
  ASSUME SinglePages, BitmapsCover, CounterFits, UInv, pmm_init
  PROVE  UInv'
  <1>. DEFINE U == UsablePages(memory_map')
              total == KbFactor * highest_page'
  <1>1. /\ CInv' /\ Inv /\ memory_map \in MemMaps /\ phase' = "ready"
        /\ highest_page' \in {0} \cup Tops(memory_map)
        /\ used_pages' = (total - Cardinality(U)) % CounterMod
    BY InitStepConservation DEF UInv, CInv, Inv, pmm_init
  <1>2. U \subseteq 0 .. (highest_page' - 1) /\ highest_page' \in Nat
    BY <1>1, UsableBelowTop DEF CInv, Inv, TypeOK
  <1>13. highest_page' <= BitsIn(bitmap'.size)
    <2>1. BitsIn(bitmap'.size) \in Nat
      <3>1. Inv'
        BY <1>1 DEF CInv
      <3>2. bitmap'.size \in Nat
        BY <3>1 DEF Inv, TypeOK
      <3>3. \A a, b \in Nat : a * b \in Nat
        OBVIOUS
      <3>. QED  BY <3>2, <3>3, ParametersAssumption DEF BitsIn
    <2>2. CASE highest_page' = 0
      BY <2>1, <2>2
    <2>3. CASE highest_page' \in Tops(memory_map)
      BY <1>1, <2>3 DEF BitmapsCover, CInv
    <2>. QED  BY <1>1, <2>2, <2>3
  <1>14. U \ {0} \subseteq Covered'
    <2>1. BitsIn(bitmap'.size) \in Int
      <3>1. Inv'
        BY <1>1 DEF CInv
      <3>2. bitmap'.size \in Nat
        BY <3>1 DEF Inv, TypeOK
      <3>3. \A a, b \in Nat : a * b \in Nat
        OBVIOUS
      <3>. QED  BY <3>2, <3>3, ParametersAssumption DEF BitsIn
    <2>2. Covered' = 0 .. (BitsIn(bitmap'.size) - 1)
      BY DEF Covered, BitsIn
    <2>3. PICK n \in Int : n = BitsIn(bitmap'.size)
      BY <2>1
    <2>4. highest_page' <= n /\ Covered' = 0 .. (n - 1)
      BY <1>13, <2>2, <2>3
    <2>5. PICK top \in Nat : top = highest_page'
      BY <1>2
    <2>6. U \subseteq 0 .. (top - 1) /\ top <= n /\ Covered' = 0 .. (n - 1)
      BY <1>2, <2>4, <2>5
    <2>. HIDE DEF U
    <2>7. \A x \in U \ {0} : x \in 0 .. (n - 1)
      BY <2>6
    <2>. QED  BY <2>6, <2>7, Zenon
  <1>3. (U \ {0}) \ ClearBits' = {}
    <2>1. ClearBits' \cup UNION {Owned(c)' : c \in Clients} = U \ {0}
      BY <1>1, <1>14 DEF CInv, PageConservation, Pool
    <2>2. \A c \in Clients : HeldPages(c)' = {}
      <3>1. held' = held /\ held = [c \in Clients |-> NoBlock]
        BY DEF pmm_init, UInv, CInv, Inv
      <3>2. \A c \in Clients : held'[c] = NoBlock
        BY <3>1
      <3>3. higher_half_data_to_phys(NULL) \in Int
        BY HigherHalfToPhysType DEF NULL
      <3>. QED  BY <3>2, <3>3 DEF HeldPages, higher_half_data_to_phys, NoBlock
    <2>3. UNION {Owned(c)' : c \in Clients} = {}
      BY <2>2 DEF Owned
    <2>. QED  BY <2>1, <2>3
  <1>4. total < CounterMod
    <2>1. CASE highest_page' = 0
      BY <2>1, ParametersAssumption
    <2>2. CASE highest_page' \in Tops(memory_map)
      BY <1>1, <2>2 DEF CounterFits
    <2>. QED  BY <1>1, <2>1, <2>2
  <1>5. Cardinality(U) \in 0 .. highest_page' /\ total \in Nat /\ total >= 2 * highest_page'
    BY <1>2, CounterBounds DEF CounterFits
  <1>. HIDE DEF total, U
  <1>6. used_pages' = total - Cardinality(U)
    <2>1. total - Cardinality(U) \in 0 .. (CounterMod - 1)
      <3>. DEFINE n == Cardinality(U)
                  top == highest_page'
      <3>1. n \in 0 .. top /\ top \in Nat /\ total \in Nat /\ total >= 2 * top
            /\ total < CounterMod /\ CounterMod \in Nat
        BY <1>2, <1>4, <1>5, ParametersAssumption
      <3>. HIDE DEF n, top
      <3>2. total - n \in 0 .. (CounterMod - 1)
        BY <3>1
      <3>. QED  BY <3>2 DEF n
    <2>. QED  BY <1>1, <2>1, RemainderSmall, ParametersAssumption
  <1>7. used_pages' = total - Cardinality(U) + Cardinality((U \ {0}) \ ClearBits')
    BY <1>3, <1>5, <1>6, FS_EmptySet
  <1>. QED  BY <1>1, <1>2, <1>4, <1>7, <1>13 DEF UInv, UsedPages, total, U, BitsIn

\* A page leaves the clear bits and is counted, or comes back and is not.
LEMMA MoveCounts ==
  ASSUME CounterFits, UInv, phase = "ready",
         UNCHANGED <<phase, memory_map, highest_page>>, CInv', bitmap'.size = bitmap.size,
         NEW page,
         \/ /\ page \in ClearBits /\ ClearBits' = ClearBits \ {page}
            /\ used_pages' = (used_pages + 1) % CounterMod
         \/ /\ page \notin ClearBits /\ ClearBits' = ClearBits \cup {page}
            /\ used_pages' = (used_pages - 1) % CounterMod
  PROVE  UInv'
  <1>. DEFINE U == UsablePages(memory_map)
              total == KbFactor * highest_page
              rest == (U \ {0}) \ ClearBits
              more == (U \ {0}) \ ClearBits'
  <1>1. /\ U \subseteq 0 .. (highest_page - 1) /\ highest_page \in Nat
        /\ used_pages = total - Cardinality(U) + Cardinality(rest) /\ total < CounterMod
    BY DEF UInv, UsedPages, CInv, Inv, TypeOK
  <1>2. ClearBits \subseteq U \ {0} /\ ClearBits' \subseteq U \ {0}
    <2>1. UsablePages(memory_map') = U
      BY DEF UsablePages, EntryPages
    <2>. QED  BY <2>1 DEF UInv, CInv, PageConservation, Pool
  <1>3. /\ IsFiniteSet(rest) /\ Cardinality(rest) \in 0 .. Cardinality(U)
        /\ IsFiniteSet(more) /\ Cardinality(more) \in 0 .. Cardinality(U)
        /\ Cardinality(U) \in 0 .. highest_page
        /\ total \in Nat /\ total >= 2 * highest_page
    BY <1>1, CounterBounds DEF CounterFits
  <1>4. used_pages' = total - Cardinality(U) + Cardinality(more)
    <2>. DEFINE n == total - Cardinality(U) + Cardinality(more)
    <2>1. n \in 0 .. (CounterMod - 1)
      <3>. HIDE DEF U, total, rest, more
      <3>. QED  BY <1>1, <1>3, ParametersAssumption
    <2>2. n % CounterMod = n
      BY <2>1, RemainderSmall, ParametersAssumption
    <2>3. CASE /\ page \in ClearBits /\ ClearBits' = ClearBits \ {page}
               /\ used_pages' = (used_pages + 1) % CounterMod
      <3>1. more = rest \cup {page} /\ page \notin rest
        BY <1>2, <2>3
      <3>. HIDE DEF U, total, rest, more
      <3>2. Cardinality(more) = Cardinality(rest) + 1
        BY <1>3, <3>1, FS_AddElement
      <3>3. used_pages + 1 = n
        BY <1>1, <1>3, <3>2
      <3>. QED  BY <2>2, <2>3, <3>3
    <2>4. CASE /\ page \notin ClearBits /\ ClearBits' = ClearBits \cup {page}
               /\ used_pages' = (used_pages - 1) % CounterMod
      <3>1. more = rest \ {page} /\ page \in rest
        BY <1>2, <2>4
      <3>. HIDE DEF U, total, rest, more
      <3>2. Cardinality(more) = Cardinality(rest) - 1
        BY <1>3, <3>1, FS_RemoveElement
      <3>3. used_pages - 1 = n
        BY <1>1, <1>3, <3>2
      <3>. QED  BY <2>2, <2>4, <3>3
    <2>. QED  BY <2>3, <2>4
  <1>5. UsablePages(memory_map') = U /\ KbFactor * highest_page' = total
    BY DEF UsablePages, EntryPages
  <1>6. highest_page' <= BitsIn(bitmap'.size)
    BY DEF UInv
  <1>. QED  BY <1>1, <1>4, <1>5, <1>6 DEF UInv, UsedPages

\* While the counter has room, used_pages is not 0 as long as a page is free:
\* pmm_alloc (pmm.c:225) never refuses a page it could have found.
THEOREM FreePagesAreFound ==
  ASSUME SinglePages, BitmapsCover, CounterFits
  PROVE  Spec => []NeverRefusesFreePage
  <1>1. Init => UInv
    <2>. SUFFICES ASSUME Init PROVE UInv
      OBVIOUS
    <2>1. /\ phase # "ready" /\ KbFactor * highest_page = 0 /\ 0 < CounterMod
          /\ highest_page <= BitsIn(bitmap.size)
      BY ParametersAssumption DEF Init, BitsIn
    <2>. QED  BY <2>1, InitConservation DEF UInv
  <1>2. UInv /\ [Next]_vars => UInv'
    <2>. SUFFICES ASSUME UInv, [Next]_vars PROVE UInv'
      OBVIOUS
    <2>. CInv
      BY DEF UInv
    <2>1. CASE pmm_init
      BY <2>1, InitStepCounts
    <2>2. CASE UNCHANGED vars
      <3>1. CInv'
        BY <2>2, StutterConservation
      <3>. QED  BY <2>2, <3>1 DEF UInv, UsedPages, UsablePages, EntryPages, ClearBits, Covered, BitsIn, vars
    <2>3. ASSUME NEW c \in Clients, NEW page_count \in PageCounts, Allocate(c, page_count)
          PROVE  UInv'
      <3>1. CInv' /\ phase = "ready" /\ UNCHANGED <<phase, memory_map, highest_page>>
        BY <2>3, AllocateConservation DEF Allocate
      <3>2. ASSUME NEW page \in 1 .. (highest_page - 1),
                   page \in Covered => page \in ClearBits,
                   ClearBits' = ClearBits \ {page}, bitmap'.size = bitmap.size,
                   used_pages' = (used_pages + 1) % CounterMod
            PROVE  UInv'
        <4>1. page \in ClearBits
          BY <3>2, PagesCovered DEF UInv, CInv
        <4>. QED  BY <3>1, <3>2, <4>1, MoveCounts
      <3>. QED  BY <2>2, <2>3, <3>2, AllocateMoves
    <2>4. ASSUME NEW c \in Clients, Release(c)
          PROVE  UInv'
      <3>1. CInv' /\ phase = "ready" /\ UNCHANGED <<phase, memory_map, highest_page>>
        BY <2>4, ReleaseConservation DEF Release
      <3>2. PICK page \in 1 .. (highest_page - 1) :
              /\ Owned(c) = {page} \cap Covered
              /\ ClearBits' = ClearBits \cup ({page} \cap Covered)
              /\ bitmap'.size = bitmap.size
              /\ used_pages' = (used_pages - 1) % CounterMod
        BY <2>4, ReleaseMoves
      <3>3. page \in Covered
        BY <3>2, PagesCovered DEF UInv, CInv
      <3>4. page \notin ClearBits /\ ClearBits' = ClearBits \cup {page}
        BY <3>1, <3>2, <3>3 DEF CInv, PageConservation
      <3>. QED  BY <3>1, <3>2, <3>4, MoveCounts
    <2>. QED  BY <2>1, <2>2, <2>3, <2>4 DEF Next
  <1>3. UInv => NeverRefusesFreePage
    <2>. SUFFICES ASSUME UInv, phase = "ready", NEW page \in ClearBits
                  PROVE  used_pages # 0
      BY DEF NeverRefusesFreePage
    <2>. DEFINE U == UsablePages(memory_map)
                total == KbFactor * highest_page
                rest == (U \ {0}) \ ClearBits
    <2>1. /\ U \subseteq 0 .. (highest_page - 1) /\ highest_page \in Nat
          /\ used_pages = total - Cardinality(U) + Cardinality(rest)
          /\ page \in 1 .. (highest_page - 1)
      BY DEF UInv, UsedPages, CInv, Inv, TypeOK, PageConservation
    <2>2. /\ Cardinality(rest) \in 0 .. Cardinality(U) /\ Cardinality(U) \in 0 .. highest_page
          /\ total \in Nat /\ total >= 2 * highest_page
      BY <2>1, CounterBounds DEF CounterFits
    <2>. HIDE DEF U, total, rest
    <2>. QED  BY <2>1, <2>2
  <1>. QED  BY <1>1, <1>2, <1>3, PTL DEF Spec
=============================================================================
