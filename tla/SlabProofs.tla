----------------------------- MODULE SlabProofs -----------------------------
(***************************************************************************)
(* Theorems about Slab, for every number of clients and slabs, every       *)
(* object size, page size and supply of pages.                             *)
(***************************************************************************)
EXTENDS Slab, ArithmeticProofs, FiniteSetTheorems, TLAPS

\* slab_init does not check what pmm_alloc returns: a NULL page would put
\* slabs over the first page of memory, and two of them over each other.
NoPageRefused == \A pages \in PageSupplies : \A k \in DOMAIN pages : pages[k] # NULL
----------------------------------------------------------------------------
(* The inductive invariant.                                                *)

\* Before slab_init there is nothing to hand out; after it each slab has its
\* range, and the bytes of two slabs are disjoint.
SlabsLaidOut ==
  /\ ~ready => /\ \A i \in Slabs : slabs[i].start = NULL /\ FreeObjects(i) = {}
               /\ \A c \in Clients : held[c] = NoObject
  /\ ready => \A i \in Slabs : /\ slabs[i].start > NULL
                               /\ slabs[i].end = slabs[i].start + RangeBytes - Size[i]
  /\ ready => \A i, j \in Slabs : i # j =>
       \/ slabs[i].start + MaxSlabSize <= slabs[j].start
       \/ slabs[j].start + MaxSlabSize <= slabs[i].start

\* No object lies in two slots.
FreeOnce ==
  \A i \in Slabs : \A s, t \in Slots(i) :
    s # t /\ slabs[i].objects[s] # NULL => slabs[i].objects[s] # slabs[i].objects[t]

\* What a client holds is an object of the slab of its size, and not free.
HeldFromSlab ==
  \A c \in Clients : held[c] # NoObject =>
    \E i \in Slabs : /\ held[c].size = Size[i]
                     /\ held[c].pointer \in ObjectsOf(i) \ FreeObjects(i)

HeldOnce ==
  \A c, d \in Clients : c # d /\ held[c] # NoObject => held[c].pointer # held[d].pointer

SlabInv ==
  TypeOK /\ SlabsLaidOut /\ FreeOnce /\ HeldFromSlab /\ HeldOnce /\ RangeConserved
----------------------------------------------------------------------------
(* Objects and slabs.                                                      *)

\* The objects of a slab fill its bytes.
LEMMA ObjectsFit ==
  ASSUME NEW i \in Slabs, NEW slot \in Slots(i)
  PROVE  /\ slot \in Nat /\ slot * Size[i] \in Nat
         /\ slot * Size[i] + Size[i] <= MaxSlabSize
         /\ (slot * Size[i] + Size[i]) % Size[i] = 0
  BY PartsFit, SlabAssumption DEF Slots

\* An object of a slab lies in the slab's bytes, on the boundary slab_free
\* tests.
LEMMA ObjectsInside ==
  ASSUME TypeOK, NEW i \in Slabs, NEW p \in ObjectsOf(i)
  PROVE  /\ p \in Nat /\ Size[i] \in Nat \ {0} /\ slabs[i].start \in Nat
         /\ slabs[i].start <= p /\ p + Size[i] <= slabs[i].start + MaxSlabSize
         /\ (p - slabs[i].start + Size[i]) % Size[i] = 0
  <1>1. slabs[i].start \in Nat /\ Size[i] \in Nat \ {0} /\ MaxSlabSize \in Nat
    BY SlabAssumption DEF TypeOK
  <1>2. PICK slot \in Slots(i) : p = slabs[i].start + slot * Size[i]
    BY DEF ObjectsOf
  <1>3. /\ slot * Size[i] \in Nat /\ slot * Size[i] + Size[i] <= MaxSlabSize
        /\ (slot * Size[i] + Size[i]) % Size[i] = 0
    BY ObjectsFit
  <1>. DEFINE off == slot * Size[i]
  <1>4. p = slabs[i].start + off /\ off \in Nat /\ off + Size[i] <= MaxSlabSize
        /\ (off + Size[i]) % Size[i] = 0
    BY <1>2, <1>3
  <1>. HIDE DEF off
  <1>5. p - slabs[i].start + Size[i] = off + Size[i]
    BY <1>1, <1>4
  <1>. QED  BY <1>1, <1>4, <1>5

\* Two objects of a slab that differ have no byte in common.
LEMMA ObjectsApart ==
  ASSUME TypeOK, NEW i \in Slabs, NEW p \in ObjectsOf(i), NEW q \in ObjectsOf(i), p # q
  PROVE  p + Size[i] <= q \/ q + Size[i] <= p
  <1>1. slabs[i].start \in Nat /\ Size[i] \in Nat \ {0}
    BY SlabAssumption DEF TypeOK
  <1>2. PICK s \in Slots(i) : p = slabs[i].start + s * Size[i]
    BY DEF ObjectsOf
  <1>3. PICK t \in Slots(i) : q = slabs[i].start + t * Size[i]
    BY DEF ObjectsOf
  <1>4. s \in Nat /\ t \in Nat /\ s * Size[i] \in Nat /\ t * Size[i] \in Nat
    BY ObjectsFit
  <1>5. s # t
    BY <1>2, <1>3
  <1>6. CASE s < t
    <2>1. s * Size[i] + Size[i] <= t * Size[i]
      BY <1>1, <1>4, <1>6, ProductGap
    <2>. QED  BY <1>1, <1>2, <1>3, <1>4, <2>1
  <1>7. CASE t < s
    <2>1. t * Size[i] + Size[i] <= s * Size[i]
      BY <1>1, <1>4, <1>7, ProductGap
    <2>. QED  BY <1>1, <1>2, <1>3, <1>4, <2>1
  <1>. QED  BY <1>4, <1>5, <1>6, <1>7

\* An address is an object of one slab at most.
LEMMA SlabOfObject ==
  ASSUME TypeOK, SlabsLaidOut, ready, NEW i \in Slabs, NEW j \in Slabs, i # j,
         NEW p \in ObjectsOf(i)
  PROVE  p \notin ObjectsOf(j) /\ ~IsObjectOf(j, p)
  <1>1. /\ p \in Nat /\ Size[i] \in Nat \ {0} /\ slabs[i].start \in Nat
        /\ slabs[i].start <= p /\ p + Size[i] <= slabs[i].start + MaxSlabSize
    BY ObjectsInside
  <1>2. /\ slabs[j].start \in Nat /\ Size[j] \in Nat /\ Size[j] >= 1
        /\ RangeBytes \in Nat /\ RangeBytes <= MaxSlabSize /\ MaxSlabSize \in Nat
    BY SlabAssumption DEF TypeOK
  <1>3. slabs[j].end = slabs[j].start + RangeBytes - Size[j]
    BY DEF SlabsLaidOut
  <1>4. \/ slabs[i].start + MaxSlabSize <= slabs[j].start
        \/ slabs[j].start + MaxSlabSize <= slabs[i].start
    BY DEF SlabsLaidOut
  <1>5. ~(slabs[j].start <= p /\ p + 1 <= slabs[j].start + MaxSlabSize)
    BY <1>1, <1>2, <1>4
  <1>6. p \notin ObjectsOf(j)
    <2>1. SUFFICES ASSUME p \in ObjectsOf(j) PROVE FALSE
      OBVIOUS
    <2>2. slabs[j].start <= p /\ p + Size[j] <= slabs[j].start + MaxSlabSize
      BY <2>1, ObjectsInside
    <2>3. p + 1 <= slabs[j].start + MaxSlabSize
      BY <1>1, <1>2, <2>2
    <2>. QED  BY <1>5, <2>2, <2>3
  <1>7. ~IsObjectOf(j, p)
    <2>1. SUFFICES ASSUME slabs[j].start <= p, p <= slabs[j].end PROVE FALSE
      BY DEF IsObjectOf
    <2>. QED  BY <1>1, <1>2, <1>3, <1>5, <2>1
  <1>. QED  BY <1>6, <1>7

\* A slot that is not NULL holds an object of its slab, a free one.
LEMMA SlotObjects ==
  ASSUME TypeOK, NEW i \in Slabs
  PROVE  /\ FreeObjects(i) \subseteq ObjectsOf(i)
         /\ \A slot \in Slots(i) : slabs[i].objects[slot] \in FreeObjects(i) \cup {NULL}
  <1>1. slabs[i].objects \in [Slots(i) -> {NULL} \cup ObjectsOf(i)]
    BY DEF TypeOK
  <1>. QED  BY <1>1 DEF FreeObjects

\* A slab that misses one of its objects has a NULL slot: there are as many
\* slots as objects, and no object is in two slots.
LEMMA MissingObjectLeavesSlot ==
  ASSUME TypeOK, FreeOnce, NEW i \in Slabs, NEW p \in ObjectsOf(i) \ FreeObjects(i)
  PROVE  ~AllFree(i)
  <1>1. SUFFICES ASSUME AllFree(i) PROVE FALSE
    OBVIOUS
  <1>2. PICK k \in Slots(i) : p = slabs[i].start + k * Size[i]
    BY DEF ObjectsOf
  <1>. DEFINE Of(slot, l) == slabs[i].objects[slot] = slabs[i].start + l * Size[i]
              f == [slot \in Slots(i) |-> CHOOSE l \in Slots(i) : Of(slot, l)]
  <1>3. ASSUME NEW slot \in Slots(i)
        PROVE  f[slot] \in Slots(i) \ {k} /\ Of(slot, f[slot])
    <2>1. slabs[i].objects[slot] # NULL /\ slabs[i].objects[slot] \in FreeObjects(i)
      BY <1>1, SlotObjects DEF AllFree
    <2>2. slabs[i].objects[slot] \in ObjectsOf(i) /\ slabs[i].objects[slot] # p
      BY <2>1, SlotObjects
    <2>3. \E l \in Slots(i) : Of(slot, l)
      BY <2>2 DEF ObjectsOf
    <2>4. f[slot] \in Slots(i) /\ Of(slot, f[slot])
      BY <2>3
    <2>5. f[slot] # k
      BY <1>2, <2>2, <2>4
    <2>. QED  BY <2>4, <2>5
  <1>4. f \in [Slots(i) -> Slots(i) \ {k}]
    BY <1>3
  <1>. HIDE DEF f
  <1>5. IsFiniteSet(Slots(i))
    <2>1. MaxSlabSize \in Int /\ Size[i] \in Nat \ {0}
      BY SlabAssumption
    <2>2. MaxSlabSize \div Size[i] \in Int
      BY <2>1, DivisionWithRemainder
    <2>. QED  BY <2>2, FS_Interval DEF Slots
  <1>6. /\ IsFiniteSet(Slots(i) \ {k})
        /\ Cardinality(Slots(i) \ {k}) = Cardinality(Slots(i)) - 1
    BY <1>5, FS_RemoveElement
  <1>7. Cardinality(Slots(i)) \in Nat
    BY <1>5, FS_CardinalityType
  <1>8. Cardinality(Slots(i) \ {k}) < Cardinality(Slots(i))
    BY <1>6, <1>7
  <1>9. PICK s, t \in Slots(i) : s # t /\ f[s] = f[t]
    BY <1>4, <1>5, <1>6, <1>8, FS_PigeonHole
  <1>10. slabs[i].objects[s] = slabs[i].objects[t]
    BY <1>3, <1>9
  <1>. QED  BY <1>1, <1>9, <1>10 DEF FreeOnce, AllFree

\* find_allocated_object finds one slot if there is one.
LEMMA FirstNullSlot ==
  ASSUME TypeOK, NEW i \in Slabs, ~AllFree(i)
  PROVE  \E slot \in Slots(i) : \A other \in Slots(i) :
           find_allocated_object(i, other) <=> other = slot
  <1>. DEFINE Null == {slot \in Slots(i) : slabs[i].objects[slot] = NULL}
  <1>1. Slots(i) \subseteq Nat
    BY ObjectsFit
  <1>2. Null # {} /\ Null \subseteq Nat
    BY <1>1 DEF AllFree
  <1>3. PICK slot \in Null : \A other \in Null : ~(<<other, slot>> \in OpToRel(<, Nat))
    BY <1>2, NatLessThanWellFounded, WFMin
  <1>4. \A other \in Null : ~(other < slot)
    BY <1>1, <1>3 DEF OpToRel
  <1>5. \A other \in Slots(i) : find_allocated_object(i, other) <=> other = slot
    <2>. TAKE other \in Slots(i)
    <2>1. other \in Nat /\ slot \in Nat /\ slot \in Slots(i)
      BY <1>1
    <2>2. slabs[i].objects[slot] = NULL
      OBVIOUS
    <2>3. find_allocated_object(i, slot)
      BY <1>4, <2>2 DEF find_allocated_object
    <2>4. ASSUME find_allocated_object(i, other) PROVE other = slot
      <3>1. slabs[i].objects[other] = NULL /\ ~(slot < other)
        BY <2>1, <2>2, <2>4 DEF find_allocated_object
      <3>2. ~(other < slot)
        BY <1>4, <3>1
      <3>. QED  BY <2>1, <3>1, <3>2
    <2>. QED  BY <2>3, <2>4
  <1>. QED  BY <1>5
----------------------------------------------------------------------------
(* What the invariant says of objects in different places.                 *)

\* Objects that differ, of one slab or of two, have no byte in common.
LEMMA DistinctObjectsDisjoint ==
  ASSUME TypeOK, SlabsLaidOut, ready, NEW i \in Slabs, NEW j \in Slabs,
         NEW p \in ObjectsOf(i), NEW q \in ObjectsOf(j), p # q
  PROVE  Bytes(p, Size[i]) \cap Bytes(q, Size[j]) = {}
  <1>1. /\ p \in Nat /\ Size[i] \in Nat /\ slabs[i].start \in Nat
        /\ slabs[i].start <= p /\ p + Size[i] <= slabs[i].start + MaxSlabSize
    BY ObjectsInside
  <1>2. /\ q \in Nat /\ Size[j] \in Nat /\ slabs[j].start \in Nat
        /\ slabs[j].start <= q /\ q + Size[j] <= slabs[j].start + MaxSlabSize
    BY ObjectsInside
  <1>3. MaxSlabSize \in Nat
    BY SlabAssumption
  <1>4. p + Size[i] <= q \/ q + Size[j] <= p
    <2>1. CASE i = j
      BY <2>1, ObjectsApart
    <2>2. CASE i # j
      <3>1. \/ slabs[i].start + MaxSlabSize <= slabs[j].start
            \/ slabs[j].start + MaxSlabSize <= slabs[i].start
        BY <2>2 DEF SlabsLaidOut
      <3>2. CASE slabs[i].start + MaxSlabSize <= slabs[j].start
        <4>1. p + Size[i] <= slabs[j].start
          BY <1>1, <1>2, <1>3, <3>2
        <4>. QED  BY <1>1, <1>2, <4>1
      <3>3. CASE slabs[j].start + MaxSlabSize <= slabs[i].start
        <4>1. q + Size[j] <= slabs[i].start
          BY <1>1, <1>2, <1>3, <3>3
        <4>. QED  BY <1>1, <1>2, <4>1
      <3>. QED  BY <3>1, <3>2, <3>3
    <2>. QED  BY <2>1, <2>2
  <1>. QED  BY <1>1, <1>2, <1>4 DEF Bytes

LEMMA InvImpliesNoOverlap == SlabInv => NoOverlap
  <1>. SUFFICES ASSUME SlabInv PROVE NoOverlap
    OBVIOUS
  <1>. USE DEF SlabInv
  <1>1. ASSUME NEW c \in Clients, held[c] = NoObject
        PROVE  HeldBytes(c) = {}
    BY <1>1 DEF HeldBytes, Bytes, NoObject, NULL
  <1>2. ASSUME NEW c \in Clients, NEW d \in Clients, c # d
        PROVE  HeldBytes(c) \cap HeldBytes(d) = {}
    <2>1. CASE held[c] = NoObject \/ held[d] = NoObject
      BY <1>1, <2>1
    <2>2. CASE held[c] # NoObject /\ held[d] # NoObject
      <3>1. PICK i \in Slabs : held[c].size = Size[i] /\ held[c].pointer \in ObjectsOf(i)
        BY <2>2 DEF HeldFromSlab
      <3>2. PICK j \in Slabs : held[d].size = Size[j] /\ held[d].pointer \in ObjectsOf(j)
        BY <2>2 DEF HeldFromSlab
      <3>3. held[c].pointer # held[d].pointer
        BY <1>2, <2>2 DEF HeldOnce
      <3>4. ready
        BY <2>2 DEF SlabsLaidOut, TypeOK
      <3>5. Bytes(held[c].pointer, Size[i]) \cap Bytes(held[d].pointer, Size[j]) = {}
        BY <3>1, <3>2, <3>3, <3>4, DistinctObjectsDisjoint
      <3>. QED  BY <3>1, <3>2, <3>5 DEF HeldBytes
    <2>. QED  BY <2>1, <2>2
  <1>3. ASSUME NEW c \in Clients, NEW i \in Slabs, NEW p \in FreeObjects(i)
        PROVE  Bytes(p, Size[i]) \cap HeldBytes(c) = {}
    <2>1. CASE held[c] = NoObject
      BY <1>1, <2>1
    <2>2. CASE held[c] # NoObject
      <3>1. PICK j \in Slabs : /\ held[c].size = Size[j]
                               /\ held[c].pointer \in ObjectsOf(j) \ FreeObjects(j)
        BY <2>2 DEF HeldFromSlab
      <3>2. p \in ObjectsOf(i)
        BY SlotObjects
      <3>3. ready
        BY <2>2 DEF SlabsLaidOut, TypeOK
      <3>4. p # held[c].pointer
        <4>1. CASE i = j
          BY <1>3, <3>1, <4>1
        <4>2. CASE i # j
          BY <3>1, <3>2, <3>3, <4>2, SlabOfObject
        <4>. QED  BY <4>1, <4>2
      <3>5. Bytes(p, Size[i]) \cap Bytes(held[c].pointer, Size[j]) = {}
        BY <3>1, <3>2, <3>3, <3>4, DistinctObjectsDisjoint
      <3>. QED  BY <3>1, <3>5 DEF HeldBytes
    <2>. QED  BY <2>1, <2>2
  <1>4. ASSUME NEW i \in Slabs, NEW j \in Slabs, NEW s \in Slots(i), NEW t \in Slots(j),
               <<i, s>> # <<j, t>>,
               slabs[i].objects[s] # NULL, slabs[j].objects[t] # NULL
        PROVE  Bytes(slabs[i].objects[s], Size[i]) \cap Bytes(slabs[j].objects[t], Size[j]) = {}
    <2>. DEFINE p == slabs[i].objects[s]
                q == slabs[j].objects[t]
    <2>1. p \in FreeObjects(i) /\ q \in FreeObjects(j)
      BY <1>4, SlotObjects
    <2>2. p \in ObjectsOf(i) /\ q \in ObjectsOf(j)
      BY <2>1, SlotObjects
    <2>3. ready
      BY <2>1 DEF SlabsLaidOut, TypeOK
    <2>4. p # q
      <3>1. CASE i = j
        <4>1. s # t
          BY <1>4, <3>1
        <4>. QED  BY <1>4, <3>1, <4>1 DEF FreeOnce
      <3>2. CASE i # j
        BY <2>2, <2>3, <3>2, SlabOfObject
      <3>. QED  BY <3>1, <3>2
    <2>. HIDE DEF p, q
    <2>5. Bytes(p, Size[i]) \cap Bytes(q, Size[j]) = {}
      BY <2>2, <2>3, <2>4, DistinctObjectsDisjoint
    <2>. QED  BY <2>5 DEF p, q
  <1>. QED  BY <1>2, <1>3, <1>4 DEF NoOverlap
----------------------------------------------------------------------------
(* slab_init.                                                              *)

\* Slab i lies in one of the pages, as the part with its number modulo the
\* slabs of a page.
PageOf(i) == (i \div (PageBytes \div MaxSlabSize)) + 1
PartOf(i) == (i % (PageBytes \div MaxSlabSize)) * MaxSlabSize

LEMMA SlabsPerPage ==
  /\ PageBytes \div MaxSlabSize \in Nat \ {0}
  /\ PageBytes = MaxSlabSize * (PageBytes \div MaxSlabSize)
  <1>. DEFINE n == PageBytes \div MaxSlabSize
  <1>1. /\ PageBytes \in Nat \ {0} /\ MaxSlabSize \in Nat \ {0}
        /\ PageBytes % MaxSlabSize = 0
    BY SlabAssumption
  <1>2. n \in Int /\ PageBytes = MaxSlabSize * n
    BY <1>1, DivisionWithRemainder
  <1>. HIDE DEF n
  <1>3. n \in Nat \ {0}
    <2>1. CASE n <= 0
      <3>1. MaxSlabSize * n <= 0
        BY <1>1, <1>2, <2>1
      <3>. QED  BY <1>1, <1>2, <3>1
    <2>2. CASE n >= 1
      BY <1>2, <2>2
    <2>. QED  BY <1>2, <2>1, <2>2
  <1>. QED  BY <1>2, <1>3 DEF n

LEMMA SlabsInPages ==
  ASSUME NEW pages \in PageSupplies, NEW i \in Slabs
  PROVE  /\ PageOf(i) \in DOMAIN pages /\ pages[PageOf(i)] \in Nat
         /\ PartOf(i) \in Nat /\ PartOf(i) + MaxSlabSize <= PageBytes
  <1>. DEFINE n == PageBytes \div MaxSlabSize
  <1>1. n \in Nat \ {0} /\ PageBytes = MaxSlabSize * n
    BY SlabsPerPage
  <1>2. /\ pages \in Seq(Nat) /\ SlabCount * MaxSlabSize <= Len(pages) * PageBytes
        /\ Len(pages) \in Nat /\ DOMAIN pages = 1 .. Len(pages)
    BY SupplyAssumption
  <1>3. /\ i \in Nat /\ i < SlabCount /\ SlabCount \in Nat
        /\ MaxSlabSize \in Nat \ {0} /\ PageBytes \in Nat
    BY SlabAssumption DEF Slabs
  <1>4. \A part \in 0 .. (n - 1) : /\ part * MaxSlabSize \in Nat
                                   /\ part * MaxSlabSize + MaxSlabSize <= PageBytes
    BY SlabAssumption, PartsFit
  <1>. HIDE DEF n
  <1>5. SlabCount <= n * Len(pages)
    <2>1. Len(pages) * PageBytes = (n * Len(pages)) * MaxSlabSize
      BY <1>1, <1>2, <1>3
    <2>2. n * Len(pages) \in Int
      BY <1>1, <1>2
    <2>. DEFINE whole == n * Len(pages)
    <2>3. whole \in Int /\ SlabCount * MaxSlabSize <= whole * MaxSlabSize
      BY <1>2, <2>1, <2>2
    <2>. HIDE DEF whole
    <2>4. SlabCount <= whole
      BY <1>3, <2>3, CancelFactor
    <2>. QED  BY <2>4 DEF whole
  <1>6. i < n * Len(pages)
    <2>1. n * Len(pages) \in Int
      BY <1>1, <1>2
    <2>. QED  BY <1>3, <1>5, <2>1
  <1>7. i \div n \in 0 .. (Len(pages) - 1) /\ i % n \in 0 .. (n - 1)
    BY <1>1, <1>2, <1>3, <1>6, QuotientBelow
  <1>8. (i \div n) + 1 \in DOMAIN pages /\ pages[(i \div n) + 1] \in Nat
    BY <1>2, <1>7
  <1>. QED  BY <1>4, <1>7, <1>8 DEF PageOf, PartOf, n

\* Two slabs lie in different pages or in different parts of one.
LEMMA SlabsInDifferentPlaces ==
  ASSUME NEW i \in Slabs, NEW j \in Slabs, i # j, PageOf(i) = PageOf(j)
  PROVE  PartOf(i) + MaxSlabSize <= PartOf(j) \/ PartOf(j) + MaxSlabSize <= PartOf(i)
  <1>. DEFINE n == PageBytes \div MaxSlabSize
              r == i % n
              s == j % n
  <1>1. n \in Nat \ {0} /\ i \in Int /\ j \in Int /\ MaxSlabSize \in Nat
    BY SlabsPerPage, SlabAssumption DEF Slabs
  <1>2. /\ i \div n \in Int /\ r \in 0 .. (n - 1) /\ i = n * (i \div n) + r
        /\ j \div n \in Int /\ s \in 0 .. (n - 1) /\ j = n * (j \div n) + s
    BY <1>1, DivisionWithRemainder
  <1>3. i \div n = j \div n
    BY <1>2 DEF PageOf
  <1>4. PartOf(i) = r * MaxSlabSize /\ PartOf(j) = s * MaxSlabSize
    BY DEF PartOf
  <1>. DEFINE q == i \div n
              p == j \div n
  <1>5. /\ q = p /\ q \in Int /\ r \in 0 .. (n - 1) /\ s \in 0 .. (n - 1)
        /\ i = n * q + r /\ j = n * p + s
    BY <1>2, <1>3
  <1>. HIDE DEF n, q, p, r, s
  <1>6. r # s
    BY <1>5
  <1>7. r \in Int /\ s \in Int
    BY <1>1, <1>5
  <1>8. CASE r < s
    BY <1>1, <1>4, <1>7, <1>8, ProductGap
  <1>9. CASE s < r
    BY <1>1, <1>4, <1>7, <1>9, ProductGap
  <1>. QED  BY <1>6, <1>7, <1>8, <1>9

LEMMA ObjectPlace ==
  ASSUME NEW pages \in PageSupplies, NEW i \in Slabs
  PROVE  /\ ObjectAt(pages, i, 0) = pages[PageOf(i)] + PartOf(i)
         /\ \A slot \in Slots(i) :
              ObjectAt(pages, i, slot) = ObjectAt(pages, i, 0) + slot * Size[i]
  <1>1. pages[PageOf(i)] \in Nat /\ PartOf(i) \in Nat /\ Size[i] \in Nat
    BY SlabsInPages, SlabAssumption
  <1>2. \A slot : ObjectAt(pages, i, slot) = pages[PageOf(i)] + PartOf(i) + slot * Size[i]
    BY DEF ObjectAt, PageOf, PartOf
  <1>3. ObjectAt(pages, i, 0) = pages[PageOf(i)] + PartOf(i)
    BY <1>1, <1>2
  <1>. QED  BY <1>2, <1>3

LEMMA SetupKeepsInv ==
  ASSUME SlabInv, NoPageRefused, Setup
  PROVE  SlabInv'
  <1>1. PICK pages \in PageSupplies : slab_init(pages)
    BY DEF Setup
  <1>2. ~ready /\ ready' /\ ready' \in BOOLEAN /\ held' = held
    BY DEF Setup
  <1>3. \A c \in Clients : held[c] = NoObject /\ held'[c] = NoObject
    BY <1>2 DEF SlabInv, SlabsLaidOut
  <1>. DEFINE Start(i) == pages[PageOf(i)] + PartOf(i)
  <1>4. ASSUME NEW i \in Slabs
        PROVE  /\ Start(i) \in Nat /\ Start(i) > NULL
               /\ Start(i) + MaxSlabSize <= AddrBytes
               /\ Size[i] \in 1 .. MaxSlabSize /\ Size[i] <= Start(i)
    <2>1. /\ PageOf(i) \in DOMAIN pages /\ pages[PageOf(i)] \in Nat
          /\ PartOf(i) \in Nat /\ PartOf(i) + MaxSlabSize <= PageBytes
      BY SlabsInPages
    <2>2. /\ pages[PageOf(i)] % PageBytes = 0 /\ pages[PageOf(i)] # 0
          /\ pages[PageOf(i)] + PageBytes <= AddrBytes
      BY <2>1, SupplyAssumption DEF NoPageRefused, NULL
    <2>3. /\ PageBytes \in Nat \ {0} /\ MaxSlabSize \in Nat \ {0} /\ AddrBytes \in Nat
          /\ Size[i] \in Nat \ {0} /\ MaxSlabSize % Size[i] = 0 /\ 0 % PageBytes = 0
          /\ 0 % Size[i] = 0
      BY SlabAssumption
    <2>4. 0 + PageBytes <= pages[PageOf(i)]
      BY <2>1, <2>2, <2>3, MultipleGap
    <2>5. 0 + Size[i] <= MaxSlabSize
      BY <2>3, MultipleGap
    <2>. DEFINE page == pages[PageOf(i)]
                part == PartOf(i)
    <2>6. /\ page \in Nat /\ part \in Nat /\ part + MaxSlabSize <= PageBytes
          /\ page + PageBytes <= AddrBytes /\ PageBytes <= page
          /\ PageBytes \in Nat /\ MaxSlabSize \in Nat \ {0} /\ AddrBytes \in Nat
          /\ Size[i] \in Nat \ {0} /\ Size[i] <= MaxSlabSize
      BY <2>1, <2>2, <2>3, <2>4, <2>5
    <2>. HIDE DEF page, part
    <2>7. /\ page + part \in Nat /\ page + part > 0
          /\ page + part + MaxSlabSize <= AddrBytes
          /\ Size[i] \in 1 .. MaxSlabSize /\ Size[i] <= page + part
      BY <2>6
    <2>. QED  BY <2>7 DEF page, part, NULL
  <1>5. ASSUME NEW i \in Slabs, NEW j \in Slabs, i # j
        PROVE  Start(i) + MaxSlabSize <= Start(j) \/ Start(j) + MaxSlabSize <= Start(i)
    <2>1. /\ PageOf(i) \in DOMAIN pages /\ pages[PageOf(i)] \in Nat
          /\ PageOf(j) \in DOMAIN pages /\ pages[PageOf(j)] \in Nat
      BY SlabsInPages
    <2>. DEFINE page == pages[PageOf(i)]
                other == pages[PageOf(j)]
                part == PartOf(i)
                place == PartOf(j)
    <2>2. /\ part \in Nat /\ part + MaxSlabSize <= PageBytes
          /\ place \in Nat /\ place + MaxSlabSize <= PageBytes
          /\ MaxSlabSize \in Nat /\ PageBytes \in Nat \ {0}
          /\ page \in Nat /\ other \in Nat
      BY <2>1, SlabsInPages, SlabAssumption
    <2>3. CASE PageOf(i) = PageOf(j)
      <3>1. page = other
        BY <2>3
      <3>2. part + MaxSlabSize <= place \/ place + MaxSlabSize <= part
        BY <1>5, <2>3, SlabsInDifferentPlaces
      <3>. HIDE DEF page, other, part, place
      <3>3. page + part + MaxSlabSize <= other + place
              \/ other + place + MaxSlabSize <= page + part
        BY <2>2, <3>1, <3>2
      <3>. QED  BY <3>3 DEF page, other, part, place
    <2>4. CASE PageOf(i) # PageOf(j)
      <3>1. page # other /\ page % PageBytes = 0 /\ other % PageBytes = 0
        BY <2>1, <2>4, SupplyAssumption DEF NoPageRefused
      <3>. HIDE DEF page, other, part, place
      <3>2. page + PageBytes <= other \/ other + PageBytes <= page
        <4>1. PageBytes \in Nat \ {0} /\ page \in Int /\ other \in Int
          BY <2>2
        <4>. QED  BY <3>1, <4>1, MultiplesApart
      <3>3. page + part + MaxSlabSize <= other + place
              \/ other + place + MaxSlabSize <= page + part
        BY <2>2, <3>2
      <3>. QED  BY <3>3 DEF page, other, part, place
    <2>. QED  BY <2>3, <2>4
  <1>6. \A i \in Slabs : ObjectAt(pages, i, 0) = Start(i)
    BY ObjectPlace
  <1>7. \A i \in Slabs : \A slot \in Slots(i) :
          ObjectAt(pages, i, slot) = Start(i) + slot * Size[i]
    BY ObjectPlace, <1>6
  <1>. HIDE DEF Start
  <1>8. ASSUME NEW i \in Slabs
        PROVE  (Start(i) + RangeBytes - Size[i]) % AddrBytes = Start(i) + RangeBytes - Size[i]
    <2>1. /\ Start(i) + RangeBytes - Size[i] \in Nat
          /\ Start(i) + RangeBytes - Size[i] < AddrBytes /\ AddrBytes \in Nat \ {0}
      BY <1>4, SlabAssumption
    <2>. QED  BY <2>1, RemainderSmall
  <1>9. slabs' = [i \in Slabs |->
                    [is_full |-> FALSE, start |-> Start(i),
                     end     |-> Start(i) + RangeBytes - Size[i],
                     objects |-> [slot \in Slots(i) |-> Start(i) + slot * Size[i]]]]
    BY <1>1, <1>6, <1>7, <1>8 DEF slab_init
  <1>10. \A i \in Slabs :
           /\ slabs'[i].start = Start(i)
           /\ slabs'[i].end = Start(i) + RangeBytes - Size[i]
           /\ \A slot \in Slots(i) : slabs'[i].objects[slot] = Start(i) + slot * Size[i]
    BY <1>9
  <1>11. \A i \in Slabs : ObjectsOf(i)' = {Start(i) + slot * Size[i] : slot \in Slots(i)}
    BY <1>10 DEF ObjectsOf
  <1>12. ASSUME NEW i \in Slabs, NEW slot \in Slots(i)
         PROVE  Start(i) + slot * Size[i] \in Nat /\ Start(i) + slot * Size[i] # NULL
    <2>1. slot * Size[i] \in Nat
      BY ObjectsFit
    <2>. QED  BY <1>4, <2>1 DEF NULL
  <1>13. \A i \in Slabs : FreeObjects(i)' = ObjectsOf(i)'
    BY <1>10, <1>11, <1>12 DEF FreeObjects
  <1>14. TypeOK'
    <2>1. ASSUME NEW i \in Slabs
          PROVE  slabs'[i] \in [is_full : BOOLEAN, start : Nat, end : Nat,
                                objects : [Slots(i) -> {NULL} \cup ObjectsOf(i)']]
      <3>1. Start(i) \in Nat /\ Start(i) + RangeBytes - Size[i] \in Nat
        BY <1>4, SlabAssumption
      <3>2. [slot \in Slots(i) |-> Start(i) + slot * Size[i]]
              \in [Slots(i) -> {NULL} \cup ObjectsOf(i)']
        BY <1>11
      <3>. QED  BY <1>9, <3>1, <3>2
    <2>2. DOMAIN slabs' = Slabs
      BY <1>9
    <2>. QED  BY <1>2, <2>1, <2>2 DEF TypeOK, SlabInv
  <1>15. SlabsLaidOut'
    BY <1>2, <1>4, <1>5, <1>10 DEF SlabsLaidOut
  <1>16. FreeOnce'
    <2>1. ASSUME NEW i \in Slabs, NEW s \in Slots(i), NEW t \in Slots(i), s # t
          PROVE  Start(i) + s * Size[i] # Start(i) + t * Size[i]
      <3>1. /\ s \in Nat /\ t \in Nat /\ s * Size[i] \in Nat /\ t * Size[i] \in Nat
            /\ Size[i] \in Nat \ {0} /\ Start(i) \in Nat
        BY <1>4, ObjectsFit, SlabAssumption
      <3>2. s * Size[i] # t * Size[i]
        <4>1. CASE s < t
          BY <3>1, <4>1, ProductGap
        <4>2. CASE t < s
          BY <3>1, <4>2, ProductGap
        <4>. QED  BY <2>1, <3>1, <4>1, <4>2
      <3>. DEFINE a == s * Size[i]
                  b == t * Size[i]
      <3>3. a # b /\ a \in Nat /\ b \in Nat
        BY <3>1, <3>2
      <3>. HIDE DEF a, b
      <3>4. Start(i) + a # Start(i) + b
        BY <3>1, <3>3
      <3>. QED  BY <3>4 DEF a, b
    <2>. QED  BY <1>10, <2>1 DEF FreeOnce
  <1>17. HeldFromSlab' /\ HeldOnce'
    BY <1>3 DEF HeldFromSlab, HeldOnce
  <1>18. RangeConserved'
    BY <1>13 DEF RangeConserved
  <1>. QED  BY <1>14, <1>15, <1>16, <1>17, <1>18 DEF SlabInv
----------------------------------------------------------------------------
(* slab_alloc and slab_free.                                               *)

\* After slab_init no operation moves a slab.
LayoutKept ==
  /\ ready /\ ready' = ready
  /\ DOMAIN slabs' = Slabs
  /\ \A i \in Slabs : slabs'[i].start = slabs[i].start /\ slabs'[i].end = slabs[i].end

LEMMA LayoutKeepsSlabs ==
  ASSUME SlabInv, LayoutKept
  PROVE  /\ \A i \in Slabs : ObjectsOf(i)' = ObjectsOf(i)
         /\ SlabsLaidOut'
  BY DEF SlabInv, LayoutKept, SlabsLaidOut, ObjectsOf

\* A step that changes no slot and no client keeps the invariant.
LEMMA FlagKeepsInv ==
  ASSUME SlabInv, ready, ready' = ready, held' = held,
         \/ slabs' = slabs
         \/ \E i \in Slabs : slabs' = [slabs EXCEPT ![i].is_full = TRUE]
  PROVE  SlabInv'
  <1>1. DOMAIN slabs = Slabs
    BY DEF SlabInv, TypeOK
  <1>2. \A i \in Slabs :
          slabs[i] \in [is_full : BOOLEAN, start : Nat, end : Nat,
                        objects : [Slots(i) -> {NULL} \cup ObjectsOf(i)]]
    BY DEF SlabInv, TypeOK
  <1>3. DOMAIN slabs' = Slabs
    BY <1>1
  <1>3a. ASSUME NEW i \in Slabs
         PROVE  /\ slabs'[i].start = slabs[i].start
                /\ slabs'[i].end = slabs[i].end
                /\ slabs'[i].objects = slabs[i].objects
                /\ slabs'[i] \in [is_full : BOOLEAN, start : Nat, end : Nat,
                                  objects : [Slots(i) -> {NULL} \cup ObjectsOf(i)]]
    <2>. DEFINE slab == slabs[i]
                next == slabs'[i]
    <2>1. /\ slab \in [is_full : BOOLEAN, start : Nat, end : Nat,
                       objects : [Slots(i) -> {NULL} \cup ObjectsOf(i)]]
          /\ next = slab \/ next = [slab EXCEPT !.is_full = TRUE]
      BY <1>1, <1>2
    <2>. HIDE DEF slab, next
    <2>2. /\ next.start = slab.start /\ next.end = slab.end /\ next.objects = slab.objects
          /\ next \in [is_full : BOOLEAN, start : Nat, end : Nat,
                       objects : [Slots(i) -> {NULL} \cup ObjectsOf(i)]]
      <3>1. CASE next = slab
        BY <2>1, <3>1
      <3>2. CASE next = [slab EXCEPT !.is_full = TRUE]
        BY <2>1, <3>2
      <3>. QED  BY <2>1, <3>1, <3>2
    <2>. QED  BY <2>2 DEF slab, next
  <1>4. /\ \A i \in Slabs : ObjectsOf(i)' = ObjectsOf(i)
        /\ SlabsLaidOut'
    BY <1>3, <1>3a, LayoutKeepsSlabs DEF LayoutKept
  <1>5. \A i \in Slabs : FreeObjects(i)' = FreeObjects(i)
    BY <1>3a DEF FreeObjects
  <1>6. TypeOK'
    <2>1. ASSUME NEW i \in Slabs
          PROVE  slabs'[i] \in [is_full : BOOLEAN, start : Nat, end : Nat,
                                objects : [Slots(i) -> {NULL} \cup ObjectsOf(i)']]
      BY <1>4, <1>3a
    <2>. QED  BY <1>3, <2>1 DEF TypeOK, SlabInv
  <1>7. FreeOnce'
    BY <1>3a DEF FreeOnce, SlabInv
  <1>8. HeldFromSlab' /\ HeldOnce'
    BY <1>4, <1>5 DEF HeldFromSlab, HeldOnce, SlabInv
  <1>9. RangeConserved'
    BY <1>4, <1>5, <1>3a DEF RangeConserved, HeldPointers, SlabInv
  <1>. QED  BY <1>4, <1>6, <1>7, <1>8, <1>9 DEF SlabInv

\* One slot of a slab gets a new value.
SlotSet(i, slot, value) ==
  /\ DOMAIN slabs' = Slabs
  /\ \A j \in Slabs \ {i} : slabs'[j] = slabs[j]
  /\ slabs'[i] = [slabs[i] EXCEPT !.objects[slot] = value]

LEMMA SlotChange ==
  ASSUME SlabInv, ready, ready' = ready, NEW i \in Slabs, NEW slot \in Slots(i),
         NEW value \in {NULL} \cup ObjectsOf(i),
         SlotSet(i, slot, value)
  PROVE  /\ DOMAIN slabs' = Slabs
         /\ \A j \in Slabs : ObjectsOf(j)' = ObjectsOf(j)
         /\ SlabsLaidOut'
         /\ \A j \in Slabs :
              /\ slabs'[j].end = slabs[j].end
              /\ slabs'[j] \in [is_full : BOOLEAN, start : Nat, end : Nat,
                                objects : [Slots(j) -> {NULL} \cup ObjectsOf(j)']]
         /\ \A j \in Slabs \ {i} : slabs'[j].objects = slabs[j].objects
         /\ slabs'[i].objects[slot] = value
         /\ \A s \in Slots(i) \ {slot} : slabs'[i].objects[s] = slabs[i].objects[s]
  <1>2. \A j \in Slabs :
          slabs[j] \in [is_full : BOOLEAN, start : Nat, end : Nat,
                        objects : [Slots(j) -> {NULL} \cup ObjectsOf(j)]]
    BY DEF SlabInv, TypeOK
  <1>3. /\ DOMAIN slabs' = Slabs
        /\ \A j \in Slabs \ {i} : slabs'[j] = slabs[j]
        /\ slabs'[i] = [slabs[i] EXCEPT !.objects[slot] = value]
    BY DEF SlotSet
  <1>4. /\ slabs'[i].start = slabs[i].start /\ slabs'[i].end = slabs[i].end
        /\ slabs'[i].is_full = slabs[i].is_full
        /\ slabs'[i].objects = [slabs[i].objects EXCEPT ![slot] = value]
    <2>. DEFINE slab == slabs[i]
    <2>1. /\ slab \in [is_full : BOOLEAN, start : Nat, end : Nat,
                       objects : [Slots(i) -> {NULL} \cup ObjectsOf(i)]]
          /\ slabs'[i] = [slab EXCEPT !.objects[slot] = value]
      BY <1>2, <1>3
    <2>. HIDE DEF slab
    <2>2. /\ slabs'[i].start = slab.start /\ slabs'[i].end = slab.end
          /\ slabs'[i].is_full = slab.is_full
          /\ slabs'[i].objects = [slab.objects EXCEPT ![slot] = value]
      BY <2>1
    <2>. QED  BY <2>2 DEF slab
  <1>5. /\ \A j \in Slabs : ObjectsOf(j)' = ObjectsOf(j)
        /\ SlabsLaidOut'
    BY <1>3, <1>4, LayoutKeepsSlabs DEF LayoutKept
  <1>6. slabs[i].objects \in [Slots(i) -> {NULL} \cup ObjectsOf(i)]
    BY <1>2
  <1>7. slabs'[i].objects \in [Slots(i) -> {NULL} \cup ObjectsOf(i)]
    BY <1>4, <1>6
  <1>8. slabs'[i] \in [is_full : BOOLEAN, start : Nat, end : Nat,
                       objects : [Slots(i) -> {NULL} \cup ObjectsOf(i)]]
    BY <1>2, <1>3, <1>7
  <1>9. /\ slabs'[i].objects[slot] = value
        /\ \A s \in Slots(i) \ {slot} : slabs'[i].objects[s] = slabs[i].objects[s]
    BY <1>4, <1>6
  <1>10. \A j \in Slabs :
           /\ slabs'[j].end = slabs[j].end
           /\ slabs'[j] \in [is_full : BOOLEAN, start : Nat, end : Nat,
                             objects : [Slots(j) -> {NULL} \cup ObjectsOf(j)]]
    <2>. TAKE j \in Slabs
    <2>1. CASE j = i
      BY <1>4, <1>8, <2>1
    <2>2. CASE j # i
      BY <1>2, <1>3, <2>2
    <2>. QED  BY <2>1, <2>2
  <1>11. \A j \in Slabs \ {i} : slabs'[j].objects = slabs[j].objects
    BY <1>3
  <1>. QED  BY <1>3, <1>5, <1>9, <1>10, <1>11

LEMMA AllocateKeepsInv ==
  ASSUME SlabInv, NEW c \in Clients, NEW size \in Requests, Allocate(c, size)
  PROVE  SlabInv'
  <1>1. ready /\ ready' = ready /\ held[c] = NoObject
    BY DEF Allocate
  <1>2. PICK pointer \in {NULL} \cup UNION {FreeObjects(i) : i \in Slabs} :
          /\ slab_alloc(size, pointer)
          /\ held' = IF pointer = NULL THEN held
                     ELSE [held EXCEPT ![c] = [pointer |-> pointer, size |-> size]]
    BY DEF Allocate
  <1>3. CASE \/ slabs' = slabs /\ pointer = NULL
             \/ \E i \in Slabs : slabs' = [slabs EXCEPT ![i].is_full = TRUE] /\ pointer = NULL
    <2>1. held' = held
      BY <1>2, <1>3
    <2>. QED  BY <1>1, <1>3, <2>1, FlagKeepsInv
  <1>4. CASE \E i \in Slabs : /\ Size[i] = size
                              /\ \E slot \in Slots(i) :
                                   /\ find_free_object(i, slot)
                                   /\ pointer = slabs[i].objects[slot]
                                   /\ slabs' = [slabs EXCEPT ![i].objects[slot] = NULL]
    <2>0. PICK i \in Slabs :
            /\ Size[i] = size
            /\ \E slot \in Slots(i) :
                 /\ find_free_object(i, slot)
                 /\ pointer = slabs[i].objects[slot]
                 /\ slabs' = [slabs EXCEPT ![i].objects[slot] = NULL]
      BY <1>4
    <2>1. PICK slot \in Slots(i) :
            /\ Size[i] = size
            /\ find_free_object(i, slot)
            /\ pointer = slabs[i].objects[slot]
            /\ slabs' = [slabs EXCEPT ![i].objects[slot] = NULL]
      BY <2>0
    <2>2. TypeOK /\ SlabsLaidOut /\ FreeOnce /\ HeldFromSlab /\ HeldOnce /\ RangeConserved
      BY DEF SlabInv
    <2>3. pointer # NULL /\ pointer \in FreeObjects(i) /\ pointer \in ObjectsOf(i)
      BY <2>1, <2>2, SlotObjects DEF find_free_object
    <2>4. held' = [held EXCEPT ![c] = [pointer |-> pointer, size |-> size]]
      BY <1>2, <2>3
    <2>5. /\ DOMAIN slabs' = Slabs
          /\ \A j \in Slabs : ObjectsOf(j)' = ObjectsOf(j)
          /\ SlabsLaidOut'
          /\ \A j \in Slabs :
               /\ slabs'[j].end = slabs[j].end
               /\ slabs'[j] \in [is_full : BOOLEAN, start : Nat, end : Nat,
                                 objects : [Slots(j) -> {NULL} \cup ObjectsOf(j)]]
          /\ \A j \in Slabs \ {i} : slabs'[j].objects = slabs[j].objects
          /\ slabs'[i].objects[slot] = NULL
          /\ \A s \in Slots(i) \ {slot} : slabs'[i].objects[s] = slabs[i].objects[s]
      <3>1. NULL \in {NULL} \cup ObjectsOf(i)
        OBVIOUS
      <3>2. SlotSet(i, slot, NULL)
        BY <2>1, <2>2 DEF SlotSet, TypeOK
      <3>. QED  BY <1>1, <3>1, <3>2, SlotChange, Zenon
    <2>6. \A j \in Slabs \ {i} : FreeObjects(j)' = FreeObjects(j)
      BY <2>5 DEF FreeObjects
    <2>7. FreeObjects(i)' = FreeObjects(i) \ {pointer}
      BY <2>1, <2>2, <2>3, <2>5 DEF FreeObjects, FreeOnce
    <2>8. /\ held \in [Clients -> [pointer : Nat, size : Requests \cup {0}]]
          /\ pointer \in Nat
      BY <2>2, <2>3, ObjectsInside DEF TypeOK
    <2>9. /\ held' \in [Clients -> [pointer : Nat, size : Requests \cup {0}]]
          /\ held'[c] = [pointer |-> pointer, size |-> size]
          /\ \A d \in Clients \ {c} : held'[d] = held[d]
      BY <2>4, <2>8
    <2>10. TypeOK'
      <3>1. \A j \in Slabs :
              slabs'[j] \in [is_full : BOOLEAN, start : Nat, end : Nat,
                             objects : [Slots(j) -> {NULL} \cup ObjectsOf(j)']]
        BY <2>5
      <3>. QED  BY <1>1, <2>2, <2>5, <2>9, <3>1 DEF TypeOK
    <2>11. FreeOnce'
      <3>1. ASSUME NEW j \in Slabs, NEW s \in Slots(j), NEW t \in Slots(j), s # t,
                   slabs'[j].objects[s] # NULL
            PROVE  slabs'[j].objects[s] # slabs'[j].objects[t]
        <4>1. CASE j # i
          BY <2>2, <2>5, <3>1, <4>1 DEF FreeOnce
        <4>2. CASE j = i
          <5>1. s # slot /\ slabs'[i].objects[s] = slabs[i].objects[s]
            BY <2>5, <3>1, <4>2
          <5>2. CASE t = slot
            BY <2>5, <3>1, <4>2, <5>2
          <5>3. CASE t # slot
            <6>1. slabs'[i].objects[t] = slabs[i].objects[t]
              BY <2>5, <3>1, <4>2, <5>3
            <6>. QED  BY <2>2, <3>1, <4>2, <5>1, <6>1 DEF FreeOnce
          <5>. QED  BY <5>2, <5>3
        <4>. QED  BY <4>1, <4>2
      <3>. QED  BY <3>1 DEF FreeOnce
    <2>12. HeldFromSlab'
      <3>1. ASSUME NEW d \in Clients, held'[d] # NoObject
            PROVE  \E j \in Slabs : /\ held'[d].size = Size[j]
                                    /\ held'[d].pointer \in ObjectsOf(j)' \ FreeObjects(j)'
        <4>1. CASE d = c
          <5>1. /\ held'[d].size = Size[i]
                /\ held'[d].pointer \in ObjectsOf(i)' \ FreeObjects(i)'
            BY <2>1, <2>3, <2>5, <2>7, <2>9, <4>1
          <5>. QED  BY <5>1
        <4>2. CASE d # c
          <5>1. held'[d] = held[d] /\ held[d] # NoObject
            BY <2>9, <3>1, <4>2
          <5>2. PICK j \in Slabs : /\ held[d].size = Size[j]
                                   /\ held[d].pointer \in ObjectsOf(j) \ FreeObjects(j)
            BY <2>2, <5>1 DEF HeldFromSlab
          <5>3. FreeObjects(j)' \subseteq FreeObjects(j)
            BY <2>6, <2>7
          <5>. QED  BY <2>5, <5>1, <5>2, <5>3
        <4>. QED  BY <4>1, <4>2
      <3>. QED  BY <3>1 DEF HeldFromSlab
    <2>13. HeldOnce'
      <3>1. ASSUME NEW d \in Clients, d # c, held[d] # NoObject
            PROVE  held[d].pointer # pointer
        <4>1. PICK j \in Slabs : held[d].pointer \in ObjectsOf(j) \ FreeObjects(j)
          BY <2>2, <3>1 DEF HeldFromSlab
        <4>2. CASE j = i
          BY <2>3, <4>1, <4>2
        <4>3. CASE j # i
          BY <1>1, <2>2, <2>3, <4>1, <4>3, SlabOfObject
        <4>. QED  BY <4>2, <4>3
      <3>2. pointer # NoObject.pointer
        BY <2>3 DEF NoObject
      <3>. QED  BY <2>2, <2>9, <3>1, <3>2 DEF HeldOnce
    <2>14. RangeConserved'
      <3>1. HeldPointers \cup {pointer} \subseteq HeldPointers'
        <4>1. held'[c] # NoObject /\ held'[c].pointer = pointer
          BY <2>3, <2>9 DEF NoObject
        <4>2. \A d \in Clients : held[d] # NoObject => d # c /\ held'[d] = held[d]
          BY <1>1, <2>9
        <4>. QED  BY <4>1, <4>2 DEF HeldPointers
      <3>2. \A j \in Slabs : FreeObjects(j) \subseteq FreeObjects(j)' \cup {pointer}
        BY <2>6, <2>7
      <3>. QED  BY <1>1, <2>2, <2>5, <3>1, <3>2 DEF RangeConserved
    <2>. QED  BY <2>5, <2>10, <2>11, <2>12, <2>13, <2>14 DEF SlabInv
  <1>. QED  BY <1>2, <1>3, <1>4 DEF slab_alloc

\* An object in the address range of its slab goes back to that slab, into
\* its first NULL slot; an object above the range goes nowhere.
LEMMA FreedTo ==
  ASSUME SlabInv, ready, NEW i \in Slabs, NEW p \in ObjectsOf(i) \ FreeObjects(i),
         slab_free(p)
  PROVE  \/ \E slot \in Slots(i) : slabs[i].objects[slot] = NULL /\ SlotSet(i, slot, p)
         \/ /\ ~(p <= slabs[i].end)
            /\ DOMAIN slabs' = Slabs /\ \A j \in Slabs : slabs'[j] = slabs[j]
  <1>1. TypeOK /\ SlabsLaidOut /\ FreeOnce
    BY DEF SlabInv
  <1>2. /\ p \in Nat /\ slabs[i].start \in Nat /\ slabs[i].start <= p
        /\ (p - slabs[i].start + Size[i]) % Size[i] = 0
    BY <1>1, ObjectsInside
  <1>3. p # NULL
    <2>1. slabs[i].start > NULL
      BY <1>1 DEF SlabsLaidOut
    <2>. QED  BY <1>2, <2>1 DEF NULL
  <1>4. \A j \in Slabs \ {i} : ~IsObjectOf(j, p)
    BY <1>1, SlabOfObject
  <1>5. IsObjectOf(i, p) <=> p <= slabs[i].end
    BY <1>2 DEF IsObjectOf
  <1>6. ~AllFree(i)
    BY <1>1, MissingObjectLeavesSlot
  <1>7. Receives(i, p)
    BY <1>4, <1>6 DEF Receives
  <1>8. DOMAIN slabs' = Slabs /\ \A j \in Slabs \ {i} : slabs'[j] = slabs[j]
    BY <1>4 DEF slab_free
  <1>9. CASE p <= slabs[i].end
    <2>1. slabs'[i] = [slabs[i] EXCEPT !.objects =
                         [s \in Slots(i) |-> IF find_allocated_object(i, s) THEN p ELSE @[s]]]
      BY <1>3, <1>5, <1>7, <1>9 DEF slab_free
    <2>2. PICK slot \in Slots(i) : \A other \in Slots(i) :
            find_allocated_object(i, other) <=> other = slot
      BY <1>1, <1>6, FirstNullSlot
    <2>3. slabs[i].objects[slot] = NULL
      BY <2>2 DEF find_allocated_object
    <2>4. slabs[i].objects \in [Slots(i) -> {NULL} \cup ObjectsOf(i)]
      BY <1>1 DEF TypeOK
    <2>5. [s \in Slots(i) |-> IF find_allocated_object(i, s) THEN p ELSE slabs[i].objects[s]]
            = [slabs[i].objects EXCEPT ![slot] = p]
      BY <2>2, <2>4
    <2>6. slabs'[i] = [slabs[i] EXCEPT !.objects[slot] = p]
      BY <2>1, <2>5
    <2>. QED  BY <1>8, <2>3, <2>6 DEF SlotSet
  <1>10. CASE ~(p <= slabs[i].end)
    <2>1. slabs'[i] = slabs[i]
      BY <1>5, <1>10 DEF slab_free
    <2>. QED  BY <1>8, <1>10, <2>1
  <1>. QED  BY <1>9, <1>10

LEMMA ReleaseKeepsInv ==
  ASSUME SlabInv, NEW c \in Clients, Release(c)
  PROVE  SlabInv'
  <1>1. /\ ready /\ ready' = ready /\ held[c] # NoObject
        /\ slab_free(held[c].pointer)
        /\ held' = [held EXCEPT ![c] = NoObject]
    BY DEF Release
  <1>2. TypeOK /\ SlabsLaidOut /\ FreeOnce /\ HeldFromSlab /\ HeldOnce /\ RangeConserved
    BY DEF SlabInv
  <1>3. PICK i \in Slabs : held[c].pointer \in ObjectsOf(i) \ FreeObjects(i)
    BY <1>1, <1>2 DEF HeldFromSlab
  <1>. DEFINE p == held[c].pointer
  <1>4. p \in Nat /\ slabs[i].start > NULL /\ slabs[i].start \in Nat /\ slabs[i].start <= p
    BY <1>1, <1>2, <1>3, ObjectsInside DEF SlabsLaidOut
  <1>5. p # NULL
    BY <1>4 DEF NULL
  <1>6. /\ held' \in [Clients -> [pointer : Nat, size : Requests \cup {0}]]
        /\ held'[c] = NoObject
        /\ \A d \in Clients \ {c} : held'[d] = held[d]
    BY <1>1, <1>2 DEF TypeOK, NoObject, NULL
  <1>7. HeldOnce'
    <2>1. \A d \in Clients : held[d] # NoObject => held[d].pointer # NoObject.pointer
      <3>. TAKE d \in Clients
      <3>1. SUFFICES ASSUME held[d] # NoObject PROVE held[d].pointer # NoObject.pointer
        OBVIOUS
      <3>2. PICK j \in Slabs : held[d].pointer \in ObjectsOf(j)
        BY <1>2, <3>1 DEF HeldFromSlab
      <3>3. /\ held[d].pointer \in Nat /\ slabs[j].start > NULL
            /\ slabs[j].start \in Nat /\ slabs[j].start <= held[d].pointer
        BY <1>1, <1>2, <3>2, ObjectsInside DEF SlabsLaidOut
      <3>. QED  BY <3>3 DEF NoObject, NULL
    <2>. QED  BY <1>2, <1>6, <2>1 DEF HeldOnce
  <1>8. \A d \in Clients \ {c} : held[d] # NoObject => held[d].pointer # p
    BY <1>1, <1>2 DEF HeldOnce
  <1>9. HeldPointers \subseteq HeldPointers' \cup {p}
    BY <1>6 DEF HeldPointers
  <1>10. CASE \E slot \in Slots(i) : slabs[i].objects[slot] = NULL /\ SlotSet(i, slot, p)
    <2>1. PICK slot \in Slots(i) : slabs[i].objects[slot] = NULL /\ SlotSet(i, slot, p)
      BY <1>10
    <2>2. p \in {NULL} \cup ObjectsOf(i)
      BY <1>3
    <2>3. /\ DOMAIN slabs' = Slabs
          /\ \A j \in Slabs : ObjectsOf(j)' = ObjectsOf(j)
          /\ SlabsLaidOut'
          /\ \A j \in Slabs :
               /\ slabs'[j].end = slabs[j].end
               /\ slabs'[j] \in [is_full : BOOLEAN, start : Nat, end : Nat,
                                 objects : [Slots(j) -> {NULL} \cup ObjectsOf(j)]]
          /\ \A j \in Slabs \ {i} : slabs'[j].objects = slabs[j].objects
          /\ slabs'[i].objects[slot] = p
          /\ \A s \in Slots(i) \ {slot} : slabs'[i].objects[s] = slabs[i].objects[s]
      <3>. HIDE DEF p
      <3>. QED  BY <1>1, <2>1, <2>2, SlotChange, Zenon
    <2>4. \A j \in Slabs \ {i} : FreeObjects(j)' = FreeObjects(j)
      BY <2>3 DEF FreeObjects
    <2>5. FreeObjects(i)' = FreeObjects(i) \cup {p}
      BY <1>5, <2>1, <2>3 DEF FreeObjects
    <2>6. TypeOK'
      <3>1. \A j \in Slabs :
              slabs'[j] \in [is_full : BOOLEAN, start : Nat, end : Nat,
                             objects : [Slots(j) -> {NULL} \cup ObjectsOf(j)']]
        BY <2>3
      <3>. QED  BY <1>1, <1>2, <1>6, <2>3, <3>1 DEF TypeOK
    <2>7. FreeOnce'
      <3>1. ASSUME NEW j \in Slabs, NEW s \in Slots(j), NEW t \in Slots(j), s # t,
                   slabs'[j].objects[s] # NULL
            PROVE  slabs'[j].objects[s] # slabs'[j].objects[t]
        <4>1. CASE j # i
          BY <1>2, <2>3, <3>1, <4>1 DEF FreeOnce
        <4>2. CASE j = i
          <5>1. \A other \in Slots(i) : slabs[i].objects[other] # p
            BY <1>3, <1>5 DEF FreeObjects
          <5>2. CASE s = slot
            BY <2>3, <3>1, <4>2, <5>1, <5>2
          <5>3. CASE t = slot
            BY <2>3, <3>1, <4>2, <5>1, <5>3
          <5>4. CASE s # slot /\ t # slot
            <6>1. /\ slabs'[i].objects[s] = slabs[i].objects[s]
                  /\ slabs'[i].objects[t] = slabs[i].objects[t]
              BY <2>3, <3>1, <4>2, <5>4
            <6>. QED  BY <1>2, <3>1, <4>2, <6>1 DEF FreeOnce
          <5>. QED  BY <5>2, <5>3, <5>4
        <4>. QED  BY <4>1, <4>2
      <3>. QED  BY <3>1 DEF FreeOnce
    <2>8. HeldFromSlab'
      <3>1. ASSUME NEW d \in Clients, held'[d] # NoObject
            PROVE  \E j \in Slabs : /\ held'[d].size = Size[j]
                                    /\ held'[d].pointer \in ObjectsOf(j)' \ FreeObjects(j)'
        <4>1. d # c /\ held'[d] = held[d] /\ held[d] # NoObject
          BY <1>6, <3>1
        <4>2. PICK j \in Slabs : /\ held[d].size = Size[j]
                                 /\ held[d].pointer \in ObjectsOf(j) \ FreeObjects(j)
          BY <1>2, <4>1 DEF HeldFromSlab
        <4>3. held[d].pointer # p
          BY <1>8, <4>1
        <4>4. held[d].pointer \notin FreeObjects(j)'
          BY <2>4, <2>5, <4>2, <4>3
        <4>. QED  BY <2>3, <4>1, <4>2, <4>4
      <3>. QED  BY <3>1 DEF HeldFromSlab
    <2>9. RangeConserved'
      <3>1. ASSUME NEW j \in Slabs, NEW q \in ObjectsOf(j)', q <= slabs'[j].end
            PROVE  q \in FreeObjects(j)' \cup HeldPointers'
        <4>1. q \in ObjectsOf(j) /\ q <= slabs[j].end
          BY <2>3, <3>1
        <4>2. q \in FreeObjects(j) \cup HeldPointers
          BY <1>1, <1>2, <4>1 DEF RangeConserved
        <4>3. CASE q = p
          <5>1. j = i
            BY <1>1, <1>2, <1>3, <4>1, <4>3, SlabOfObject
          <5>. QED  BY <2>5, <4>3, <5>1
        <4>4. CASE q # p
          BY <1>9, <2>4, <2>5, <4>2, <4>4
        <4>. QED  BY <4>3, <4>4
      <3>. QED  BY <3>1 DEF RangeConserved
    <2>. QED  BY <1>7, <2>3, <2>6, <2>7, <2>8, <2>9 DEF SlabInv
  <1>11. CASE /\ ~(p <= slabs[i].end)
              /\ DOMAIN slabs' = Slabs /\ \A j \in Slabs : slabs'[j] = slabs[j]
    <2>1. /\ \A j \in Slabs : ObjectsOf(j)' = ObjectsOf(j)
          /\ SlabsLaidOut'
      BY <1>1, <1>11, LayoutKeepsSlabs DEF LayoutKept
    <2>2. \A j \in Slabs : FreeObjects(j)' = FreeObjects(j)
      BY <1>11 DEF FreeObjects
    <2>3. TypeOK'
      <3>1. \A j \in Slabs :
              slabs'[j] \in [is_full : BOOLEAN, start : Nat, end : Nat,
                             objects : [Slots(j) -> {NULL} \cup ObjectsOf(j)']]
        BY <1>2, <1>11, <2>1 DEF TypeOK
      <3>. QED  BY <1>1, <1>2, <1>6, <1>11, <3>1 DEF TypeOK
    <2>4. FreeOnce'
      BY <1>2, <1>11 DEF FreeOnce
    <2>5. HeldFromSlab'
      BY <1>2, <1>6, <2>1, <2>2 DEF HeldFromSlab
    <2>6. RangeConserved'
      <3>1. ASSUME NEW j \in Slabs, NEW q \in ObjectsOf(j)', q <= slabs'[j].end
            PROVE  q \in FreeObjects(j)' \cup HeldPointers'
        <4>1. q \in ObjectsOf(j) /\ q <= slabs[j].end
          BY <1>11, <2>1, <3>1
        <4>2. q \in FreeObjects(j) \cup HeldPointers
          BY <1>1, <1>2, <4>1 DEF RangeConserved
        <4>3. q # p
          <5>1. CASE j = i
            BY <1>11, <4>1, <5>1
          <5>2. CASE j # i
            BY <1>1, <1>2, <1>3, <4>1, <5>2, SlabOfObject
          <5>. QED  BY <5>1, <5>2
        <4>. QED  BY <1>9, <2>2, <4>2, <4>3
      <3>. QED  BY <3>1 DEF RangeConserved
    <2>. QED  BY <1>7, <2>1, <2>3, <2>4, <2>5, <2>6 DEF SlabInv
  <1>. QED  BY <1>1, <1>3, <1>10, <1>11, FreedTo
----------------------------------------------------------------------------
(* The theorems.                                                           *)

LEMMA InitInv == Init => SlabInv
  <1>. SUFFICES ASSUME Init PROVE SlabInv
    OBVIOUS
  <1>1. /\ ready = FALSE /\ DOMAIN slabs = Slabs
        /\ \A i \in Slabs : slabs[i] = [is_full |-> FALSE, start |-> NULL, end |-> NULL,
                                        objects |-> [slot \in Slots(i) |-> NULL]]
    BY DEF Init
  <1>2. \A c \in Clients : held[c] = NoObject
    BY DEF Init
  <1>3. TypeOK
    <2>1. held \in [Clients -> [pointer : Nat, size : Requests \cup {0}]]
      BY DEF Init, NoObject, NULL
    <2>2. NULL \in Nat
      BY DEF NULL
    <2>3. ASSUME NEW i \in Slabs
          PROVE  slabs[i] \in [is_full : BOOLEAN, start : Nat, end : Nat,
                               objects : [Slots(i) -> {NULL} \cup ObjectsOf(i)]]
      <3>1. [slot \in Slots(i) |-> NULL] \in [Slots(i) -> {NULL} \cup ObjectsOf(i)]
        OBVIOUS
      <3>2. slabs[i] = [is_full |-> FALSE, start |-> NULL, end |-> NULL,
                        objects |-> [slot \in Slots(i) |-> NULL]]
        BY <1>1
      <3>. QED  BY <2>2, <3>1, <3>2
    <2>. QED  BY <1>1, <2>1, <2>3 DEF TypeOK
  <1>4. \A i \in Slabs : FreeObjects(i) = {}
    BY <1>1 DEF FreeObjects
  <1>5. SlabsLaidOut
    BY <1>1, <1>2, <1>4 DEF SlabsLaidOut
  <1>6. FreeOnce /\ HeldFromSlab /\ HeldOnce /\ RangeConserved
    BY <1>1, <1>2 DEF FreeOnce, HeldFromSlab, HeldOnce, RangeConserved
  <1>. QED  BY <1>3, <1>5, <1>6 DEF SlabInv

LEMMA NextKeepsInv == NoPageRefused /\ SlabInv /\ [Next]_vars => SlabInv'
  <1>. SUFFICES ASSUME NoPageRefused, SlabInv, [Next]_vars PROVE SlabInv'
    OBVIOUS
  <1>1. CASE Setup
    BY <1>1, SetupKeepsInv
  <1>2. ASSUME NEW c \in Clients, NEW size \in Requests, Allocate(c, size) PROVE SlabInv'
    BY <1>2, AllocateKeepsInv
  <1>3. ASSUME NEW c \in Clients, Release(c) PROVE SlabInv'
    BY <1>3, ReleaseKeepsInv
  <1>4. CASE UNCHANGED vars
    BY <1>4 DEF vars, SlabInv, TypeOK, SlabsLaidOut, FreeOnce, HeldFromSlab, HeldOnce,
             RangeConserved, ObjectsOf, FreeObjects, HeldPointers
  <1>. QED  BY <1>1, <1>2, <1>3, <1>4 DEF Next

LEMMA Invariance == ASSUME NoPageRefused PROVE Spec => []SlabInv
  <1>1. SlabInv /\ [Next]_vars => SlabInv'
    BY NextKeepsInv
  <1>. QED  BY InitInv, <1>1, PTL DEF Spec

\* The state of slab_init, slab_alloc and slab_free keeps its type: a slot
\* holds NULL or an object of its own slab, whatever was freed into it.
THEOREM SlotsHoldOwnObjects == ASSUME NoPageRefused PROVE Spec => []TypeOK
  <1>1. SlabInv => TypeOK
    BY DEF SlabInv
  <1>. QED  BY Invariance, <1>1, PTL

\* slab_alloc never hands out a byte that a client holds or that is free in
\* another slot, for every order of allocations and frees.
THEOREM ObjectsNeverOverlap == ASSUME NoPageRefused PROVE Spec => []NoOverlap
  BY Invariance, InvImpliesNoOverlap, PTL

\* No object of an address range is lost: slab_free finds a NULL slot for
\* each, because a slab has as many slots as objects.
THEOREM RangeNeverLoses == ASSUME NoPageRefused PROVE Spec => []RangeConserved
  <1>1. SlabInv => RangeConserved
    BY DEF SlabInv
  <1>. QED  BY Invariance, <1>1, PTL

\* slab_free does with an object of the address range what its comment says:
\* the object is free afterwards.  Above the range it does not (SlabLeak.cfg).
THEOREM RangeIsFreed ==
  ASSUME NoPageRefused
  PROVE  Spec => [][\A c \in Clients, i \in Slabs :
                      /\ held[c] # NoObject /\ held'[c] = NoObject
                      /\ held[c].pointer \in ObjectsOf(i)
                      /\ held[c].pointer <= slabs[i].end
                      => held[c].pointer \in FreeObjects(i)']_vars
  <1>. DEFINE Freed == \A c \in Clients, i \in Slabs :
                         /\ held[c] # NoObject /\ held'[c] = NoObject
                         /\ held[c].pointer \in ObjectsOf(i)
                         /\ held[c].pointer <= slabs[i].end
                         => held[c].pointer \in FreeObjects(i)'
  <1>1. SlabInv /\ [Next]_vars => [Freed]_vars
    <2>. SUFFICES ASSUME SlabInv, Next,
                         NEW c \in Clients, NEW i \in Slabs,
                         held[c] # NoObject, held'[c] = NoObject,
                         held[c].pointer \in ObjectsOf(i),
                         held[c].pointer <= slabs[i].end
                  PROVE  held[c].pointer \in FreeObjects(i)'
      OBVIOUS
    <2>. DEFINE p == held[c].pointer
    <2>1. TypeOK /\ SlabsLaidOut /\ HeldFromSlab
      BY DEF SlabInv
    <2>2. held \in [Clients -> [pointer : Nat, size : Requests \cup {0}]]
      BY <2>1 DEF TypeOK
    <2>3. ~Setup
      BY DEF Setup
    <2>4. \A d \in Clients, size \in Requests : ~Allocate(d, size)
      BY <2>2 DEF Allocate
    <2>5. PICK d \in Clients : Release(d)
      BY <2>3, <2>4 DEF Next
    <2>6. d = c
      BY <2>2, <2>5 DEF Release
    <2>7. ready /\ slab_free(p)
      BY <2>5, <2>6 DEF Release
    <2>8. PICK j \in Slabs : p \in ObjectsOf(j) \ FreeObjects(j)
      BY <2>1 DEF HeldFromSlab
    <2>9. j = i
      BY <2>1, <2>7, <2>8, SlabOfObject
    <2>10. PICK slot \in Slots(i) : SlotSet(i, slot, p)
      BY <2>7, <2>8, <2>9, FreedTo
    <2>11. slabs[i].start > NULL /\ slabs[i].start \in Nat /\ slabs[i].start <= p /\ p \in Nat
      BY <2>1, <2>7, ObjectsInside DEF SlabsLaidOut
    <2>12. p # NULL
      BY <2>11 DEF NULL
    <2>13. p \in {NULL} \cup ObjectsOf(i) /\ ready' = ready
      BY <2>5 DEF Release
    <2>14. slabs'[i].objects[slot] = p
      <3>. HIDE DEF p
      <3>. QED  BY <2>7, <2>10, <2>13, SlotChange, Zenon
    <2>. QED  BY <2>12, <2>14 DEF FreeObjects
  <1>. QED  BY Invariance, <1>1, PTL DEF Spec
=============================================================================
