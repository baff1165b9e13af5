-------------------------------- MODULE Slab --------------------------------
(***************************************************************************)
(* The slab allocator of KnutOS: kernel/memory/slab.c.                     *)
(*                                                                         *)
(* Addresses are numbers of bytes and NULL is the address 0.  The pages    *)
(* slab_init takes from pmm_alloc are a parameter: a sequence of page      *)
(* addresses, in which NULL is a page pmm_alloc refused.                   *)
(***************************************************************************)
EXTENDS Integers, Sequences, FiniteSets

CONSTANTS
  Clients,      \* the callers that hold objects, one each
  Requests,     \* the sizes the clients ask for
  SlabCount,    \* SLAB_COUNT (11)
  Size,         \* Size[i] = pow(2, i + 1), the object size of slab i
  MaxSlabSize,  \* MAX_SLAB_SIZE (2048), the bytes of each slab
  RangeBytes,   \* the bytes slab_init counts as a slab's address range (1024)
  PageBytes,    \* PAGE_SIZE (4096)
  AddrBytes,    \* bytes of the address space (2^64)
  PageSupplies  \* the pages pmm_alloc(1) may hand to slab_init

NULL == 0
Slabs == 0 .. (SlabCount - 1)
Slots(i) == 0 .. ((MaxSlabSize \div Size[i]) - 1)

ASSUME SlabAssumption ==
  /\ SlabCount \in Nat /\ MaxSlabSize \in Nat \ {0} /\ AddrBytes \in Nat
  /\ RangeBytes \in 0 .. MaxSlabSize
  /\ Size \in [Slabs -> Nat \ {0}]
  /\ \A i \in Slabs : MaxSlabSize % Size[i] = 0
  /\ \A i, j \in Slabs : i # j => Size[i] # Size[j]
  /\ PageBytes \in Nat \ {0} /\ PageBytes % MaxSlabSize = 0

\* A page pmm_alloc returns is aligned, and it returns none twice.
ASSUME SupplyAssumption ==
  \A pages \in PageSupplies :
    /\ pages \in Seq(Nat)
    /\ SlabCount * MaxSlabSize <= Len(pages) * PageBytes
    /\ \A k \in DOMAIN pages : pages[k] % PageBytes = 0 /\ pages[k] + PageBytes <= AddrBytes
    /\ \A k, l \in DOMAIN pages : k # l /\ pages[k] # NULL => pages[k] # pages[l]

VARIABLES
  ready,  \* slab_init has run
  slabs,  \* the slabs: full flag, address range and objects, free ones by address
  held    \* the object each client holds

vars == <<ready, slabs, held>>
----------------------------------------------------------------------------
(* slab_init.                                                              *)

\* Objects are cut from a page until it is used up: slab i is the slab of
\* number i % n of page i \div n, with n slabs to a page.
ObjectAt(pages, i, slot) ==
  LET n == PageBytes \div MaxSlabSize
  IN pages[(i \div n) + 1] + (i % n) * MaxSlabSize + slot * Size[i]

slab_init(pages) ==
  slabs' = [i \in Slabs |->
              [is_full |-> FALSE,
               start   |-> ObjectAt(pages, i, 0),
               end     |-> (ObjectAt(pages, i, 0) + RangeBytes - Size[i]) % AddrBytes,
               objects |-> [slot \in Slots(i) |-> ObjectAt(pages, i, slot)]]]
----------------------------------------------------------------------------
(* slab_alloc and slab_free.                                               *)

\* find_free_object and find_allocated_object: the first slot that is not
\* NULL, that is NULL; -1 is the absence of such a slot.
find_free_object(i, slot) ==
  /\ slabs[i].objects[slot] # NULL
  /\ \A other \in Slots(i) : other < slot => slabs[i].objects[other] = NULL
find_allocated_object(i, slot) ==
  /\ slabs[i].objects[slot] = NULL
  /\ \A other \in Slots(i) : other < slot => slabs[i].objects[other] # NULL

AllAllocated(i) == \A slot \in Slots(i) : slabs[i].objects[slot] = NULL
AllFree(i)      == \A slot \in Slots(i) : slabs[i].objects[slot] # NULL

\* Mutant: the object that is returned stays in its slot.
slab_alloc_kept(size, pointer) ==
  \E i \in Slabs : \E slot \in Slots(i) :
    /\ Size[i] = size /\ ~slabs[i].is_full /\ find_free_object(i, slot)
    /\ pointer = slabs[i].objects[slot]
    /\ UNCHANGED slabs

slab_alloc(size, pointer) ==
  \/ /\ \A i \in Slabs : Size[i] = size => slabs[i].is_full
     /\ pointer = NULL
     /\ UNCHANGED slabs
  \/ \E i \in Slabs :
       /\ Size[i] = size /\ ~slabs[i].is_full
       /\ \/ /\ AllAllocated(i)
             /\ pointer = NULL
             /\ slabs' = [slabs EXCEPT ![i].is_full = TRUE]
          \/ \E slot \in Slots(i) :
               /\ find_free_object(i, slot)
               /\ pointer = slabs[i].objects[slot]
               /\ slabs' = [slabs EXCEPT ![i].objects[slot] = NULL]

\* Mutant: the last object of the range does not belong to it.
IsObjectOfShortRange(i, pointer) ==
  /\ slabs[i].start <= pointer /\ pointer < slabs[i].end
  /\ (pointer - slabs[i].start + Size[i]) % Size[i] = 0

\* pointer lies in the address range of slab i, on the boundary of an object.
IsObjectOf(i, pointer) ==
  /\ slabs[i].start <= pointer /\ pointer <= slabs[i].end
  /\ (pointer - slabs[i].start + Size[i]) % Size[i] = 0

\* Every slab that matches gets the pointer back, up to one with no slot.
Receives(i, pointer) ==
  \A j \in Slabs : j <= i /\ IsObjectOf(j, pointer) => ~AllFree(j)

\* Mutant: ptr_without_base is stored instead of ptr.
slab_free_without_base(pointer) ==
  slabs' = [i \in Slabs |->
             IF pointer = NULL \/ ~IsObjectOf(i, pointer) \/ ~Receives(i, pointer)
               THEN slabs[i]
             ELSE [slabs[i] EXCEPT !.objects =
                    [slot \in Slots(i) |->
                       IF find_allocated_object(i, slot)
                         THEN pointer - slabs[i].start + Size[i] ELSE @[slot]]]]

slab_free(pointer) ==
  slabs' = [i \in Slabs |->
             IF pointer = NULL \/ ~IsObjectOf(i, pointer) \/ ~Receives(i, pointer)
               THEN slabs[i]
             ELSE [slabs[i] EXCEPT !.objects =
                    [slot \in Slots(i) |->
                       IF find_allocated_object(i, slot) THEN pointer ELSE @[slot]]]]
----------------------------------------------------------------------------
(* The clients: each frees the object it holds, once.                      *)

FreeObjects(i) == {slabs[i].objects[slot] : slot \in Slots(i)} \ {NULL}
NoObject == [pointer |-> NULL, size |-> 0]

Setup ==
  /\ ~ready /\ ready' = TRUE
  /\ \E pages \in PageSupplies : slab_init(pages)
  /\ UNCHANGED held

Allocate(c, size) ==
  /\ ready /\ held[c] = NoObject
  /\ \E pointer \in {NULL} \cup UNION {FreeObjects(i) : i \in Slabs} :
       /\ slab_alloc(size, pointer)
       /\ held' = IF pointer = NULL THEN held
                  ELSE [held EXCEPT ![c] = [pointer |-> pointer, size |-> size]]
  /\ UNCHANGED ready

Release(c) ==
  /\ ready /\ held[c] # NoObject
  /\ slab_free(held[c].pointer)
  /\ held' = [held EXCEPT ![c] = NoObject]
  /\ UNCHANGED ready

Init ==
  /\ ready = FALSE
  /\ slabs = [i \in Slabs |-> [is_full |-> FALSE, start |-> NULL, end |-> NULL,
                               objects |-> [slot \in Slots(i) |-> NULL]]]
  /\ held = [c \in Clients |-> NoObject]

Next ==
  \/ Setup
  \/ \E c \in Clients : \/ \E size \in Requests : Allocate(c, size)
                        \/ Release(c)

Spec == Init /\ [][Next]_vars
----------------------------------------------------------------------------
(* Properties.                                                             *)

Bytes(pointer, size) == pointer .. (pointer + size - 1)
HeldBytes(c) == Bytes(held[c].pointer, held[c].size)
HeldPointers == {held[c].pointer : c \in {d \in Clients : held[d] # NoObject}}

ObjectsOf(i) == {slabs[i].start + slot * Size[i] : slot \in Slots(i)}

\* Each variable has its type; a slot holds NULL or an object of its slab.
TypeOK ==
  /\ ready \in BOOLEAN
  /\ DOMAIN slabs = Slabs
  /\ \A i \in Slabs :
       slabs[i] \in [is_full : BOOLEAN, start : Nat, end : Nat,
                     objects : [Slots(i) -> {NULL} \cup ObjectsOf(i)]]
  /\ held \in [Clients -> [pointer : Nat, size : Requests \cup {0}]]

\* No byte belongs to two objects that are held or free, however slots and
\* pointers were permuted by frees in another order than the allocations.
NoOverlap ==
  /\ \A c, d \in Clients : c # d => HeldBytes(c) \cap HeldBytes(d) = {}
  /\ \A c \in Clients, i \in Slabs : \A pointer \in FreeObjects(i) :
       Bytes(pointer, Size[i]) \cap HeldBytes(c) = {}
  /\ \A i, j \in Slabs : \A s \in Slots(i), t \in Slots(j) :
       LET p == slabs[i].objects[s]
           q == slabs[j].objects[t]
       IN <<i, s>> # <<j, t>> /\ p # NULL /\ q # NULL
            => Bytes(p, Size[i]) \cap Bytes(q, Size[j]) = {}

\* An object of a slab's address range is free or held, never lost: when it
\* is freed, a slot is NULL and the slab takes it back.
RangeConserved ==
  ready => \A i \in Slabs : \A pointer \in ObjectsOf(i) :
    pointer <= slabs[i].end => pointer \in FreeObjects(i) \cup HeldPointers

\* "search for a slab of matching size according to the ptr paramater, free
\* it" (slab.c:145-146): an object a client frees is free afterwards.
FreedObjectIsFree ==
  [][\A c \in Clients : held[c] # NoObject /\ held'[c] = NoObject
       => \E i \in Slabs : held[c].pointer \in FreeObjects(i)']_vars
=============================================================================
