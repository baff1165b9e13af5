--------------------------- MODULE PageAllocator ---------------------------
(***************************************************************************)
(* What a page allocator promises its clients, without bitmap, memory map  *)
(* or counters: once populated, a block is a run of pages of the pool that *)
(* nobody else owns, until its owner gives it back.                        *)
(***************************************************************************)
EXTENDS Integers

CONSTANTS Clients, PageCounts

VARIABLES
  pool,   \* the pages there are to allocate
  owned   \* the pages of each client's block

Free == pool \ UNION {owned[c] : c \in Clients}

Init == pool = {} /\ owned = [c \in Clients |-> {}]

Populate ==
  /\ pool = {}
  /\ pool' \subseteq Nat \ {0}
  /\ UNCHANGED owned

Allocate(c) ==
  /\ owned[c] = {}
  /\ \E first \in pool, page_count \in PageCounts :
       LET run == first .. (first + page_count - 1)
       IN /\ run \subseteq Free
          /\ owned' = [owned EXCEPT ![c] = run]
  /\ UNCHANGED pool

Release(c) ==
  /\ owned[c] # {}
  /\ owned' = [owned EXCEPT ![c] = {}]
  /\ UNCHANGED pool

Next == Populate \/ \E c \in Clients : Allocate(c) \/ Release(c)

Spec == Init /\ [][Next]_<<pool, owned>>
=============================================================================
