----------------------------- MODULE MCKmalloc -----------------------------
(***************************************************************************)
(* Instances of Kmalloc for TLC: pages of 32 bytes, slabs of 16 bytes      *)
(* (object sizes 2 to 16), metadata of four bytes.                         *)
(***************************************************************************)
EXTENDS Kmalloc, Math, TLC

CONSTANTS c1, c2, c3, c4

MCSize     == [i \in 0 .. (SlabCount - 1) |-> pow(2, i + 1)]
MCSymmetry == Permutations(Clients)

\* One usable entry: a page of bitmap, two of slabs and six for blocks; page
\* 10 belongs to the kernel.
MCMaps == { << [base |-> 1, length |-> 9, type |-> "usable"],
               [base |-> 10, length |-> 1, type |-> "kernel_and_modules"] >> }
=============================================================================
