------------------------------- MODULE MCSlab -------------------------------
(***************************************************************************)
(* Instances of Slab for TLC: three slabs of eight bytes, the first two on *)
(* one page; as in the code a range counts half of a slab's bytes.         *)
(***************************************************************************)
EXTENDS Slab, Math, TLC

CONSTANTS c1, c2, c3, c4

MCClients  == {c1, c2, c3, c4}
MCSymmetry == Permutations(Clients)
MCSize     == [i \in Slabs |-> pow(2, i + 1)]

\* Two pages in either order.
GrantedPages == {<<16, 32>>, <<48, 16>>}
=============================================================================
