------------------------------- MODULE MCPMM -------------------------------
(***************************************************************************)
(* Instances of PMM for TLC: memories of at most eight pages, bitmap pages *)
(* of two bytes of two bits.                                               *)
(***************************************************************************)
EXTENDS PMM, TLC

CONSTANTS c1, c2, c3, c4

MCClients == {c1, c2, c3, c4}
MCSymmetry == Permutations(Clients)

E(base, length, type) == [base |-> base, length |-> length, type |-> type]

\* Maps whose memory the bitmap covers, with a usable entry to host it: the
\* host first, in the middle, consumed whole, and page 0 usable or not.
CoveredMaps ==
  { <<E(0, 8, "usable")>>,
    <<E(0, 1, "usable"), E(1, 1, "kernel_and_modules"), E(2, 4, "usable")>>,
    <<E(0, 2, "other"), E(2, 2, "usable"), E(4, 1, "bootloader_reclaimable"),
      E(5, 2, "usable"), E(7, 9, "other")>>,
    <<E(1, 3, "usable"), E(4, 2, "kernel_and_modules"), E(6, 2, "usable")>> }

\* Memory that ends one page behind what the bitmap has bits for: the page is
\* usable, or it is the kernel's.
UncoveredMaps ==
  { <<E(0, 1, "usable"), E(1, 1, "kernel_and_modules"), E(2, 3, "usable")>>,
    <<E(1, 3, "usable"), E(4, 1, "kernel_and_modules"), E(5, 3, "other")>> }

AllMaps == CoveredMaps \cup UncoveredMaps

=============================================================================
