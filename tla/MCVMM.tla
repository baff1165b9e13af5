------------------------------- MODULE MCVMM -------------------------------
(* Instances of VMM for TLC: three levels of tables with five entries, and *)
(* areas that take 15 tables.  Address 31 is in a part of the map without   *)
(* tables, address 113 under a table of the code area.                     *)
EXTENDS VMM

MCPages == 1 .. 24 \cup {40, 41}
\* Four pages are left after vmm_init, or five of which two lie above the maps.
MCMemoryMaps == {1 .. 19, 1 .. 18 \cup {40, 41}}
MCAddresses == {31, 113}
\* Those, a neighbour in a table, and pages of all three areas.
MCWatched == MCAddresses \cup {24, 32, 74, 110}
MCReadWrite == {Flags}
MCAnyFlags == {{"present"}, Flags}
MCZero == {Cleared}
MCZeroMemory == {[p \in Pages |-> Cleared]}

\* What a page may hold that was used for something else.
Stale == [i \in Indices |-> IF i = 3 THEN [frame |-> 1, flags |-> Flags] ELSE NotMapped]
MCStaleMemory == {[p \in Pages |-> Stale]}
=============================================================================
