-------------------------------- MODULE VMM --------------------------------
(***************************************************************************)
(* The virtual memory manager of KnutOS: kernel/memory/vmm.c.              *)
(*                                                                         *)
(* Addresses are counted in pages.  The paging structures lie in physical  *)
(* memory, so the memory of a page is a function from indices to entries;  *)
(* pmm_alloc(1), which does not clear a page, is the choice of the lowest  *)
(* free page (PMM shows that it is free), or NULL.  The CPU's walk through *)
(* the structures and its TLB are modelled beside the kernel's writes; the *)
(* kernel reaches a table at its physical address, through the map itself  *)
(* once that is active.                                                    *)
(***************************************************************************)
EXTENDS Integers, Sequences, FiniteSets

CONSTANTS
  Entries,      \* entries per table (512)
  Levels,       \* levels of tables (4, or 5 with la57)
  Pages,        \* the physical pages
  MemoryMaps,   \* the sets of pages pmm_alloc may return
  LowPages,     \* pages of the identity and higher half maps (4 GiB)
  CodePages,    \* pages of the code map (2 GiB)
  DataBase,     \* HIGHER_HALF_DATA
  CodeBase,     \* HIGHER_HALF_CODE
  Memories,     \* the contents memory may have before it is first used
  Contents,     \* the contents a client may leave in its page
  Addresses,    \* the virtual pages clients map and unmap
  Watched,      \* the virtual pages whose mapping AddressSpace is told of
  MapFlags,     \* the flags they map with
  MaxTaken,     \* bound: pages clients hold at a time
  MaxDirectories, \* bound: page directories
  UnmapUnmapped \* clients also unmap pages that are not mapped

NULL == 0
Flags == {"present", "write"}
Entry == [frame : Nat, flags : SUBSET Flags]
Indices == 0 .. (Entries - 1)
VirtualPages == 0 .. (Entries ^ Levels - 1)

ASSUME VMMAssumption ==
  /\ Entries \in Nat \ {0} /\ Levels \in Nat \ {0}
  /\ Pages \subseteq Nat \ {NULL} /\ MemoryMaps \subseteq SUBSET Pages
  /\ {LowPages, CodePages, DataBase, CodeBase} \subseteq Nat
  /\ LowPages <= DataBase /\ DataBase + LowPages <= CodeBase
  /\ CodeBase + CodePages <= Entries ^ Levels
  /\ Addresses \subseteq Watched /\ Watched \subseteq VirtualPages
  /\ MapFlags \subseteq {flags \in SUBSET Flags : "present" \in flags}
  /\ Memories \subseteq [Pages -> [Indices -> Entry]]
  /\ Contents \subseteq [Indices -> Entry]

\* The powers that shifts of a virtual address stand for.
ASSUME PowersAssumption ==
  Entries ^ 0 = 1 /\ \A level \in 0 .. Levels : Entries ^ (level + 1) = Entries * Entries ^ level

VARIABLES
  status,   \* "boot", "running", or "fault": a table out of reach, or NULL as one
  usable,   \* the pages the PMM was given
  memory,   \* the contents of the physical pages
  free,     \* the pages that are free in the PMM
  taken,    \* the pages clients have
  dirs,     \* the page directories, root_page_directory first
  active,   \* the directory in cr3, NULL for the bootloader's
  tlb       \* the translations the CPU has cached

vars == <<status, usable, memory, free, taken, dirs, active, tlb>>
----------------------------------------------------------------------------
(* The CPU: translation of a virtual page by a directory.                  *)

NotMapped == [frame |-> NULL, flags |-> {}]

\* (virtual_address & (0x1ff << shift)) >> shift
Index(va, level) == (va \div Entries ^ (level - 1)) % Entries

\* The entry at index in the table that the entry above points to; an access
\* needs what the entries of every level allow.
Follow(mem, above, index) ==
  IF "present" \notin above.flags \/ above.frame \notin Pages THEN NotMapped
  ELSE [frame |-> mem[above.frame][index].frame,
        flags |-> mem[above.frame][index].flags \cap above.flags]

\* reached[level] holds the entry the walk reads in a table of that level.
Translate(mem, dir, va) ==
  LET reached[level \in 1 .. (Levels + 1)] ==
        IF level = Levels + 1 THEN {[frame |-> dir, flags |-> Flags]}
        ELSE {Follow(mem, above, Index(va, level)) : above \in reached[level + 1]}
  IN CHOOSE entry \in reached[1] : TRUE

Mapped(mem, dir, va) == "present" \in Translate(mem, dir, va).flags

\* The kernel reaches the page at its physical address.  (Whether the write
\* flag binds the kernel is up to CR0.WP, which it leaves as it found it.)
Reachable(mem, page) ==
  /\ page \in Pages
  /\ active # NULL => /\ Mapped(mem, active, page)
                     /\ Translate(mem, active, page).frame = page
----------------------------------------------------------------------------
(* The steps of vmm_map_page and vmm_unmap_page, on a record of memory,    *)
(* free pages and the table they have reached, NULL after a fault.         *)

pmm_alloc(pages) ==
  IF pages = {} THEN NULL ELSE CHOOSE p \in pages : \A q \in pages : p <= q

\* Mutant: the new table is not taken from the free pages.
vmm_get_page_map_level_kept(m, index, flags) ==
  LET entry == m.memory[m.table][index]
      page  == pmm_alloc(m.free)
  IN IF ~Reachable(m.memory, m.table) THEN [m EXCEPT !.table = NULL]
     ELSE IF "present" \in entry.flags THEN [m EXCEPT !.table = entry.frame]
     ELSE [memory |-> [m.memory EXCEPT ![m.table][index] =
                         [frame |-> page, flags |-> flags]],
           free |-> m.free, table |-> page]

vmm_get_page_map_level(m, index, flags) ==
  LET entry == m.memory[m.table][index]
      page  == pmm_alloc(m.free)
  IN IF ~Reachable(m.memory, m.table) THEN [m EXCEPT !.table = NULL]
     ELSE IF "present" \in entry.flags THEN [m EXCEPT !.table = entry.frame]
     ELSE [memory |-> [m.memory EXCEPT ![m.table][index] =
                         [frame |-> page, flags |-> flags]],
           free |-> m.free \ {page}, table |-> page]

\* The entry of va in its table of level 1, which the walk may have created.
WriteEntry(m, dir, va, entry, flags) ==
  LET reach[level \in 1 .. Levels] ==
        IF level = Levels THEN [m EXCEPT !.table = dir]
        ELSE vmm_get_page_map_level(reach[level + 1], Index(va, level + 1), flags)
      last == reach[1]
  IN IF Reachable(last.memory, last.table)
       THEN [last EXCEPT !.memory[last.table][Index(va, 1)] = entry]
     ELSE [last EXCEPT !.table = NULL]

Map(m, dir, frame, va, flags) ==
  WriteEntry(m, dir, va, [frame |-> frame, flags |-> flags], flags)

\* Mutant: the entry only loses its frame.
UnmapFrameOnly(m, dir, va) ==
  WriteEntry(m, dir, va, [frame |-> NULL, flags |-> {"present"}], {})

Unmap(m, dir, va) == WriteEntry(m, dir, va, NotMapped, {})

\* A range of pages is mapped, until an access faults.
MapRange(m, dir, base, pages, flags) ==
  LET upTo[n \in 0 .. pages] ==
        IF n = 0 THEN m
        ELSE LET done == upTo[n - 1]
             IN IF done.table = NULL THEN done
                ELSE Map(done, dir, n - 1, base + n - 1, flags)
  IN upTo[pages]

\* The state after a function whose steps end in m.
Become(m) ==
  /\ memory' = m.memory /\ free' = m.free
  /\ status' = IF m.table = NULL THEN "fault" ELSE "running"

Cleared == [i \in Indices |-> NotMapped]

\* Mutant: two pages are allocated for it.
vmm_create_page_directory_two ==
  LET dir == pmm_alloc(free)
  IN [memory |-> IF Reachable(memory, dir) THEN [memory EXCEPT ![dir] = Cleared] ELSE memory,
      free |-> free \ {dir, pmm_alloc(free \ {dir})},
      table |-> IF Reachable(memory, dir) THEN dir ELSE NULL]

\* The new directory is cleared at its physical address.
vmm_create_page_directory ==
  LET dir == pmm_alloc(free)
  IN [memory |-> IF Reachable(memory, dir) THEN [memory EXCEPT ![dir] = Cleared] ELSE memory,
      free |-> free \ {dir},
      table |-> IF Reachable(memory, dir) THEN dir ELSE NULL]
----------------------------------------------------------------------------
(* The functions of vmm.c as actions.                                      *)

\* Mutant: the kernel runs in the higher half, so the low one is not mapped.
MapLowMissing(m, dir) == m

\* "map first 4 GiB"
MapLow(m, dir) == MapRange(m, dir, 0, LowPages, Flags)

vmm_init ==
  /\ status = "boot"
  /\ LET root == vmm_create_page_directory
         low  == MapLow(root, root.table)
         data == MapRange(low, root.table, DataBase, LowPages, Flags)
         m    == MapRange(data, root.table, CodeBase, CodePages, {"present"})
     IN /\ Become(m)
        /\ dirs' = IF root.table = NULL THEN <<>> ELSE <<root.table>>
        /\ active' = IF m.table = NULL THEN NULL ELSE root.table
  /\ UNCHANGED <<usable, taken, tlb>>

CreateDirectory ==
  /\ status = "running" /\ Len(dirs) < MaxDirectories
  /\ LET m == vmm_create_page_directory
     IN /\ Become(m)
        /\ dirs' = IF m.table = NULL THEN dirs ELSE Append(dirs, m.table)
  /\ UNCHANGED <<usable, taken, active, tlb>>

\* Mutant: the TLB is not flushed.
vmm_flush_tlb_nothing(va) == UNCHANGED tlb

\* invlpg: the CPU forgets the translation of one page.
vmm_flush_tlb(va) == tlb' = [a \in DOMAIN tlb \ {va} |-> tlb[a]]

vmm_map_page(dir, frame, va, flags) ==
  LET m == Map([memory |-> memory, free |-> free, table |-> dir], dir, frame, va, flags)
  IN /\ status = "running"
     /\ UNCHANGED <<usable, taken, dirs, active>>
     /\ Become(m)
     /\ IF m.table = NULL THEN UNCHANGED tlb ELSE vmm_flush_tlb(va)

vmm_unmap_page(dir, va) ==
  LET m == Unmap([memory |-> memory, free |-> free, table |-> dir], dir, va)
  IN /\ status = "running"
     /\ UnmapUnmapped \/ Mapped(memory, dir, va)
     /\ UNCHANGED <<usable, taken, dirs, active>>
     /\ Become(m)
     /\ IF m.table = NULL THEN UNCHANGED tlb ELSE vmm_flush_tlb(va)
----------------------------------------------------------------------------
(* The CPU caches translations; other clients of the PMM use pages and     *)
(* leave in them what they wrote.                                          *)

Access(va) ==
  /\ status = "running" /\ Mapped(memory, active, va)
  /\ tlb' = [a \in DOMAIN tlb \cup {va} |->
               IF a = va /\ a \notin DOMAIN tlb THEN Translate(memory, active, va)
               ELSE tlb[a]]
  /\ UNCHANGED <<status, usable, memory, free, taken, dirs, active>>

TakePage ==
  /\ status = "running" /\ free # {} /\ Cardinality(taken) < MaxTaken
  /\ taken' = taken \cup {pmm_alloc(free)}
  /\ free' = free \ {pmm_alloc(free)}
  /\ UNCHANGED <<status, usable, memory, dirs, active, tlb>>

GivePage(page) ==
  /\ status = "running" /\ page \in taken
  /\ taken' = taken \ {page} /\ free' = free \cup {page}
  /\ \E contents \in Contents : memory' = [memory EXCEPT ![page] = contents]
  /\ UNCHANGED <<status, usable, dirs, active, tlb>>

Init ==
  /\ status = "boot" /\ memory \in Memories
  /\ usable \in MemoryMaps /\ free = usable /\ taken = {}
  /\ dirs = <<>> /\ active = NULL /\ tlb = [a \in {} |-> NotMapped]

Next ==
  \/ vmm_init \/ CreateDirectory \/ TakePage
  \/ \E page \in taken : GivePage(page)
  \/ \E va \in Addresses :
       \/ Access(va)
       \/ \E k \in DOMAIN dirs :
            \/ vmm_unmap_page(dirs[k], va)
            \/ \E frame \in taken, flags \in MapFlags :
                 vmm_map_page(dirs[k], frame, va, flags)

Spec == Init /\ [][Next]_vars
----------------------------------------------------------------------------
(* Properties.                                                             *)

\* The frames the present entries of a table point to.
Below(table) ==
  {memory[table][i].frame : i \in {j \in Indices : "present" \in memory[table][j].flags}}

\* The tables of a directory, level by level, the directory first.
TablesAt(dir, depth) ==
  LET tables[d \in 0 .. depth] ==
        IF d = 0 THEN {dir} ELSE (UNION {Below(t) : t \in tables[d - 1]}) \cap Pages
  IN tables[depth]
Tables(dir) == UNION {TablesAt(dir, depth) : depth \in 0 .. (Levels - 1)}
AllTables == UNION {Tables(dirs[k]) : k \in DOMAIN dirs}
\* The tables whose entries point to tables.
UpperTables ==
  UNION {TablesAt(dirs[k], depth) : k \in DOMAIN dirs, depth \in 0 .. (Levels - 2)}

\* Each variable has its type.
TypeOK ==
  /\ status \in {"boot", "running", "fault"}
  /\ memory \in [Pages -> [Indices -> Entry]]
  /\ free \subseteq usable /\ taken \subseteq usable /\ usable \subseteq Pages
  /\ dirs \in Seq(Pages) /\ active \in Pages \cup {NULL}
  /\ DOMAIN tlb \subseteq VirtualPages
  /\ \A va \in DOMAIN tlb : tlb[va] \in [frame : Pages, flags : SUBSET Flags]

\* A table belongs to one directory at one place, and to nobody else: no
\* page that the allocator may hand out, or has handed out, is a table, so
\* that nobody's writes reach the paging structures (vmm.c:122).
TablesExclusive ==
  /\ AllTables \cap (free \cup taken) = {}
  /\ \A k, l \in DOMAIN dirs : k # l => Tables(dirs[k]) \cap Tables(dirs[l]) = {}
  /\ \A t, u \in UpperTables : \A i, j \in Indices :
       /\ <<t, i>> # <<u, j>>
       /\ "present" \in memory[t][i].flags /\ "present" \in memory[u][j].flags
       => memory[t][i].frame # memory[u][j].frame

\* "invalidate a single page in the translation lookaside buffer"
\* (vmm.c:253): the CPU never uses a translation the structures lost.
TLBCoherent ==
  status = "running" => \A va \in DOMAIN tlb : tlb[va] = Translate(memory, active, va)

\* The kernel reaches its tables through its own map (vmm.c:65-80): an access
\* faults only where pmm_alloc had no page left, or gave the paging
\* structures a page above the first 4 GiB, which that map leaves out.
FaultOnlyWithoutMemory ==
  status = "fault" => free = {} \/ \E p \in usable \ (free \cup taken) : p >= LowPages

\* The directories, and what they map the watched pages to.
Roots == {dirs[k] : k \in DOMAIN dirs}
Maps ==
  {m \in {[dir |-> r, va |-> va, target |-> Translate(memory, r, va)] :
            r \in Roots, va \in Watched} : "present" \in m.target.flags}

\* What a call that returns was told is what its directory maps, and no other
\* page changes in any directory: vmm.c implements AddressSpace, vmm_map_page
\* its Map and vmm_unmap_page its Unmap with the same page, frame and flags.
Abstract ==
  INSTANCE AddressSpace
    WITH Frames <- Pages, FlagSets <- MapFlags, dirs <- Roots, maps <- Maps
AsTold ==
  \A k \in DOMAIN dirs, va \in Addresses :
    /\ vmm_unmap_page(dirs[k], va) /\ status' = "running"
         => Abstract!Unmap(Maps, Maps', dirs[k], va)
    /\ \A frame \in taken, flags \in MapFlags :
         vmm_map_page(dirs[k], frame, va, flags) /\ status' = "running"
           => Abstract!Map(Maps, Maps', dirs[k], va, frame, flags)
ImplementsAddressSpace == Abstract!Spec /\ [][AsTold]_vars

\* No page is lost: each is free, a client's, or a table that a walk from a
\* directory reaches, as long as clients unmap only what is mapped
\* (vmm_unmap_page walks with flags 0, vmm.c:222 and 242).
NoTableLost == status # "fault" => usable \ (free \cup taken) = AllTables

\* "set each table in the page directory to not used" (vmm.c:98): a page is
\* only mapped by a directory if vmm_map_page was called for it.
OnlyMappedPages ==
  status = "running" =>
    \A va \in VirtualPages :
      Mapped(memory, active, va) =>
        \/ va \in 0 .. (LowPages - 1) \/ va \in Addresses
        \/ va \in DataBase .. (DataBase + LowPages - 1)
        \/ va \in CodeBase .. (CodeBase + CodePages - 1)
=============================================================================
