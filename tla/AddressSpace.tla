---------------------------- MODULE AddressSpace ----------------------------
(***************************************************************************)
(* What a virtual memory manager promises, without tables, levels or       *)
(* memory for them: each page directory maps some virtual pages, each to   *)
(* one target (a physical page and its flags), and mapping or unmapping a  *)
(* page changes nothing but the mapping of that page by that directory.    *)
(***************************************************************************)
CONSTANTS
  Addresses,  \* the virtual pages that are mapped and unmapped
  Frames,     \* the physical pages they are mapped to
  FlagSets    \* the flags they are mapped with

VARIABLES
  dirs,  \* the page directories
  maps   \* the mappings: [dir, va, target] records

Init == dirs = {} /\ maps = {}

\* The mappings in all of the page d maps va to, and in every other page.
At(all, d, va) == {m \in all : m.dir = d /\ m.va = va}

\* A new directory, empty or with the areas the kernel needs.
Create(before, after) ==
  \E d \in dirs' \ dirs :
    /\ dirs' = dirs \cup {d}
    /\ {m \in after : m.dir # d} = before

\* One directory changes, at one page.
Change(before, after, d, va) ==
  /\ d \in dirs /\ dirs' = dirs
  /\ before \ At(before, d, va) = after \ At(after, d, va)

\* It maps the page to the frame, and allows at most what the flags say: the
\* page may be in a part of the map that was made for less.
MapsTo(after, d, va, frame, flags) ==
  \E m \in At(after, d, va) :
    /\ At(after, d, va) = {m} /\ m.target.frame = frame
    /\ "present" \in m.target.flags /\ m.target.flags \subseteq flags

Map(before, after, d, va, frame, flags) ==
  MapsTo(after, d, va, frame, flags) /\ Change(before, after, d, va)

\* It no longer maps the page.
Unmap(before, after, d, va) ==
  Change(before, after, d, va) /\ At(after, d, va) = {}

Next ==
  \E before \in {maps}, after \in {maps'} :
    \/ Create(before, after)
    \/ \E d \in dirs, va \in Addresses :
         \/ Unmap(before, after, d, va)
         \/ \E frame \in Frames, flags \in FlagSets :
              Map(before, after, d, va, frame, flags)

Spec == Init /\ [][Next]_<<dirs, maps>>
=============================================================================
