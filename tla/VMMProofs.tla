----------------------------- MODULE VMMProofs -----------------------------
(***************************************************************************)
(* Theorems about the virtual memory manager, for every size of tables and *)
(* memory, every number of levels and every area: its directories are a    *)
(* forest of tables, two walks of the CPU meet only where the pages they   *)
(* look for agree, so mapping a page changes that page alone, the TLB      *)
(* holds what the active directory maps, and VMM implements AddressSpace.  *)
(***************************************************************************)
EXTENDS VMM, ArithmeticProofs, TLAPS
----------------------------------------------------------------------------
(* The tables of a directory in a memory, level by level.                  *)

\* Below and TablesAt of VMM, for any memory.
Under(mem, table) ==
  {mem[table][i].frame : i \in {j \in Indices : "present" \in mem[table][j].flags}}
Layer(mem, dir, depth) ==
  LET tables[d \in 0 .. depth] ==
        IF d = 0 THEN {dir} ELSE (UNION {Under(mem, t) : t \in tables[d - 1]}) \cap Pages
  IN tables[depth]

LEMMA TablesAreLayers ==
  \A dir, depth : TablesAt(dir, depth) = Layer(memory, dir, depth)
  BY Zenon DEF TablesAt, Layer, Below, Under

LEMMA LayerSteps ==
  ASSUME NEW mem, NEW dir \in Pages
  PROVE  /\ Layer(mem, dir, 0) = {dir}
         /\ \A d \in Nat : Layer(mem, dir, d + 1)
                             = (UNION {Under(mem, t) : t \in Layer(mem, dir, d)}) \cap Pages
         /\ \A d \in Nat : Layer(mem, dir, d) \subseteq Pages
  <1>. DEFINE Next1(T) == (UNION {Under(mem, t) : t \in T}) \cap Pages
              V == SUBSET Pages
              step == [n \in Nat |-> [T \in V |-> Next1(T)]]
  <1>1. {dir} \in V /\ step \in [Nat -> [V -> V]]
    <2>1. \A T \in V : Next1(T) \in V
      OBVIOUS
    <2>. HIDE DEF Next1
    <2>. QED  BY <2>1
  <1>. HIDE DEF V
  <1>2. PICK f : Iterates(f, V, {dir}, step)
    <2>. HIDE DEF step
    <2>. QED  BY <1>1, Iteration
  <1>3. f[0] = {dir} /\ \A n \in Nat : f[n + 1] = Next1(f[n]) /\ f[n] \in V
    BY <1>2 DEF Iterates
  <1>. HIDE DEF step, Next1
  <1>4. ASSUME NEW n \in Nat PROVE Layer(mem, dir, n) = f[n]
    <2>. DEFINE Eq(h) == h = [d \in 0 .. n |-> IF d = 0 THEN {dir} ELSE Next1(h[d - 1])]
                h == [d \in 0 .. n |-> f[d]]
                tables == CHOOSE g : Eq(g)
    <2>1. ASSUME NEW d \in 0 .. n
          PROVE  h[d] = IF d = 0 THEN {dir} ELSE Next1(h[d - 1])
      <3>1. CASE d = 0
        BY <1>3, <3>1
      <3>2. CASE d # 0
        <4>1. d - 1 \in Nat /\ d - 1 \in 0 .. n /\ d = (d - 1) + 1
          BY <3>2
        <4>2. f[d] = Next1(f[d - 1])
          BY <1>3, <4>1
        <4>. QED  BY <3>2, <4>1, <4>2
      <3>. QED  BY <3>1, <3>2
    <2>2. Eq(h)
      <3>1. h = [d \in 0 .. n |-> h[d]]
        OBVIOUS
      <3>. HIDE DEF h
      <3>2. [d \in 0 .. n |-> h[d]] = [d \in 0 .. n |-> IF d = 0 THEN {dir} ELSE Next1(h[d - 1])]
        BY <2>1
      <3>. QED  BY <3>1, <3>2
    <2>. HIDE DEF h
    <2>3. Eq(tables)
      <3>. HIDE DEF Eq
      <3>. QED  BY <2>2
    <2>4. \A d \in 0 .. n : tables[d] = IF d = 0 THEN {dir} ELSE Next1(tables[d - 1])
      <3>. HIDE DEF tables
      <3>. QED  BY <2>3
    <2>5. Layer(mem, dir, n) = tables[n]
      BY Zenon DEF Layer, Next1
    <2>. HIDE DEF tables
    <2>. DEFINE T == {d \in Nat : d <= n => tables[d] = f[d]}
    <2>6. 0 \in T
      <3>1. tables[0] = {dir}
        BY <2>4
      <3>. QED  BY <1>3, <3>1
    <2>7. ASSUME NEW d \in Nat, d \in T PROVE d + 1 \in T
      <3>1. CASE d + 1 <= n
        <4>1. d + 1 \in 0 .. n /\ (d + 1) - 1 = d /\ d + 1 # 0 /\ tables[d] = f[d]
          BY <2>7, <3>1
        <4>2. tables[d + 1] = Next1(tables[(d + 1) - 1])
          BY <2>4, <4>1
        <4>. QED  BY <1>3, <4>1, <4>2
      <3>2. CASE ~(d + 1 <= n)
        BY <3>2
      <3>. QED  BY <3>1, <3>2
    <2>. HIDE DEF T
    <2>8. Nat \subseteq T
      BY <2>6, <2>7, NaturalsByStep
    <2>. QED  BY <2>5, <2>8 DEF T
  <1>5. \A d \in Nat : Layer(mem, dir, d + 1) = Next1(Layer(mem, dir, d))
    BY <1>3, <1>4
  <1>6. Layer(mem, dir, 0) = {dir}
    BY <1>3, <1>4
  <1>7. \A d \in Nat : Layer(mem, dir, d) \subseteq Pages
    BY <1>3, <1>4 DEF V
  <1>. QED  BY <1>5, <1>6, <1>7 DEF Next1

\* Two memories whose first n layers of tables point to the same pages.
Alike(mem, new, dir, n) ==
  \A d \in 0 .. (n - 1) : \A t \in Layer(mem, dir, d) :
    Under(new, t) \cap Pages = Under(mem, t) \cap Pages

\* The layers depend on the tables in the layers above only.
LEMMA LayersSame ==
  ASSUME NEW mem, NEW new, NEW dir \in Pages, NEW n \in Nat, Alike(mem, new, dir, n)
  PROVE  \A d \in 0 .. n : Layer(new, dir, d) = Layer(mem, dir, d)
  <1>. DEFINE T == {d \in Nat : d <= n => Layer(new, dir, d) = Layer(mem, dir, d)}
  <1>1. 0 \in T
    BY LayerSteps
  <1>2. ASSUME NEW d \in Nat, d \in T PROVE d + 1 \in T
    <2>1. SUFFICES ASSUME d + 1 <= n PROVE Layer(new, dir, d + 1) = Layer(mem, dir, d + 1)
      OBVIOUS
    <2>2. d \in 0 .. (n - 1) /\ Layer(new, dir, d) = Layer(mem, dir, d)
      BY <1>2, <2>1
    <2>3. /\ Layer(new, dir, d + 1)
               = (UNION {Under(new, t) : t \in Layer(mem, dir, d)}) \cap Pages
          /\ Layer(mem, dir, d + 1)
               = (UNION {Under(mem, t) : t \in Layer(mem, dir, d)}) \cap Pages
      BY <2>2, LayerSteps
    <2>4. ASSUME NEW p
          PROVE  p \in Layer(new, dir, d + 1) <=> p \in Layer(mem, dir, d + 1)
      <3>1. \A t \in Layer(mem, dir, d) : p \in Pages =>
              (p \in Under(new, t) <=> p \in Under(mem, t))
        BY <2>2 DEF Alike
      <3>. QED  BY <2>3, <3>1
    <2>. QED  BY <2>4
  <1>. HIDE DEF T
  <1>3. Nat \subseteq T
    BY <1>1, <1>2, NaturalsByStep
  <1>. QED  BY <1>3 DEF T

\* Page p, with nothing below it, is put below table t, which is a table of
\* directory dir at depth e only.
Joins(mem, new, dir, e, t, p, n) ==
  /\ t \in Layer(mem, dir, e) /\ \A d \in 0 .. n : d # e => t \notin Layer(mem, dir, d)
  /\ Under(new, t) \cap Pages = (Under(mem, t) \cap Pages) \cup {p}
  /\ \A u \in Pages : u # t => Under(new, u) = Under(mem, u)
  /\ Under(mem, p) = {} /\ p # t

\* It joins the layer below.
LEMMA LayersGrow ==
  ASSUME NEW mem, NEW new, NEW dir \in Pages, NEW e \in Nat, NEW t, NEW p \in Pages,
         NEW n \in Nat, e < n, Joins(mem, new, dir, e, t, p, n)
  PROVE  \A d \in 0 .. n :
           Layer(new, dir, d) = Layer(mem, dir, d) \cup (IF d = e + 1 THEN {p} ELSE {})
  <1>. DEFINE Extra(d) == IF d = e + 1 THEN {p} ELSE {}
              T == {d \in Nat : d <= n => Layer(new, dir, d) = Layer(mem, dir, d) \cup Extra(d)}
  <1>0. /\ t \in Layer(mem, dir, e) /\ \A d \in 0 .. n : d # e => t \notin Layer(mem, dir, d)
        /\ Under(new, t) \cap Pages = (Under(mem, t) \cap Pages) \cup {p}
        /\ \A u \in Pages : u # t => Under(new, u) = Under(mem, u)
        /\ Under(mem, p) = {} /\ p # t
    BY DEF Joins
  <1>1. 0 \in T
    BY LayerSteps
  <1>2. ASSUME NEW d \in Nat, d \in T PROVE d + 1 \in T
    <2>1. SUFFICES ASSUME d + 1 <= n
                   PROVE  Layer(new, dir, d + 1) = Layer(mem, dir, d + 1) \cup Extra(d + 1)
      OBVIOUS
    <2>2. d \in 0 .. n /\ Layer(new, dir, d) = Layer(mem, dir, d) \cup Extra(d)
      BY <1>2, <2>1
    <2>3. /\ Layer(new, dir, d + 1)
               = (UNION {Under(new, u) : u \in Layer(mem, dir, d) \cup Extra(d)}) \cap Pages
          /\ Layer(mem, dir, d + 1)
               = (UNION {Under(mem, u) : u \in Layer(mem, dir, d)}) \cap Pages
          /\ Layer(mem, dir, d) \subseteq Pages
      <3>1. Layer(new, dir, d + 1)
              = (UNION {Under(new, u) : u \in Layer(new, dir, d)}) \cap Pages
        BY LayerSteps
      <3>2. Layer(mem, dir, d + 1)
              = (UNION {Under(mem, u) : u \in Layer(mem, dir, d)}) \cap Pages
        BY LayerSteps
      <3>3. Layer(mem, dir, d) \subseteq Pages
        BY LayerSteps
      <3>. HIDE DEF Extra
      <3>. QED  BY <2>2, <3>1, <3>2, <3>3
    <2>4. \A u \in Extra(d) : Under(new, u) = {}
      BY <1>0
    <2>5. \A u \in Layer(mem, dir, d) : u # t => Under(new, u) = Under(mem, u)
      BY <1>0, <2>3
    <2>6. CASE d = e
      <3>1. Extra(d + 1) = {p} /\ Extra(d) = {}
        BY <2>6
      <3>. HIDE DEF Extra
      <3>2. ASSUME NEW q
            PROVE  q \in Layer(new, dir, d + 1) <=> q \in Layer(mem, dir, d + 1) \cup {p}
        <4>1. q \in Under(new, t) /\ q \in Pages <=> (q \in Under(mem, t) /\ q \in Pages) \/ q = p
          BY <1>0
        <4>. QED  BY <1>0, <2>3, <2>5, <2>6, <3>1, <4>1
      <3>. QED  BY <3>1, <3>2
    <2>7. CASE d # e
      <3>1. Extra(d + 1) = {} /\ t \notin Layer(mem, dir, d)
        BY <1>0, <2>2, <2>7
      <3>. HIDE DEF Extra
      <3>2. \A u \in Layer(mem, dir, d) : Under(new, u) = Under(mem, u)
        BY <2>5, <3>1
      <3>3. ASSUME NEW q
            PROVE  q \in Layer(new, dir, d + 1) <=> q \in Layer(mem, dir, d + 1)
        BY <2>3, <2>4, <3>2
      <3>. QED  BY <3>1, <3>3
    <2>. QED  BY <2>6, <2>7
  <1>. HIDE DEF T
  <1>3. Nat \subseteq T
    BY <1>1, <1>2, NaturalsByStep
  <1>. QED  BY <1>3 DEF T
----------------------------------------------------------------------------
(* The paging structures as a forest: one tree for each directory.  R are  *)
(* the directories, spare the pages that are no tables.                    *)

Memory == [Pages -> [Indices -> Entry]]
Depths == 0 .. (Levels - 1)
Upper == 0 .. (Levels - 2)
Present(mem, t, i) == "present" \in mem[t][i].flags

TablesIn(mem, R) == UNION {Layer(mem, r, d) : r \in R, d \in Depths}
UpperIn(mem, R) == UNION {Layer(mem, r, d) : r \in R, d \in Upper}

\* A table is in one directory at one depth.
Separate(mem, R) ==
  \A r, s \in R : \A d, e \in Depths :
    r # s \/ d # e => Layer(mem, r, d) \cap Layer(mem, s, e) = {}

\* No two entries of upper tables point to the same table.
SingleParents(mem, R) ==
  \A t, u \in UpperIn(mem, R) : \A i, j \in Indices :
    (t # u \/ i # j) /\ Present(mem, t, i) /\ Present(mem, u, j)
      => mem[t][i].frame # mem[u][j].frame

\* The entries of upper tables point to pages of memory.
FramesInMemory(mem, R) ==
  \A t \in UpperIn(mem, R) : \A i \in Indices : Present(mem, t, i) => mem[t][i].frame \in Pages

Forest(mem, R, spare) ==
  /\ Separate(mem, R) /\ SingleParents(mem, R)
  /\ TablesIn(mem, R) \cap spare = {}
  /\ \A p \in spare : mem[p] = Cleared

LEMMA ClearedIsEmpty ==
  ASSUME NEW mem, NEW p, mem[p] = Cleared
  PROVE  Under(mem, p) = {}
  BY DEF Under, Cleared, NotMapped

LEMMA LayersOfForest ==
  ASSUME NEW mem, NEW R, R \subseteq Pages
  PROVE  /\ TablesIn(mem, R) \subseteq Pages /\ UpperIn(mem, R) \subseteq TablesIn(mem, R)
         /\ R \subseteq TablesIn(mem, R)
         /\ \A r \in R : Layer(mem, r, 0) = {r}
         /\ \A r \in R : \A d \in Depths : Layer(mem, r, d) \subseteq TablesIn(mem, R)
         /\ \A r \in R : \A d \in Upper : Layer(mem, r, d) \subseteq UpperIn(mem, R)
  <1>1. Upper \subseteq Depths /\ Depths \subseteq Nat /\ 0 \in Depths
    BY VMMAssumption DEF Upper, Depths
  <1>2. \A r \in R : Layer(mem, r, 0) = {r} /\ \A d \in Nat : Layer(mem, r, d) \subseteq Pages
    BY LayerSteps
  <1>. QED  BY <1>1, <1>2 DEF TablesIn, UpperIn

\* The entries below a table of an upper layer are the next layer's.
LEMMA UnderLayer ==
  ASSUME NEW mem, NEW R, R \subseteq Pages, NEW r \in R, NEW d \in Upper,
         NEW t \in Layer(mem, r, d), NEW i \in Indices, Present(mem, t, i),
         mem[t][i].frame \in Pages
  PROVE  mem[t][i].frame \in Layer(mem, r, d + 1)
  <1>1. d \in Nat /\ mem[t][i].frame \in Under(mem, t)
    BY DEF Upper, Under, Present
  <1>. QED  BY <1>1, LayerSteps

\* A new directory is a tree of its own.
LEMMA NewDirectory ==
  ASSUME NEW mem, NEW R, R \subseteq Pages, NEW spare, Forest(mem, R, spare), NEW p \in spare,
         p \in Pages
  PROVE  /\ Forest(mem, R \cup {p}, spare \ {p})
         /\ TablesIn(mem, R \cup {p}) = TablesIn(mem, R) \cup {p}
         /\ FramesInMemory(mem, R) => FramesInMemory(mem, R \cup {p})
  <1>1. Under(mem, p) = {}
    BY ClearedIsEmpty DEF Forest
  <1>2. Layer(mem, p, 0) = {p} /\ \A d \in Nat : d > 0 => Layer(mem, p, d) = {}
    <2>. DEFINE T == {d \in Nat : Layer(mem, p, d + 1) = {}}
    <2>1. Layer(mem, p, 0) = {p}
      BY LayerSteps
    <2>2. 0 \in T
      BY <1>1, <2>1, LayerSteps
    <2>3. ASSUME NEW d \in Nat, d \in T PROVE d + 1 \in T
      <3>1. Layer(mem, p, d + 1) = {} /\ d + 1 \in Nat
        BY <2>3
      <3>2. Layer(mem, p, (d + 1) + 1)
              = (UNION {Under(mem, t) : t \in Layer(mem, p, d + 1)}) \cap Pages
        BY <3>1, LayerSteps
      <3>. QED  BY <3>1, <3>2
    <2>. HIDE DEF T
    <2>4. Nat \subseteq T
      BY <2>2, <2>3, NaturalsByStep
    <2>5. ASSUME NEW d \in Nat, d > 0 PROVE Layer(mem, p, d) = {}
      <3>1. d - 1 \in T /\ (d - 1) + 1 = d
        BY <2>4, <2>5
      <3>. QED  BY <3>1 DEF T
    <2>. QED  BY <2>1, <2>5
  <1>3. Depths \subseteq Nat /\ Upper \subseteq Nat /\ 0 \in Depths
    BY VMMAssumption DEF Depths, Upper
  <1>4. p \notin TablesIn(mem, R)
    BY DEF Forest
  <1>5. TablesIn(mem, R \cup {p}) = TablesIn(mem, R) \cup {p}
    <2>1. UNION {Layer(mem, p, d) : d \in Depths} = {p}
      BY <1>2, <1>3
    <2>. QED  BY <2>1 DEF TablesIn
  <1>6. UpperIn(mem, R \cup {p}) \subseteq UpperIn(mem, R) \cup {p}
    BY <1>2, <1>3 DEF UpperIn
  <1>7. \A i \in Indices : ~Present(mem, p, i)
    BY DEF Present, Forest, Cleared, NotMapped
  <1>8. Separate(mem, R \cup {p})
    <2>1. \A r \in R : \A d \in Depths : p \notin Layer(mem, r, d)
      BY <1>4 DEF TablesIn
    <2>2. \A d \in Depths : Layer(mem, p, d) \subseteq {p} /\ (d # 0 => Layer(mem, p, d) = {})
      BY <1>2, <1>3
    <2>3. \A r, s \in R : \A d, e \in Depths :
            r # s \/ d # e => Layer(mem, r, d) \cap Layer(mem, s, e) = {}
      BY DEF Forest, Separate
    <2>4. ASSUME NEW r \in R \cup {p}, NEW s \in R \cup {p}, NEW d \in Depths, NEW e \in Depths,
                 r # s \/ d # e
          PROVE  Layer(mem, r, d) \cap Layer(mem, s, e) = {}
      <3>1. CASE r \in R /\ s \in R
        BY <2>3, <2>4, <3>1
      <3>2. CASE r = p /\ s = p
        <4>1. d # 0 \/ e # 0
          BY <2>4, <3>2
        <4>. QED  BY <2>2, <3>2, <4>1
      <3>3. CASE r = p /\ s \in R
        BY <2>1, <2>2, <3>3
      <3>4. CASE r \in R /\ s = p
        BY <2>1, <2>2, <3>4
      <3>. QED  BY <3>1, <3>2, <3>3, <3>4
    <2>. QED  BY <2>4 DEF Separate
  <1>9. SingleParents(mem, R \cup {p})
    BY <1>6, <1>7 DEF Forest, SingleParents
  <1>10. FramesInMemory(mem, R) => FramesInMemory(mem, R \cup {p})
    BY <1>6, <1>7 DEF FramesInMemory
  <1>11. Forest(mem, R \cup {p}, spare \ {p})
    BY <1>5, <1>8, <1>9 DEF Forest
  <1>. QED  BY <1>5, <1>10, <1>11
----------------------------------------------------------------------------
(* What a write to a table does to the forest.                             *)

Written(mem, t, i, entry) == [mem EXCEPT ![t][i] = entry]

LEMMA WriteFacts ==
  ASSUME NEW mem \in Memory, NEW t \in Pages, NEW i \in Indices, NEW entry \in Entry
  PROVE  /\ Written(mem, t, i, entry) \in Memory
         /\ Written(mem, t, i, entry)[t][i] = entry
         /\ \A j \in Indices : j # i => Written(mem, t, i, entry)[t][j] = mem[t][j]
         /\ \A u \in Pages : u # t => /\ Written(mem, t, i, entry)[u] = mem[u]
                                      /\ Under(Written(mem, t, i, entry), u) = Under(mem, u)
  BY DEF Written, Memory, Under

LEMMA UnderAdded ==
  ASSUME NEW mem \in Memory, NEW t \in Pages, NEW i \in Indices, NEW entry \in Entry,
         ~Present(mem, t, i), "present" \in entry.flags
  PROVE  Under(Written(mem, t, i, entry), t) = Under(mem, t) \cup {entry.frame}
  <1>. DEFINE new == Written(mem, t, i, entry)
  <1>1. new[t][i] = entry /\ \A j \in Indices : j # i => new[t][j] = mem[t][j]
    BY WriteFacts
  <1>. HIDE DEF new
  <1>2. ASSUME NEW p PROVE p \in Under(new, t) <=> p \in Under(mem, t) \cup {entry.frame}
    BY <1>1 DEF Under, Present
  <1>. QED  BY <1>2 DEF new

\* A write that leaves the layers as they are.
LEMMA ForestSame ==
  ASSUME NEW mem \in Memory, NEW new \in Memory, NEW R, R \subseteq Pages,
         \A r \in R : \A d \in Depths : Layer(new, r, d) = Layer(mem, r, d)
  PROVE  /\ TablesIn(new, R) = TablesIn(mem, R) /\ UpperIn(new, R) = UpperIn(mem, R)
         /\ Separate(mem, R) => Separate(new, R)
  <1>1. Upper \subseteq Depths
    BY VMMAssumption DEF Upper, Depths
  <1>2. TablesIn(new, R) = TablesIn(mem, R)
    BY DEF TablesIn
  <1>3. UpperIn(new, R) = UpperIn(mem, R)
    BY <1>1 DEF UpperIn
  <1>. QED  BY <1>2, <1>3 DEF Separate

\* The layers stay as they are if no upper table points to another page.
LEMMA LayersStay ==
  ASSUME NEW mem, NEW new, NEW R, R \subseteq Pages,
         \A t \in UpperIn(mem, R) : Under(new, t) \cap Pages = Under(mem, t) \cap Pages
  PROVE  \A r \in R : \A d \in Depths : Layer(new, r, d) = Layer(mem, r, d)
  <1>. SUFFICES ASSUME NEW r \in R PROVE \A d \in Depths : Layer(new, r, d) = Layer(mem, r, d)
    OBVIOUS
  <1>. DEFINE n == Levels - 1
  <1>1. n \in Nat /\ Upper = 0 .. (n - 1) /\ Depths = 0 .. n
    BY VMMAssumption DEF Upper, Depths
  <1>. HIDE DEF n
  <1>2. \A d \in 0 .. (n - 1) : \A t \in Layer(mem, r, d) : t \in UpperIn(mem, R)
    BY <1>1 DEF UpperIn
  <1>3. Alike(mem, new, r, n)
    BY <1>2 DEF Alike
  <1>4. r \in Pages
    OBVIOUS
  <1>5. \A d \in 0 .. n : Layer(new, r, d) = Layer(mem, r, d)
    BY <1>1, <1>3, <1>4, LayersSame, Zenon
  <1>. QED  BY <1>1, <1>5

\* An entry of a table of level 1 is nobody's business but its own.
LEMMA LeafWrite ==
  ASSUME NEW mem \in Memory, NEW R, R \subseteq Pages, NEW spare, spare \subseteq Pages,
         Forest(mem, R, spare),
         NEW r \in R, NEW t \in Layer(mem, r, Levels - 1), NEW i \in Indices, NEW entry \in Entry
  PROVE  /\ Forest(Written(mem, t, i, entry), R, spare)
         /\ TablesIn(Written(mem, t, i, entry), R) = TablesIn(mem, R)
         /\ FramesInMemory(mem, R) => FramesInMemory(Written(mem, t, i, entry), R)
         /\ \A s \in R : \A d \in Depths :
              Layer(Written(mem, t, i, entry), s, d) = Layer(mem, s, d)
  <1>. DEFINE new == Written(mem, t, i, entry)
  <1>1. Levels - 1 \in Depths /\ t \in TablesIn(mem, R) /\ TablesIn(mem, R) \subseteq Pages
        /\ UpperIn(mem, R) \subseteq TablesIn(mem, R)
    BY LayersOfForest, VMMAssumption DEF Depths
  <1>2. t \notin UpperIn(mem, R)
    <2>1. ASSUME NEW s \in R, NEW d \in Upper PROVE t \notin Layer(mem, s, d)
      <3>1. d \in Depths /\ d # Levels - 1
        BY VMMAssumption DEF Upper, Depths
      <3>. QED  BY <1>1, <3>1 DEF Forest, Separate
    <2>. QED  BY <2>1 DEF UpperIn
  <1>3. new \in Memory /\ \A u \in Pages : u # t => new[u] = mem[u] /\ Under(new, u) = Under(mem, u)
    BY <1>1, WriteFacts
  <1>. HIDE DEF new
  <1>4. \A u \in UpperIn(mem, R) : new[u] = mem[u] /\ Under(new, u) = Under(mem, u)
    BY <1>1, <1>2, <1>3
  <1>5. \A s \in R : \A d \in Depths : Layer(new, s, d) = Layer(mem, s, d)
    BY <1>4, LayersStay
  <1>6. TablesIn(new, R) = TablesIn(mem, R) /\ UpperIn(new, R) = UpperIn(mem, R)
        /\ Separate(new, R)
    BY <1>3, <1>5, ForestSame DEF Forest
  <1>7. SingleParents(new, R)
    BY <1>4, <1>6 DEF Forest, SingleParents, Present
  <1>8. FramesInMemory(mem, R) => FramesInMemory(new, R)
    BY <1>4, <1>6 DEF FramesInMemory, Present
  <1>9. \A p \in spare : new[p] = Cleared
    BY <1>1, <1>3 DEF Forest
  <1>10. Forest(new, R, spare)
    BY <1>6, <1>7, <1>9 DEF Forest
  <1>. QED  BY <1>5, <1>6, <1>8, <1>10 DEF new

\* A page that could not be had: the entry points to NULL.
LEMMA NullWrite ==
  ASSUME NEW mem \in Memory, NEW R, R \subseteq Pages, NEW spare, spare \subseteq Pages,
         Forest(mem, R, spare), FramesInMemory(mem, R),
         NEW t \in UpperIn(mem, R), NEW i \in Indices, ~Present(mem, t, i),
         NEW entry \in Entry, entry.frame = NULL, "present" \in entry.flags
  PROVE  /\ Forest(Written(mem, t, i, entry), R, spare)
         /\ TablesIn(Written(mem, t, i, entry), R) = TablesIn(mem, R)
  <1>. DEFINE new == Written(mem, t, i, entry)
  <1>1. t \in TablesIn(mem, R) /\ TablesIn(mem, R) \subseteq Pages
        /\ UpperIn(mem, R) \subseteq TablesIn(mem, R) /\ NULL \notin Pages
    BY LayersOfForest, VMMAssumption
  <1>2. /\ new \in Memory /\ \A u \in Pages : u # t => new[u] = mem[u] /\ Under(new, u) = Under(mem, u)
        /\ new[t][i] = entry /\ \A j \in Indices : j # i => new[t][j] = mem[t][j]
        /\ Under(new, t) = Under(mem, t) \cup {NULL}
    BY <1>1, WriteFacts, UnderAdded
  <1>. HIDE DEF new
  <1>3. \A u \in UpperIn(mem, R) : Under(new, u) \cap Pages = Under(mem, u) \cap Pages
    BY <1>1, <1>2
  <1>4. \A s \in R : \A d \in Depths : Layer(new, s, d) = Layer(mem, s, d)
    BY <1>3, LayersStay
  <1>5. TablesIn(new, R) = TablesIn(mem, R) /\ UpperIn(new, R) = UpperIn(mem, R)
        /\ Separate(new, R)
    BY <1>2, <1>4, ForestSame DEF Forest
  <1>6. SingleParents(new, R)
    <2>. SUFFICES ASSUME NEW u \in UpperIn(mem, R), NEW v \in UpperIn(mem, R),
                         NEW j \in Indices, NEW k \in Indices, u # v \/ j # k,
                         Present(new, u, j), Present(new, v, k)
                  PROVE  new[u][j].frame # new[v][k].frame
      BY <1>5 DEF SingleParents
    <2>1. ASSUME NEW w \in UpperIn(mem, R), NEW l \in Indices, Present(new, w, l),
                 w # t \/ l # i
          PROVE  /\ Present(mem, w, l) /\ new[w][l].frame = mem[w][l].frame
                 /\ new[w][l].frame \in Pages
      <3>1. new[w][l] = mem[w][l]
        BY <1>1, <1>2, <2>1
      <3>. QED  BY <2>1, <3>1 DEF FramesInMemory, Present
    <2>2. CASE u = t /\ j = i
      BY <1>1, <1>2, <2>1, <2>2
    <2>3. CASE v = t /\ k = i
      BY <1>1, <1>2, <2>1, <2>3
    <2>4. CASE (u # t \/ j # i) /\ (v # t \/ k # i)
      BY <2>1, <2>4 DEF Forest, SingleParents
    <2>. QED  BY <2>2, <2>3, <2>4
  <1>7. \A p \in spare : new[p] = Cleared
    BY <1>1, <1>2 DEF Forest
  <1>. QED  BY <1>5, <1>6, <1>7 DEF Forest, new

\* A free page becomes a table below table t.
LEMMA TableWrite ==
  ASSUME NEW mem \in Memory, NEW R, R \subseteq Pages, NEW spare, spare \subseteq Pages,
         Forest(mem, R, spare), FramesInMemory(mem, R),
         NEW r \in R, NEW e \in Upper, NEW t \in Layer(mem, r, e),
         NEW i \in Indices, ~Present(mem, t, i),
         NEW entry \in Entry, entry.frame \in spare, "present" \in entry.flags
  PROVE  /\ Forest(Written(mem, t, i, entry), R, spare \ {entry.frame})
         /\ TablesIn(Written(mem, t, i, entry), R) = TablesIn(mem, R) \cup {entry.frame}
         /\ FramesInMemory(Written(mem, t, i, entry), R)
         /\ entry.frame \in Layer(Written(mem, t, i, entry), r, e + 1)
  <1>. DEFINE new == Written(mem, t, i, entry)
              p == entry.frame
              n == Levels - 1
  <1>1. /\ n \in Nat /\ e \in Nat /\ e < n /\ e + 1 \in Depths /\ e \in Depths
        /\ Upper = 0 .. (n - 1) /\ Depths = 0 .. n /\ Upper \subseteq Depths
    BY VMMAssumption DEF Upper, Depths
  <1>2. t \in UpperIn(mem, R) /\ t \in TablesIn(mem, R) /\ TablesIn(mem, R) \subseteq Pages
        /\ UpperIn(mem, R) \subseteq TablesIn(mem, R)
    BY LayersOfForest
  <1>3. p \in spare /\ p \in Pages /\ p \notin TablesIn(mem, R) /\ p # t /\ mem[p] = Cleared
        /\ Under(mem, p) = {}
    BY <1>2, ClearedIsEmpty DEF Forest
  <1>4. /\ new \in Memory /\ \A u \in Pages : u # t => new[u] = mem[u] /\ Under(new, u) = Under(mem, u)
        /\ new[t][i] = entry /\ \A j \in Indices : j # i => new[t][j] = mem[t][j]
        /\ Under(new, t) = Under(mem, t) \cup {p}
    BY <1>2, WriteFacts, UnderAdded
  <1>. HIDE DEF new, p, n
  <1>5. \A s \in R : \A d \in Depths : s # r \/ d # e => t \notin Layer(mem, s, d)
    BY <1>1 DEF Forest, Separate
  <1>6. \A d \in 0 .. n :
          Layer(new, r, d) = Layer(mem, r, d) \cup (IF d = e + 1 THEN {p} ELSE {})
    <2>1. Joins(mem, new, r, e, t, p, n)
      BY <1>1, <1>3, <1>4, <1>5 DEF Joins
    <2>2. r \in Pages /\ e \in Nat /\ n \in Nat /\ e < n /\ p \in Pages
      BY <1>1, <1>3
    <2>. QED  BY <2>1, <2>2, LayersGrow
  <1>7. ASSUME NEW s \in R, s # r
        PROVE  \A d \in 0 .. n : Layer(new, s, d) = Layer(mem, s, d)
    <2>1. Alike(mem, new, s, n)
      <3>1. ASSUME NEW d \in 0 .. (n - 1), NEW u \in Layer(mem, s, d)
            PROVE  Under(new, u) = Under(mem, u)
        <4>1. d \in Depths /\ d \in Nat
          BY <1>1
        <4>2. u # t /\ u \in Pages
          <5>1. s \in Pages
            BY <1>7
          <5>2. Layer(mem, s, d) \subseteq Pages
            BY <4>1, <5>1, LayerSteps
          <5>. QED  BY <1>5, <1>7, <4>1, <5>2
        <4>. QED  BY <1>4, <4>2
      <3>. QED  BY <3>1 DEF Alike
    <2>2. s \in Pages /\ n \in Nat
      BY <1>1, <1>7
    <2>. QED  BY <2>1, <2>2, LayersSame
  <1>8. \A s \in R : \A d \in Depths :
          Layer(new, s, d) = Layer(mem, s, d) \cup (IF s = r /\ d = e + 1 THEN {p} ELSE {})
    BY <1>1, <1>6, <1>7
  <1>9. TablesIn(new, R) = TablesIn(mem, R) \cup {p}
    <2>1. TablesIn(new, R) \subseteq TablesIn(mem, R) \cup {p}
      BY <1>8 DEF TablesIn
    <2>2. TablesIn(mem, R) \subseteq TablesIn(new, R)
      BY <1>8 DEF TablesIn
    <2>3. p \in Layer(new, r, e + 1)
      BY <1>1, <1>8
    <2>4. p \in TablesIn(new, R)
      BY <1>1, <2>3 DEF TablesIn
    <2>. QED  BY <2>1, <2>2, <2>4
  <1>10. UpperIn(mem, R) \subseteq UpperIn(new, R)
         /\ UpperIn(new, R) \subseteq UpperIn(mem, R) \cup {p}
    BY <1>1, <1>8 DEF UpperIn
  <1>11. \A j \in Indices : ~Present(new, p, j)
    BY <1>3, <1>4 DEF Present, Cleared, NotMapped
  <1>12. ASSUME NEW u \in UpperIn(new, R), NEW j \in Indices, Present(new, u, j),
                u # t \/ j # i
         PROVE  /\ u \in UpperIn(mem, R) /\ Present(mem, u, j)
                /\ new[u][j].frame = mem[u][j].frame
    <2>1. u \in UpperIn(mem, R)
      BY <1>10, <1>11, <1>12
    <2>2. new[u][j] = mem[u][j]
      BY <1>2, <1>4, <1>12, <2>1
    <2>. QED  BY <1>12, <2>1, <2>2 DEF Present
  <1>13. \A u \in UpperIn(mem, R) : \A j \in Indices :
           Present(mem, u, j) => mem[u][j].frame \in Pages /\ mem[u][j].frame # p
    <2>. SUFFICES ASSUME NEW u \in UpperIn(mem, R), NEW j \in Indices, Present(mem, u, j)
                  PROVE  mem[u][j].frame \in Pages /\ mem[u][j].frame # p
      OBVIOUS
    <2>1. mem[u][j].frame \in Pages
      BY DEF FramesInMemory
    <2>2. PICK s \in R, d \in Upper : u \in Layer(mem, s, d)
      BY DEF UpperIn
    <2>3. mem[u][j].frame \in Layer(mem, s, d + 1) /\ d + 1 \in Depths
      BY <1>1, <2>1, <2>2, UnderLayer
    <2>4. mem[u][j].frame \in TablesIn(mem, R)
      BY <2>3 DEF TablesIn
    <2>. QED  BY <1>3, <2>1, <2>4
  <1>14. SingleParents(new, R)
    <2>. SUFFICES ASSUME NEW u \in UpperIn(new, R), NEW v \in UpperIn(new, R),
                         NEW j \in Indices, NEW k \in Indices, u # v \/ j # k,
                         Present(new, u, j), Present(new, v, k)
                  PROVE  new[u][j].frame # new[v][k].frame
      BY DEF SingleParents
    <2>1. CASE u = t /\ j = i
      <3>1. v # t \/ k # i
        BY <2>1
      <3>2. new[v][k].frame # p
        BY <1>12, <1>13, <3>1
      <3>. QED  BY <1>4, <2>1, <3>2 DEF p
    <2>2. CASE v = t /\ k = i
      <3>1. u # t \/ j # i
        BY <2>2
      <3>2. new[u][j].frame # p
        BY <1>12, <1>13, <3>1
      <3>. QED  BY <1>4, <2>2, <3>2 DEF p
    <2>3. CASE (u # t \/ j # i) /\ (v # t \/ k # i)
      BY <1>12, <2>3 DEF Forest, SingleParents
    <2>. QED  BY <2>1, <2>2, <2>3
  <1>15. FramesInMemory(new, R)
    <2>. SUFFICES ASSUME NEW u \in UpperIn(new, R), NEW j \in Indices, Present(new, u, j)
                  PROVE  new[u][j].frame \in Pages
      BY DEF FramesInMemory
    <2>1. CASE u = t /\ j = i
      BY <1>3, <1>4, <2>1 DEF p
    <2>2. CASE u # t \/ j # i
      BY <1>12, <1>13, <2>2
    <2>. QED  BY <2>1, <2>2
  <1>16. Separate(new, R)
    <2>. SUFFICES ASSUME NEW s \in R, NEW v \in R, NEW d \in Depths, NEW f \in Depths,
                         s # v \/ d # f
                  PROVE  Layer(new, s, d) \cap Layer(new, v, f) = {}
      BY DEF Separate
    <2>1. Layer(mem, s, d) \cap Layer(mem, v, f) = {}
      BY DEF Forest, Separate
    <2>2. p \notin Layer(mem, s, d) /\ p \notin Layer(mem, v, f)
      BY <1>3 DEF TablesIn
    <2>3. ~((s = r /\ d = e + 1) /\ (v = r /\ f = e + 1))
      OBVIOUS
    <2>. QED  BY <1>8, <2>1, <2>2, <2>3
  <1>17. \A q \in spare \ {p} : new[q] = Cleared
    BY <1>2, <1>4 DEF Forest
  <1>18. Forest(new, R, spare \ {p})
    BY <1>9, <1>14, <1>16, <1>17 DEF Forest
  <1>19. p \in Layer(new, r, e + 1)
    BY <1>1, <1>8
  <1>. QED  BY <1>9, <1>15, <1>18, <1>19 DEF new, p
----------------------------------------------------------------------------
(* The kernel's walk.                                                      *)

Walkers == [memory : Memory, free : SUBSET Pages, table : Nat]

LEMMA FreePage ==
  ASSUME NEW F, F \subseteq Pages
  PROVE  pmm_alloc(F) \in F \/ (F = {} /\ pmm_alloc(F) = NULL)
  <1>1. CASE F = {}
    BY <1>1 DEF pmm_alloc
  <1>2. CASE F # {}
    <2>1. F \in SUBSET Nat
      BY VMMAssumption
    <2>2. \E p \in F : \A q \in F : p <= q
      BY <1>2, <2>1, LeastElement
    <2>. QED  BY <1>2, <2>2 DEF pmm_alloc
  <1>. QED  BY <1>1, <1>2

LEMMA Powers ==
  \A level \in 0 .. (Levels + 1) : Entries ^ level \in Nat \ {0}
  <1>. DEFINE T == {l \in Nat : l <= Levels + 1 => Entries ^ l \in Nat \ {0}}
  <1>1. Levels \in Nat /\ Entries \in Nat \ {0}
    BY VMMAssumption
  <1>2. 0 \in T
    BY PowersAssumption
  <1>3. ASSUME NEW l \in Nat, l \in T PROVE l + 1 \in T
    <2>1. SUFFICES ASSUME l + 1 <= Levels + 1 PROVE Entries ^ (l + 1) \in Nat \ {0}
      OBVIOUS
    <2>2. Entries ^ l \in Nat \ {0} /\ l \in 0 .. Levels
      BY <1>1, <1>3, <2>1
    <2>3. Entries ^ (l + 1) = Entries * Entries ^ l
      BY <2>2, PowersAssumption
    <2>. DEFINE power == Entries ^ l
    <2>4. power \in Nat \ {0} /\ Entries ^ (l + 1) = Entries * power
      BY <2>2, <2>3
    <2>. HIDE DEF power
    <2>5. Entries * power \in Nat \ {0}
      BY <1>1, <2>4
    <2>. QED  BY <2>4, <2>5
  <1>. HIDE DEF T
  <1>4. Nat \subseteq T
    BY <1>2, <1>3, NaturalsByStep
  <1>. QED  BY <1>1, <1>4 DEF T

LEMMA IndexType ==
  ASSUME NEW va \in Nat, NEW level \in 1 .. Levels
  PROVE  Index(va, level) \in Indices
  <1>. DEFINE power == Entries ^ (level - 1)
  <1>1. Levels \in Nat /\ Entries \in Nat \ {0}
    BY VMMAssumption
  <1>2. power \in Nat \ {0}
    BY <1>1, Powers
  <1>. HIDE DEF power
  <1>3. va \div power \in Int
    BY <1>2, DivisionWithRemainder
  <1>4. (va \div power) % Entries \in 0 .. (Entries - 1)
    BY <1>1, <1>3, DivisionWithRemainder
  <1>. QED  BY <1>4 DEF Index, Indices, power

LEMMA TablesTypes ==
  /\ Levels \in Nat \ {0} /\ Entries \in Nat \ {0} /\ NULL = 0 /\ NULL \notin Pages
  /\ Pages \subseteq Nat /\ Levels - 1 \in Nat
  BY VMMAssumption DEF NULL

\* What vmm_get_page_map_level does: it faults, follows an entry, fails to
\* get a page, or makes one a table.
LevelResult(w, i, flags, next) ==
  \/ ~Reachable(w.memory, w.table) /\ next = [w EXCEPT !.table = NULL]
  \/ /\ w.table \in Pages /\ Present(w.memory, w.table, i)
     /\ next = [w EXCEPT !.table = w.memory[w.table][i].frame]
  \/ /\ w.table \in Pages /\ ~Present(w.memory, w.table, i)
     /\ \E page \in w.free \cup {NULL} :
          /\ page = NULL => w.free = {}
          /\ next = [memory |-> Written(w.memory, w.table, i, [frame |-> page, flags |-> flags]),
                     free |-> w.free \ {page}, table |-> page]

LEMMA LevelCases ==
  ASSUME NEW w \in Walkers, NEW i \in Indices, NEW flags \in SUBSET Flags,
         NEW next, next = vmm_get_page_map_level(w, i, flags)
  PROVE  next \in Walkers /\ LevelResult(w, i, flags, next)
  <1>. DEFINE entry == w.memory[w.table][i]
              page == pmm_alloc(w.free)
              new == Written(w.memory, w.table, i, [frame |-> page, flags |-> flags])
  <1>1. w.memory \in Memory /\ w.free \subseteq Pages /\ w.table \in Nat
        /\ w = [memory |-> w.memory, free |-> w.free, table |-> w.table]
    BY DEF Walkers
  <1>2. page \in w.free \cup {NULL} /\ (page = NULL => w.free = {}) /\ page \in Nat
    BY <1>1, FreePage, TablesTypes
  <1>. HIDE DEF page
  <1>3. CASE ~Reachable(w.memory, w.table)
    <2>1. next = [w EXCEPT !.table = NULL]
      BY <1>3 DEF vmm_get_page_map_level
    <2>. QED  BY <1>1, <1>3, <2>1, TablesTypes DEF Walkers, LevelResult
  <1>4. CASE Reachable(w.memory, w.table) /\ "present" \in entry.flags
    <2>1. w.table \in Pages
      BY <1>4 DEF Reachable
    <2>2. next = [w EXCEPT !.table = entry.frame]
      BY <1>4 DEF vmm_get_page_map_level
    <2>3. entry.frame \in Nat
      BY <1>1, <2>1 DEF Memory, Entry
    <2>. QED  BY <1>1, <1>4, <2>1, <2>2, <2>3 DEF Walkers, Present, LevelResult
  <1>5. CASE Reachable(w.memory, w.table) /\ ~("present" \in entry.flags)
    <2>1. w.table \in Pages
      BY <1>5 DEF Reachable
    <2>2. next = [memory |-> new, free |-> w.free \ {page}, table |-> page]
      BY <1>5 DEF vmm_get_page_map_level, Written, page
    <2>3. [frame |-> page, flags |-> flags] \in Entry
      BY <1>2 DEF Entry
    <2>4. new \in Memory
      BY <1>1, <2>1, <2>3, WriteFacts
    <2>. HIDE DEF new
    <2>5. next \in Walkers
      BY <1>1, <1>2, <2>2, <2>4 DEF Walkers
    <2>. QED  BY <1>2, <1>5, <2>1, <2>2, <2>5 DEF Present, new, LevelResult
  <1>. QED  BY <1>3, <1>4, <1>5

\* The tables that WriteEntry reaches, from the directory down.
KernelWalk(K, m, dir, va, flags) ==
  /\ K \in [Nat -> Walkers] /\ K[0] = [m EXCEPT !.table = dir]
  /\ \A n \in Upper : K[n + 1] = vmm_get_page_map_level(K[n], Index(va, Levels - n), flags)

\* WriteEntry once the walk has arrived.
Finish(last, va, entry) ==
  IF Reachable(last.memory, last.table)
    THEN [last EXCEPT !.memory[last.table][Index(va, 1)] = entry]
  ELSE [last EXCEPT !.table = NULL]

LEMMA KernelSteps ==
  ASSUME NEW m \in Walkers, NEW dir \in Pages, NEW va \in Nat, NEW flags \in SUBSET Flags
  PROVE  \E K : /\ KernelWalk(K, m, dir, va, flags)
                /\ \A entry : WriteEntry(m, dir, va, entry, flags)
                                = Finish(K[Levels - 1], va, entry)
  <1>. DEFINE start == [m EXCEPT !.table = dir]
              Level(w, level) == vmm_get_page_map_level(w, Index(va, level + 1), flags)
              Go(n, w) == IF n \in Upper THEN Level(w, Levels - (n + 1)) ELSE w
              step == [n \in Nat |-> [w \in Walkers |-> Go(n, w)]]
  <1>1. start \in Walkers
    BY TablesTypes DEF Walkers
  <1>2. ASSUME NEW n \in Upper PROVE n \in Nat /\ Levels - n \in 1 .. Levels
                                   /\ (Levels - (n + 1)) + 1 = Levels - n
    BY TablesTypes DEF Upper
  <1>3. ASSUME NEW n \in Upper, NEW w \in Walkers
        PROVE  /\ Level(w, Levels - (n + 1)) = vmm_get_page_map_level(w, Index(va, Levels - n), flags)
               /\ Level(w, Levels - (n + 1)) \in Walkers
    <2>1. Index(va, Levels - n) \in Indices
      BY <1>2, IndexType
    <2>2. vmm_get_page_map_level(w, Index(va, Levels - n), flags) \in Walkers
      BY <2>1, LevelCases
    <2>. QED  BY <1>2, <2>2
  <1>. HIDE DEF Level
  <1>4. step \in [Nat -> [Walkers -> Walkers]]
    <2>1. \A n \in Nat : \A w \in Walkers : Go(n, w) \in Walkers
      BY <1>3
    <2>. HIDE DEF Go
    <2>. QED  BY <2>1
  <1>5. PICK K : Iterates(K, Walkers, start, step)
    <2>. HIDE DEF step, start
    <2>. QED  BY <1>1, <1>4, Iteration
  <1>6. K \in [Nat -> Walkers] /\ K[0] = start /\ \A n \in Nat : K[n + 1] = Go(n, K[n])
    BY <1>5 DEF Iterates
  <1>. HIDE DEF step
  <1>7. KernelWalk(K, m, dir, va, flags)
    <2>1. \A n \in Upper : K[n] \in Walkers /\ K[n + 1] = Level(K[n], Levels - (n + 1))
      BY <1>2, <1>6
    <2>. HIDE DEF Go
    <2>. QED  BY <1>3, <1>6, <2>1 DEF KernelWalk
  <1>8. ASSUME NEW entry
        PROVE  WriteEntry(m, dir, va, entry, flags) = Finish(K[Levels - 1], va, entry)
    <2>. DEFINE Eq(g) == g = [level \in 1 .. Levels |->
                                IF level = Levels THEN start ELSE Level(g[level + 1], level)]
                h == [level \in 1 .. Levels |-> K[Levels - level]]
                reach == CHOOSE g : Eq(g)
    <2>1. ASSUME NEW level \in 1 .. Levels
          PROVE  h[level] = IF level = Levels THEN start ELSE Level(h[level + 1], level)
      <3>1. CASE level = Levels
        <4>1. Levels - level = 0
          BY <3>1, TablesTypes
        <4>. HIDE DEF start, Go
        <4>. QED  BY <1>6, <3>1, <4>1
      <3>2. CASE level # Levels
        <4>. DEFINE n == Levels - (level + 1)
        <4>1. /\ n \in Upper /\ n \in Nat /\ n + 1 = Levels - level /\ Levels - (n + 1) = level
              /\ level + 1 \in 1 .. Levels
          BY <3>2, TablesTypes DEF Upper
        <4>2. K[n + 1] = Level(K[n], Levels - (n + 1))
          BY <1>6, <4>1
        <4>. HIDE DEF Go
        <4>3. h[level] = K[n + 1] /\ h[level + 1] = K[n]
          BY <4>1
        <4>. QED  BY <3>2, <4>1, <4>2, <4>3
      <3>. QED  BY <3>1, <3>2
    <2>2. Eq(h)
      <3>1. h = [level \in 1 .. Levels |-> h[level]]
        OBVIOUS
      <3>. HIDE DEF h, start, Go
      <3>2. [level \in 1 .. Levels |-> h[level]]
              = [level \in 1 .. Levels |-> IF level = Levels THEN start ELSE Level(h[level + 1], level)]
        BY <2>1
      <3>. QED  BY <3>1, <3>2
    <2>. HIDE DEF h
    <2>3. Eq(reach)
      <3>. HIDE DEF Eq
      <3>. QED  BY <2>2
    <2>4. \A level \in 1 .. Levels :
            reach[level] = IF level = Levels THEN start ELSE Level(reach[level + 1], level)
      <3>. HIDE DEF reach, start, Go
      <3>. QED  BY <2>3
    <2>5. WriteEntry(m, dir, va, entry, flags) = Finish(reach[1], va, entry)
      BY Zenon DEF WriteEntry, Finish, Level
    <2>. HIDE DEF reach, Eq
    <2>. DEFINE T == {n \in Nat : n <= Levels - 1 => reach[Levels - n] = K[n]}
    <2>6. 0 \in T
      <3>1. Levels - 0 = Levels /\ Levels \in 1 .. Levels
        BY TablesTypes
      <3>2. reach[Levels] = start
        BY <2>4, <3>1
      <3>. QED  BY <1>6, <3>1, <3>2
    <2>7. ASSUME NEW n \in Nat, n \in T PROVE n + 1 \in T
      <3>1. CASE n + 1 <= Levels - 1
        <4>. DEFINE level == Levels - (n + 1)
        <4>1. /\ n \in Upper /\ level \in 1 .. Levels /\ level # Levels
              /\ level + 1 = Levels - n /\ n <= Levels - 1
          BY <3>1, TablesTypes DEF Upper
        <4>2. reach[Levels - n] = K[n]
          BY <2>7, <4>1
        <4>. HIDE DEF level
        <4>3. reach[level] = Level(reach[level + 1], level)
          BY <2>4, <4>1
        <4>4. K[n + 1] = Level(K[n], level)
          BY <1>6, <4>1 DEF level
        <4>5. reach[level] = K[n + 1]
          BY <4>1, <4>2, <4>3, <4>4
        <4>. QED  BY <4>5 DEF level
      <3>2. CASE ~(n + 1 <= Levels - 1)
        BY <3>2
      <3>. QED  BY <3>1, <3>2
    <2>. HIDE DEF T
    <2>8. Nat \subseteq T
      BY <2>6, <2>7, NaturalsByStep
    <2>9. Levels - 1 \in Nat /\ Levels - (Levels - 1) = 1
      BY TablesTypes
    <2>10. reach[Levels - (Levels - 1)] = K[Levels - 1]
      BY <2>8, <2>9 DEF T
    <2>. QED  BY <2>5, <2>9, <2>10
  <1>. QED  BY <1>7, <1>8
----------------------------------------------------------------------------
(* Mapping keeps the forest.                                               *)

\* While the kernel works on m, every page that is not spare is a table; an
\* upper table points to no other page, except after a fault.
Good(m, R) ==
  /\ m \in Walkers /\ m.free \subseteq usable /\ m.free \cap taken = {}
  /\ Forest(m.memory, R, m.free \cup taken)
  /\ usable \ (m.free \cup taken) = TablesIn(m.memory, R)
  /\ m.table # NULL => FramesInMemory(m.memory, R)

\* The kernel's walk has come to depth n of dir, or faulted.
Arrived(m, dir, n) == m.table # NULL => m.table \in Layer(m.memory, dir, n)

LEMMA LevelKeepsForest ==
  ASSUME NEW R, R \subseteq Pages, taken \subseteq Pages, NEW dir \in R, NEW n \in Upper,
         NEW w, Good(w, R), Arrived(w, dir, n),
         NEW i \in Indices, NEW flags \in SUBSET Flags, "present" \in flags,
         NEW next, next = vmm_get_page_map_level(w, i, flags)
  PROVE  Good(next, R) /\ Arrived(next, dir, n + 1)
  <1>1. /\ w \in Walkers /\ w.memory \in Memory /\ w.free \subseteq Pages /\ w.table \in Nat
        /\ w.free \cup taken \subseteq Pages /\ n \in Nat
    BY DEF Good, Walkers, Upper
  <1>2. next \in Walkers
    BY <1>1, LevelCases
  <1>3. CASE next = [w EXCEPT !.table = NULL]
    <2>1. next.memory = w.memory /\ next.free = w.free /\ next.table = NULL
      BY <1>1, <1>3 DEF Walkers
    <2>. QED  BY <1>2, <2>1 DEF Good, Arrived
  <1>4. CASE /\ w.table \in Pages /\ Present(w.memory, w.table, i)
             /\ next = [w EXCEPT !.table = w.memory[w.table][i].frame]
    <2>1. /\ next.memory = w.memory /\ next.free = w.free
          /\ next.table = w.memory[w.table][i].frame
      BY <1>1, <1>4 DEF Walkers
    <2>2. w.table # NULL /\ w.table \in Layer(w.memory, dir, n)
      BY <1>4, TablesTypes DEF Arrived
    <2>3. w.table \in UpperIn(w.memory, R) /\ FramesInMemory(w.memory, R)
      BY <2>2, LayersOfForest DEF Good
    <2>4. next.table \in Layer(w.memory, dir, n + 1)
      BY <1>4, <2>1, <2>2, <2>3, UnderLayer DEF FramesInMemory
    <2>. QED  BY <1>2, <2>1, <2>3, <2>4 DEF Good, Arrived
  <1>5. ASSUME w.table \in Pages, ~Present(w.memory, w.table, i),
               NEW page \in w.free \cup {NULL}, page = NULL => w.free = {},
               next = [memory |-> Written(w.memory, w.table, i, [frame |-> page, flags |-> flags]),
                       free |-> w.free \ {page}, table |-> page]
        PROVE  Good(next, R) /\ Arrived(next, dir, n + 1)
    <2>. DEFINE entry == [frame |-> page, flags |-> flags]
    <2>1. /\ next.memory = Written(w.memory, w.table, i, entry)
          /\ next.free = w.free \ {page} /\ next.table = page
      BY <1>5
    <2>2. w.table # NULL /\ w.table \in Layer(w.memory, dir, n)
      BY <1>5, TablesTypes DEF Arrived
    <2>3. w.table \in UpperIn(w.memory, R) /\ FramesInMemory(w.memory, R)
      BY <2>2, LayersOfForest DEF Good
    <2>4. entry \in Entry /\ entry.frame = page /\ "present" \in entry.flags
      <3>1. page \in Nat /\ flags \in SUBSET Flags
        <4>1. page \in w.free \cup {NULL}
          BY <1>5
        <4>2. w.free \subseteq Nat
          BY <1>1, TablesTypes
        <4>3. page \in Nat
          BY <4>1, <4>2, TablesTypes
        <4>. QED  BY <4>3
      <3>. QED  BY <3>1 DEF Entry
    <2>. HIDE DEF entry
    <2>5. Forest(w.memory, R, w.free \cup taken)
      BY DEF Good
    <2>6. CASE page = NULL
      <3>1. next.free = w.free
        BY <1>5, <2>1, <2>6
      <3>2. /\ Forest(next.memory, R, w.free \cup taken)
            /\ TablesIn(next.memory, R) = TablesIn(w.memory, R)
        BY <1>1, <1>5, <2>1, <2>3, <2>4, <2>5, <2>6, NullWrite
      <3>. QED  BY <1>2, <2>1, <2>6, <3>1, <3>2 DEF Good, Arrived
    <2>7. CASE page \in w.free
      <3>1. page \in w.free \cup taken /\ page \in usable /\ page \notin taken
        BY <2>7 DEF Good
      <3>2. /\ Forest(next.memory, R, (w.free \cup taken) \ {page})
            /\ TablesIn(next.memory, R) = TablesIn(w.memory, R) \cup {page}
            /\ FramesInMemory(next.memory, R)
            /\ page \in Layer(next.memory, dir, n + 1)
        <4>. DEFINE spare == w.free \cup taken
                    t == w.table
                    mem == w.memory
        <4>1. /\ mem \in Memory /\ spare \subseteq Pages /\ Forest(mem, R, spare)
              /\ FramesInMemory(mem, R) /\ t \in Layer(mem, dir, n) /\ ~Present(mem, t, i)
              /\ entry \in Entry /\ entry.frame \in spare /\ "present" \in entry.flags
          BY <1>1, <1>5, <2>2, <2>3, <2>4, <2>5, <3>1
        <4>. HIDE DEF spare, t, mem
        <4>2. /\ Forest(Written(mem, t, i, entry), R, spare \ {entry.frame})
              /\ TablesIn(Written(mem, t, i, entry), R) = TablesIn(mem, R) \cup {entry.frame}
              /\ FramesInMemory(Written(mem, t, i, entry), R)
              /\ entry.frame \in Layer(Written(mem, t, i, entry), dir, n + 1)
          BY <4>1, TableWrite
        <4>. QED  BY <2>1, <2>4, <4>2 DEF spare, t, mem
      <3>3. (w.free \cup taken) \ {page} = next.free \cup taken
        BY <2>1, <3>1
      <3>4. usable \ (next.free \cup taken) = TablesIn(next.memory, R)
        BY <2>1, <3>1, <3>2 DEF Good
      <3>. QED  BY <1>2, <2>1, <3>2, <3>3, <3>4 DEF Good, Arrived
    <2>. QED  BY <1>5, <2>6, <2>7
  <1>6. LevelResult(w, i, flags, next)
    BY <1>1, LevelCases
  <1>. QED  BY <1>3, <1>4, <1>5, <1>6, Zenon DEF LevelResult

\* The whole walk.
LEMMA WalkKeepsForest ==
  ASSUME NEW R, R \subseteq Pages, taken \subseteq Pages, NEW dir \in R,
         NEW m, Good(m, R), m.table # NULL, NEW va \in Nat,
         NEW flags \in SUBSET Flags, "present" \in flags, NEW K, KernelWalk(K, m, dir, va, flags)
  PROVE  \A n \in Depths : Good(K[n], R) /\ Arrived(K[n], dir, n)
  <1>. DEFINE T == {n \in Nat : n \in Depths => Good(K[n], R) /\ Arrived(K[n], dir, n)}
  <1>1. 0 \in T
    <2>1. K[0] = [m EXCEPT !.table = dir] /\ m \in Walkers /\ dir \in Nat
      BY TablesTypes DEF KernelWalk, Good
    <2>2. /\ K[0].memory = m.memory /\ K[0].free = m.free /\ K[0].table = dir /\ K[0] \in Walkers
      BY <2>1 DEF Walkers
    <2>3. dir \in Layer(m.memory, dir, 0)
      BY LayerSteps
    <2>. QED  BY <2>2, <2>3 DEF Good, Arrived
  <1>2. ASSUME NEW n \in Nat, n \in T PROVE n + 1 \in T
    <2>1. SUFFICES ASSUME n + 1 \in Depths
                   PROVE  Good(K[n + 1], R) /\ Arrived(K[n + 1], dir, n + 1)
      OBVIOUS
    <2>2. n \in Upper /\ n \in Depths /\ Levels - n \in 1 .. Levels
      BY <2>1, TablesTypes DEF Upper, Depths
    <2>3. /\ Good(K[n], R) /\ Arrived(K[n], dir, n)
          /\ K[n + 1] = vmm_get_page_map_level(K[n], Index(va, Levels - n), flags)
          /\ Index(va, Levels - n) \in Indices
      BY <1>2, <2>2, IndexType DEF KernelWalk
    <2>. QED  BY <2>2, <2>3, LevelKeepsForest
  <1>. HIDE DEF T
  <1>3. Nat \subseteq T
    BY <1>1, <1>2, NaturalsByStep
  <1>4. Depths \subseteq Nat
    BY DEF Depths
  <1>. QED  BY <1>3, <1>4 DEF T

LEMMA FinishKeepsForest ==
  ASSUME NEW R, R \subseteq Pages, taken \subseteq Pages, NEW dir \in R,
         NEW last, Good(last, R), Arrived(last, dir, Levels - 1), NEW va \in Nat,
         NEW entry \in Entry
  PROVE  Good(Finish(last, va, entry), R)
  <1>. DEFINE next == Finish(last, va, entry)
              i == Index(va, 1)
  <1>0. i \in Indices
    <2>1. 1 \in 1 .. Levels
      BY TablesTypes
    <2>. QED  BY <2>1, IndexType
  <1>1. /\ last \in Walkers /\ last.memory \in Memory /\ last.table \in Nat
        /\ last.free \cup taken \subseteq Pages /\ i \in Indices
    <2>1. last \in Walkers
      BY DEF Good
    <2>2. last.memory \in Memory /\ last.table \in Nat /\ last.free \subseteq Pages
      BY <2>1 DEF Walkers
    <2>. QED  BY <1>0, <2>1, <2>2
  <1>. HIDE DEF i
  <1>2. CASE ~Reachable(last.memory, last.table)
    <2>1. next = [last EXCEPT !.table = NULL]
      BY <1>2 DEF Finish
    <2>2. next \in Walkers /\ next.memory = last.memory /\ next.free = last.free /\ next.table = NULL
      BY <1>1, <2>1, TablesTypes DEF Walkers
    <2>. QED  BY <2>2 DEF Good
  <1>3. CASE Reachable(last.memory, last.table)
    <2>1. last.table \in Pages /\ last.table \in Layer(last.memory, dir, Levels - 1)
      BY <1>3, TablesTypes DEF Reachable, Arrived
    <2>2. next = [last EXCEPT !.memory = Written(last.memory, last.table, i, entry)]
      BY <1>3 DEF Finish, Written, i
    <2>3. Written(last.memory, last.table, i, entry) \in Memory
      BY <1>1, <2>1, WriteFacts
    <2>4. /\ next \in Walkers /\ next.memory = Written(last.memory, last.table, i, entry)
          /\ next.free = last.free /\ next.table = last.table
      BY <1>1, <2>2, <2>3 DEF Walkers
    <2>5. Forest(last.memory, R, last.free \cup taken)
      BY DEF Good
    <2>6. /\ Forest(next.memory, R, last.free \cup taken)
          /\ TablesIn(next.memory, R) = TablesIn(last.memory, R)
          /\ FramesInMemory(last.memory, R) => FramesInMemory(next.memory, R)
      BY <1>1, <2>1, <2>4, <2>5, LeafWrite
    <2>. QED  BY <2>4, <2>6 DEF Good
  <1>. QED  BY <1>2, <1>3

\* vmm_map_page keeps it, whether it faults or not.
LEMMA MapKeepsForest ==
  ASSUME NEW R, R \subseteq Pages, taken \subseteq Pages, NEW dir \in R,
         NEW m, Good(m, R), m.table # NULL, NEW frame \in Nat, NEW va \in Nat,
         NEW flags \in SUBSET Flags, "present" \in flags
  PROVE  Good(Map(m, dir, frame, va, flags), R)
  <1>. DEFINE entry == [frame |-> frame, flags |-> flags]
  <1>1. entry \in Entry /\ m \in Walkers /\ dir \in Pages /\ Levels - 1 \in Depths
    BY TablesTypes DEF Entry, Good, Depths
  <1>2. PICK K : /\ KernelWalk(K, m, dir, va, flags)
                 /\ \A e : WriteEntry(m, dir, va, e, flags) = Finish(K[Levels - 1], va, e)
    BY <1>1, KernelSteps
  <1>3. Good(K[Levels - 1], R) /\ Arrived(K[Levels - 1], dir, Levels - 1)
    BY <1>1, <1>2, WalkKeepsForest
  <1>4. Map(m, dir, frame, va, flags) = Finish(K[Levels - 1], va, entry)
    BY <1>2 DEF Map
  <1>. HIDE DEF entry
  <1>. QED  BY <1>1, <1>3, <1>4, FinishKeepsForest
----------------------------------------------------------------------------
(* Mapping a range of pages.                                               *)

\* One step of MapRange.
RangeStep(w, dir, base, n, flags) ==
  IF w.table = NULL THEN w ELSE Map(w, dir, n, base + n, flags)

\* A step from V[n] ends in V[n + 1].
RangeKeeps(V, dir, base, pages, flags) ==
  \A n \in 0 .. (pages - 1) : \A w \in V[n] : RangeStep(w, dir, base, n, flags) \in V[n + 1]

LEMMA RangeStays ==
  ASSUME NEW V, NEW m \in V[0], NEW dir, NEW base \in Nat, NEW pages \in Nat, NEW flags,
         RangeKeeps(V, dir, base, pages, flags)
  PROVE  MapRange(m, dir, base, pages, flags) \in V[pages]
  <1>. DEFINE Go(n, w) == RangeStep(w, dir, base, n, flags)
              Step(n, w) == IF n \in 0 .. (pages - 1) /\ w \in V[n] THEN Go(n, w) ELSE w
              U == UNION {V[n] : n \in 0 .. pages}
              step == [n \in Nat |-> [w \in U |-> Step(n, w)]]
  <1>0. \A n \in 0 .. (pages - 1) : \A w \in V[n] : Go(n, w) \in V[n + 1]
    BY DEF RangeKeeps
  <1>. HIDE DEF Go
  <1>1. step \in [Nat -> [U -> U]]
    <2>1. ASSUME NEW n \in Nat, NEW w \in U PROVE Step(n, w) \in U
      <3>1. CASE n \in 0 .. (pages - 1) /\ w \in V[n]
        <4>1. Go(n, w) \in V[n + 1] /\ n + 1 \in 0 .. pages
          BY <1>0, <3>1
        <4>. QED  BY <3>1, <4>1
      <3>2. CASE ~(n \in 0 .. (pages - 1) /\ w \in V[n])
        BY <3>2
      <3>. QED  BY <3>1, <3>2
    <2>. HIDE DEF Step, U
    <2>. QED  BY <2>1
  <1>2. PICK f : Iterates(f, U, m, step)
    <2>1. m \in U
      OBVIOUS
    <2>. HIDE DEF step, U
    <2>. QED  BY <1>1, <2>1, Iteration
  <1>3. f \in [Nat -> U] /\ f[0] = m /\ \A n \in Nat : f[n + 1] = Step(n, f[n])
    <2>1. f \in [Nat -> U] /\ f[0] = m /\ \A n \in Nat : f[n + 1] = step[n][f[n]]
      BY <1>2 DEF Iterates
    <2>2. ASSUME NEW n \in Nat PROVE f[n + 1] = Step(n, f[n])
      <3>1. f[n] \in U
        BY <2>1
      <3>. HIDE DEF U
      <3>2. step[n][f[n]] = Step(n, f[n])
        BY <3>1
      <3>. QED  BY <2>1, <3>2
    <2>. HIDE DEF step, Step
    <2>. QED  BY <2>1, <2>2
  <1>. HIDE DEF step, U
  <1>3a. \A n \in 0 .. pages : f[n] \in V[n]
    <2>. DEFINE I == {n \in Nat : n <= pages => f[n] \in V[n]}
    <2>1. 0 \in I
      BY <1>3
    <2>2. ASSUME NEW n \in Nat, n \in I PROVE n + 1 \in I
      <3>1. SUFFICES ASSUME n + 1 <= pages PROVE f[n + 1] \in V[n + 1]
        OBVIOUS
      <3>2. n \in 0 .. (pages - 1) /\ f[n] \in V[n]
        BY <2>2, <3>1
      <3>. QED  BY <1>0, <1>3, <3>2
    <2>. HIDE DEF I
    <2>3. Nat \subseteq I
      BY <2>1, <2>2, NaturalsByStep
    <2>. QED  BY <2>3 DEF I
  <1>3b. \A n \in 0 .. (pages - 1) : f[n + 1] = Go(n, f[n])
    BY <1>3, <1>3a
  <1>. HIDE DEF Step
  <1>. DEFINE Then(n, w) == IF w.table = NULL THEN w ELSE Map(w, dir, n - 1, base + n - 1, flags)
              Eq(g) == g = [n \in 0 .. pages |-> IF n = 0 THEN m ELSE Then(n, g[n - 1])]
              h == [n \in 0 .. pages |-> f[n]]
              upTo == CHOOSE g : Eq(g)
  <1>4. ASSUME NEW n \in 0 .. pages, n # 0, NEW w PROVE Then(n, w) = Go(n - 1, w)
    <2>1. base + n - 1 = base + (n - 1)
      OBVIOUS
    <2>. QED  BY <2>1 DEF Go, RangeStep
  <1>. HIDE DEF Then
  <1>5. ASSUME NEW n \in 0 .. pages
        PROVE  h[n] = IF n = 0 THEN m ELSE Then(n, h[n - 1])
    <2>1. CASE n = 0
      BY <1>3, <2>1
    <2>2. CASE n # 0
      <3>1. n - 1 \in 0 .. (pages - 1) /\ n - 1 \in 0 .. pages /\ (n - 1) + 1 = n
        BY <2>2
      <3>2. f[(n - 1) + 1] = Go(n - 1, f[n - 1])
        BY <1>3b, <3>1
      <3>3. h[n] = Go(n - 1, h[n - 1])
        BY <3>1, <3>2
      <3>. QED  BY <1>4, <2>2, <3>3
    <2>. QED  BY <2>1, <2>2
  <1>6. Eq(h)
    <2>1. h = [n \in 0 .. pages |-> h[n]]
      OBVIOUS
    <2>. HIDE DEF h
    <2>2. [n \in 0 .. pages |-> h[n]] = [n \in 0 .. pages |-> IF n = 0 THEN m ELSE Then(n, h[n - 1])]
      BY <1>5
    <2>. QED  BY <2>1, <2>2
  <1>. HIDE DEF h
  <1>7. Eq(upTo)
    <2>. HIDE DEF Eq
    <2>. QED  BY <1>6
  <1>8. \A n \in 0 .. pages : upTo[n] = IF n = 0 THEN m ELSE Then(n, upTo[n - 1])
    <2>. HIDE DEF upTo
    <2>. QED  BY <1>7
  <1>9. MapRange(m, dir, base, pages, flags) = upTo[pages]
    BY Zenon DEF MapRange, Then
  <1>. HIDE DEF upTo, Eq
  <1>. DEFINE T == {n \in Nat : n <= pages => upTo[n] = f[n]}
  <1>10. 0 \in T
    BY <1>3, <1>8
  <1>11. ASSUME NEW n \in Nat, n \in T PROVE n + 1 \in T
    <2>1. SUFFICES ASSUME n + 1 <= pages PROVE upTo[n + 1] = f[n + 1]
      OBVIOUS
    <2>2. /\ n \in 0 .. (pages - 1) /\ n + 1 \in 0 .. pages /\ n + 1 # 0 /\ (n + 1) - 1 = n
          /\ upTo[n] = f[n]
      BY <1>11, <2>1
    <2>3. upTo[n + 1] = Then(n + 1, upTo[n])
      BY <1>8, <2>2
    <2>4. Then(n + 1, upTo[n]) = Go(n, upTo[n])
      BY <1>4, <2>2
    <2>. QED  BY <1>3b, <2>2, <2>3, <2>4
  <1>. HIDE DEF T
  <1>12. Nat \subseteq T
    BY <1>10, <1>11, NaturalsByStep
  <1>13. upTo[pages] = f[pages]
    BY <1>12 DEF T
  <1>14. pages \in 0 .. pages
    OBVIOUS
  <1>. QED  BY <1>3a, <1>9, <1>13, <1>14

LEMMA RangeKeepsForest ==
  ASSUME NEW R, R \subseteq Pages, taken \subseteq Pages, NEW dir \in R,
         NEW m, Good(m, R), NEW base \in Nat, NEW pages \in Nat,
         NEW flags \in SUBSET Flags, "present" \in flags
  PROVE  Good(MapRange(m, dir, base, pages, flags), R)
  <1>. DEFINE G == {w \in Walkers : Good(w, R)}
              V == [n \in 0 .. pages |-> G]
  <1>1. m \in V[0]
    BY DEF Good
  <1>2. RangeKeeps(V, dir, base, pages, flags)
    <2>1. ASSUME NEW n \in 0 .. (pages - 1), NEW w \in G
          PROVE  RangeStep(w, dir, base, n, flags) \in G
      <3>1. CASE w.table = NULL
        BY <3>1 DEF RangeStep
      <3>2. CASE w.table # NULL
        <4>1. Good(w, R) /\ n \in Nat /\ base + n \in Nat
          OBVIOUS
        <4>2. Good(Map(w, dir, n, base + n, flags), R)
          BY <3>2, <4>1, MapKeepsForest
        <4>. QED  BY <3>2, <4>2 DEF RangeStep, Good
      <3>. QED  BY <3>1, <3>2
    <2>2. \A n \in 0 .. (pages - 1) : V[n] = G /\ V[n + 1] = G
      OBVIOUS
    <2>. HIDE DEF G, V
    <2>. QED  BY <2>1, <2>2 DEF RangeKeeps
  <1>. HIDE DEF V
  <1>3. MapRange(m, dir, base, pages, flags) \in V[pages]
    BY <1>1, <1>2, RangeStays
  <1>. QED  BY <1>3 DEF V

\* Nothing is mapped after a fault.
LEMMA RangeFaulted ==
  ASSUME NEW m, m.table = NULL, NEW dir, NEW base \in Nat, NEW pages \in Nat, NEW flags
  PROVE  MapRange(m, dir, base, pages, flags) = m
  <1>. DEFINE V == [n \in 0 .. pages |-> {m}]
  <1>1. RangeKeeps(V, dir, base, pages, flags)
    <2>1. \A n \in 0 .. (pages - 1) : V[n] = {m} /\ V[n + 1] = {m}
      OBVIOUS
    <2>. HIDE DEF V
    <2>. QED  BY <2>1 DEF RangeKeeps, RangeStep
  <1>2. m \in V[0] /\ V[pages] = {m}
    OBVIOUS
  <1>. HIDE DEF V
  <1>3. MapRange(m, dir, base, pages, flags) \in V[pages]
    BY <1>1, <1>2, RangeStays
  <1>. QED  BY <1>2, <1>3
----------------------------------------------------------------------------
(* The CPU's walk.                                                         *)

\* The entries it sees, from the directory down.
CpuWalk(W, mem, dir, va) ==
  /\ W \in [Nat -> Entry] /\ W[0] = [frame |-> dir, flags |-> Flags]
  /\ \A n \in Depths : W[n + 1] = Follow(mem, W[n], Index(va, Levels - n))
Seen(mem, dir, va) == CHOOSE W : CpuWalk(W, mem, dir, va)

LEMMA FollowType ==
  ASSUME NEW mem \in Memory, NEW above \in Entry, NEW i \in Indices
  PROVE  Follow(mem, above, i) \in Entry
  <1>1. CASE "present" \notin above.flags \/ above.frame \notin Pages
    <2>1. NotMapped \in Entry
      BY DEF NotMapped, Entry, NULL
    <2>. QED  BY <1>1, <2>1 DEF Follow
  <1>2. CASE ~("present" \notin above.flags \/ above.frame \notin Pages)
    <2>. DEFINE entry == mem[above.frame][i]
    <2>1. entry \in Entry
      BY <1>2 DEF Memory
    <2>. HIDE DEF entry
    <2>2. entry.frame \in Nat /\ entry.flags \cap above.flags \in SUBSET Flags
      BY <2>1 DEF Entry
    <2>3. Follow(mem, above, i) = [frame |-> entry.frame, flags |-> entry.flags \cap above.flags]
      BY <1>2 DEF Follow, entry
    <2>. QED  BY <2>2, <2>3 DEF Entry
  <1>. QED  BY <1>1, <1>2

LEMMA CpuSteps ==
  ASSUME NEW mem \in Memory, NEW dir \in Pages, NEW va \in Nat
  PROVE  /\ CpuWalk(Seen(mem, dir, va), mem, dir, va)
         /\ Translate(mem, dir, va) = Seen(mem, dir, va)[Levels]
  <1>. DEFINE start == [frame |-> dir, flags |-> Flags]
              Look(above, level) == Follow(mem, above, Index(va, level))
              Go(n, w) == IF n \in Depths THEN Look(w, Levels - n) ELSE w
              step == [n \in Nat |-> [w \in Entry |-> Go(n, w)]]
  <1>1. start \in Entry
    BY TablesTypes DEF Entry
  <1>2. ASSUME NEW n \in Depths PROVE n \in Nat /\ Levels - n \in 1 .. Levels
    BY TablesTypes DEF Depths
  <1>3. ASSUME NEW n \in Depths, NEW w \in Entry PROVE Look(w, Levels - n) \in Entry
    BY <1>2, IndexType, FollowType
  <1>. HIDE DEF Look
  <1>4. step \in [Nat -> [Entry -> Entry]]
    <2>1. \A n \in Nat : \A w \in Entry : Go(n, w) \in Entry
      BY <1>3
    <2>. HIDE DEF Go
    <2>. QED  BY <2>1
  <1>5. PICK K : Iterates(K, Entry, start, step)
    <2>. HIDE DEF step, start
    <2>. QED  BY <1>1, <1>4, Iteration
  <1>6. K \in [Nat -> Entry] /\ K[0] = start /\ \A n \in Nat : K[n + 1] = Go(n, K[n])
    BY <1>5 DEF Iterates
  <1>. HIDE DEF step
  <1>7. CpuWalk(K, mem, dir, va)
    <2>1. \A n \in Depths : K[n + 1] = Look(K[n], Levels - n)
      BY <1>2, <1>6
    <2>. QED  BY <1>6, <2>1 DEF CpuWalk, Look
  <1>. DEFINE W == Seen(mem, dir, va)
  <1>8. CpuWalk(W, mem, dir, va)
    <2>. HIDE DEF start
    <2>. QED  BY <1>7 DEF Seen
  <1>. HIDE DEF W, start
  <1>9. /\ W \in [Nat -> Entry] /\ W[0] = start
        /\ \A n \in Depths : W[n + 1] = Look(W[n], Levels - n)
    BY <1>8 DEF CpuWalk, Look, start
  <1>. DEFINE Eq(g) == g = [level \in 1 .. (Levels + 1) |->
                              IF level = Levels + 1 THEN {start}
                              ELSE {Look(above, level) : above \in g[level + 1]}]
              h == [level \in 1 .. (Levels + 1) |-> {W[Levels + 1 - level]}]
              reached == CHOOSE g : Eq(g)
  <1>10. ASSUME NEW level \in 1 .. (Levels + 1)
         PROVE  h[level] = IF level = Levels + 1 THEN {start}
                           ELSE {Look(above, level) : above \in h[level + 1]}
    <2>1. CASE level = Levels + 1
      <3>1. Levels + 1 - level = 0
        BY <2>1, TablesTypes
      <3>. QED  BY <1>9, <2>1, <3>1
    <2>2. CASE level # Levels + 1
      <3>. DEFINE n == Levels - level
      <3>1. /\ n \in Depths /\ n + 1 = Levels + 1 - level /\ Levels - n = level
            /\ Levels + 1 - (level + 1) = n /\ level + 1 \in 1 .. (Levels + 1)
        BY <2>2, TablesTypes DEF Depths
      <3>. HIDE DEF n
      <3>2. W[n + 1] = Look(W[n], level)
        BY <1>9, <3>1
      <3>3. h[level] = {W[n + 1]} /\ h[level + 1] = {W[n]}
        BY <3>1
      <3>. HIDE DEF h
      <3>4. {Look(above, level) : above \in h[level + 1]} = {Look(W[n], level)}
        BY <3>3
      <3>. QED  BY <2>2, <3>2, <3>3, <3>4
    <2>. QED  BY <2>1, <2>2
  <1>11. Eq(h)
    <2>1. h = [level \in 1 .. (Levels + 1) |-> h[level]]
      OBVIOUS
    <2>. HIDE DEF h
    <2>2. [level \in 1 .. (Levels + 1) |-> h[level]]
            = [level \in 1 .. (Levels + 1) |-> IF level = Levels + 1 THEN {start}
                 ELSE {Look(above, level) : above \in h[level + 1]}]
      BY <1>10
    <2>. QED  BY <2>1, <2>2
  <1>. HIDE DEF h
  <1>12. Eq(reached)
    <2>. HIDE DEF Eq
    <2>. QED  BY <1>11
  <1>13. \A level \in 1 .. (Levels + 1) :
           reached[level] = IF level = Levels + 1 THEN {start}
                            ELSE {Look(above, level) : above \in reached[level + 1]}
    <2>. HIDE DEF reached
    <2>. QED  BY <1>12
  <1>14. Translate(mem, dir, va) = CHOOSE entry \in reached[1] : TRUE
    BY Zenon DEF Translate, Look, start
  <1>. HIDE DEF reached, Eq
  <1>. DEFINE T == {n \in Nat : n <= Levels => reached[Levels + 1 - n] = {W[n]}}
  <1>15. 0 \in T
    <2>1. Levels + 1 - 0 = Levels + 1 /\ Levels + 1 \in 1 .. (Levels + 1)
      BY TablesTypes
    <2>2. reached[Levels + 1] = {start}
      BY <1>13, <2>1
    <2>. QED  BY <1>9, <2>1, <2>2
  <1>16. ASSUME NEW n \in Nat, n \in T PROVE n + 1 \in T
    <2>1. CASE n + 1 <= Levels
      <3>. DEFINE level == Levels - n
      <3>1. /\ n \in Depths /\ level \in 1 .. (Levels + 1) /\ level # Levels + 1 /\ n <= Levels
            /\ level + 1 = Levels + 1 - n /\ level = Levels + 1 - (n + 1)
        BY <2>1, TablesTypes DEF Depths
      <3>2. reached[Levels + 1 - n] = {W[n]}
        BY <1>16, <3>1
      <3>. HIDE DEF level
      <3>3. reached[level] = {Look(above, level) : above \in {W[n]}}
        BY <1>13, <3>1, <3>2
      <3>4. W[n + 1] = Look(W[n], level)
        BY <1>9, <3>1 DEF level
      <3>5. reached[level] = {W[n + 1]}
        BY <3>3, <3>4
      <3>. QED  BY <3>1, <3>5
    <2>2. CASE ~(n + 1 <= Levels)
      BY <2>2
    <2>. QED  BY <2>1, <2>2
  <1>. HIDE DEF T
  <1>17. Nat \subseteq T
    BY <1>15, <1>16, NaturalsByStep
  <1>18. reached[1] = {W[Levels]}
    <2>1. Levels \in T /\ Levels + 1 - Levels = 1
      BY <1>17, TablesTypes
    <2>. QED  BY <2>1, TablesTypes DEF T
  <1>19. Translate(mem, dir, va) = W[Levels]
    BY <1>14, <1>18
  <1>. QED  BY <1>8, <1>19 DEF W

\* The entry the CPU has seen at depth n, and the one at depth n + 1 it looks up.
Walked(mem, dir, va, n) == Seen(mem, dir, va)[n]
Digit(va, n) == Index(va, Levels - n)

LEMMA WalkedSteps ==
  ASSUME NEW mem \in Memory, NEW dir \in Pages, NEW va \in Nat
  PROVE  /\ Walked(mem, dir, va, 0) = [frame |-> dir, flags |-> Flags]
         /\ \A n \in Nat : Walked(mem, dir, va, n) \in Entry
         /\ \A n \in Depths :
              Walked(mem, dir, va, n + 1) = Follow(mem, Walked(mem, dir, va, n), Digit(va, n))
         /\ Translate(mem, dir, va) = Walked(mem, dir, va, Levels)
  <1>1. /\ CpuWalk(Seen(mem, dir, va), mem, dir, va)
        /\ Translate(mem, dir, va) = Seen(mem, dir, va)[Levels]
    BY CpuSteps
  <1>. QED  BY <1>1 DEF CpuWalk, Walked, Digit

LEMMA DigitType ==
  ASSUME NEW va \in Nat, NEW n \in Depths
  PROVE  Digit(va, n) \in Indices
  <1>1. Levels - n \in 1 .. Levels
    BY TablesTypes DEF Depths
  <1>. QED  BY <1>1, IndexType DEF Digit

\* One step of a walk that goes on.
LEMMA WalkedOn ==
  ASSUME NEW mem \in Memory, NEW dir \in Pages, NEW va \in Nat, NEW n \in Depths,
         "present" \in Walked(mem, dir, va, n + 1).flags
  PROVE  /\ "present" \in Walked(mem, dir, va, n).flags
         /\ Walked(mem, dir, va, n).frame \in Pages
         /\ Present(mem, Walked(mem, dir, va, n).frame, Digit(va, n))
         /\ Walked(mem, dir, va, n + 1).frame
              = mem[Walked(mem, dir, va, n).frame][Digit(va, n)].frame
         /\ Walked(mem, dir, va, n + 1).flags
              = mem[Walked(mem, dir, va, n).frame][Digit(va, n)].flags
                  \cap Walked(mem, dir, va, n).flags
  <1>. DEFINE above == Walked(mem, dir, va, n)
              entry == mem[above.frame][Digit(va, n)]
  <1>1. Walked(mem, dir, va, n + 1) = Follow(mem, above, Digit(va, n))
    BY WalkedSteps
  <1>. HIDE DEF above
  <1>2. "present" \in above.flags /\ above.frame \in Pages
    BY <1>1 DEF Follow, NotMapped
  <1>3. Walked(mem, dir, va, n + 1) = [frame |-> entry.frame, flags |-> entry.flags \cap above.flags]
    BY <1>1, <1>2 DEF Follow
  <1>. HIDE DEF entry
  <1>4. /\ Walked(mem, dir, va, n + 1).frame = entry.frame
        /\ Walked(mem, dir, va, n + 1).flags = entry.flags \cap above.flags
    BY <1>3
  <1>. QED  BY <1>2, <1>4 DEF Present, above, entry

\* What is present below was present above.
LEMMA WalkedAbove ==
  ASSUME NEW mem \in Memory, NEW dir \in Pages, NEW va \in Nat, NEW n \in 0 .. Levels,
         "present" \in Walked(mem, dir, va, n).flags
  PROVE  \A k \in 0 .. n : "present" \in Walked(mem, dir, va, k).flags
  <1>. DEFINE T == {k \in Nat : k <= n => "present" \in Walked(mem, dir, va, n - k).flags}
  <1>1. 0 \in T
    <2>1. n - 0 = n
      OBVIOUS
    <2>. QED  BY <2>1
  <1>2. ASSUME NEW k \in Nat, k \in T PROVE k + 1 \in T
    <2>1. SUFFICES ASSUME k + 1 <= n
                   PROVE  "present" \in Walked(mem, dir, va, n - (k + 1)).flags
      OBVIOUS
    <2>. DEFINE d == n - (k + 1)
    <2>2. d \in Depths /\ d + 1 = n - k /\ k <= n
      BY <2>1, TablesTypes DEF Depths
    <2>3. "present" \in Walked(mem, dir, va, n - k).flags
      BY <1>2, <2>2
    <2>. HIDE DEF d
    <2>4. "present" \in Walked(mem, dir, va, d + 1).flags
      BY <2>2, <2>3
    <2>5. "present" \in Walked(mem, dir, va, d).flags
      BY <2>2, <2>4, WalkedOn
    <2>. QED  BY <2>5 DEF d
  <1>. HIDE DEF T
  <1>3. Nat \subseteq T
    BY <1>1, <1>2, NaturalsByStep
  <1>4. ASSUME NEW k \in 0 .. n PROVE "present" \in Walked(mem, dir, va, k).flags
    <2>1. n - k \in T /\ n - k <= n /\ n - (n - k) = k
      BY <1>3
    <2>. QED  BY <2>1 DEF T
  <1>. QED  BY <1>4

\* The walk passes the layers of the directory.
LEMMA WalkedLayers ==
  ASSUME NEW mem \in Memory, NEW dir \in Pages, NEW va \in Nat, NEW n \in 0 .. Levels,
         "present" \in Walked(mem, dir, va, n).flags, Walked(mem, dir, va, n).frame \in Pages
  PROVE  Walked(mem, dir, va, n).frame \in Layer(mem, dir, n)
  <1>. DEFINE W(k) == Walked(mem, dir, va, k)
              T == {k \in Nat : k <= n => (W(k).frame \in Pages => W(k).frame \in Layer(mem, dir, k))}
  <1>1. 0 \in T
    <2>1. W(0).frame = dir
      BY WalkedSteps
    <2>2. Layer(mem, dir, 0) = {dir}
      BY LayerSteps
    <2>. QED  BY <2>1, <2>2
  <1>2. ASSUME NEW k \in Nat, k \in T PROVE k + 1 \in T
    <2>1. SUFFICES ASSUME k + 1 <= n, W(k + 1).frame \in Pages
                   PROVE  W(k + 1).frame \in Layer(mem, dir, k + 1)
      OBVIOUS
    <2>2. k \in Depths /\ k + 1 \in 0 .. n /\ k <= n
      BY <2>1, TablesTypes DEF Depths
    <2>3. "present" \in W(k + 1).flags
      BY <2>2, WalkedAbove
    <2>4. /\ W(k).frame \in Pages /\ Present(mem, W(k).frame, Digit(va, k))
          /\ W(k + 1).frame = mem[W(k).frame][Digit(va, k)].frame
      BY <2>2, <2>3, WalkedOn
    <2>5. W(k).frame \in Layer(mem, dir, k)
      BY <1>2, <2>2, <2>4
    <2>6. Digit(va, k) \in Indices
      BY <2>2, DigitType
    <2>. HIDE DEF W
    <2>7. W(k + 1).frame \in Under(mem, W(k).frame)
      BY <2>4, <2>6 DEF Under, Present
    <2>8. Layer(mem, dir, k + 1) = (UNION {Under(mem, t) : t \in Layer(mem, dir, k)}) \cap Pages
      BY LayerSteps
    <2>. QED  BY <2>1, <2>5, <2>7, <2>8
  <1>. HIDE DEF T, W
  <1>3. Nat \subseteq T
    BY <1>1, <1>2, NaturalsByStep
  <1>. QED  BY <1>3 DEF T, W
----------------------------------------------------------------------------
(* Unmapping keeps the forest.                                             *)

\* Where the tables are all there, the kernel's walk writes nothing and
\* follows the CPU's.
LEMMA WalkOfTables ==
  ASSUME NEW m \in Walkers, NEW dir \in Pages, NEW va \in Nat, NEW flags \in SUBSET Flags,
         NEW K, KernelWalk(K, m, dir, va, flags), NEW last \in Depths,
         "present" \in Walked(m.memory, dir, va, last).flags
  PROVE  \A n \in 0 .. last :
           /\ K[n].memory = m.memory /\ K[n].free = m.free
           /\ K[n].table # NULL => K[n].table = Walked(m.memory, dir, va, n).frame
  <1>. DEFINE W(n) == Walked(m.memory, dir, va, n)
              Same(n) == /\ K[n].memory = m.memory /\ K[n].free = m.free
                         /\ K[n].table # NULL => K[n].table = W(n).frame
              T == {n \in Nat : n <= last => Same(n)}
  <1>0. /\ K \in [Nat -> Walkers] /\ K[0] = [m EXCEPT !.table = dir] /\ last \in Nat
        /\ last <= Levels - 1 /\ m.memory \in Memory
    BY TablesTypes DEF KernelWalk, Depths, Walkers
  <1>1. 0 \in T
    <2>1. K[0].memory = m.memory /\ K[0].free = m.free /\ K[0].table = dir
      BY <1>0 DEF Walkers
    <2>2. W(0).frame = dir
      BY <1>0, WalkedSteps
    <2>. HIDE DEF W
    <2>. QED  BY <2>1, <2>2
  <1>2. ASSUME NEW n \in Nat, n \in T PROVE n + 1 \in T
    <2>1. SUFFICES ASSUME n + 1 <= last PROVE Same(n + 1)
      OBVIOUS
    <2>. DEFINE w == K[n]
                i == Digit(va, n)
                next == K[n + 1]
    <2>2. n \in Upper /\ n \in Depths /\ n + 1 \in 0 .. last /\ n <= last /\ last \in 0 .. Levels
      BY <1>0, <2>1, TablesTypes DEF Upper, Depths
    <2>3. i \in Indices /\ w \in Walkers /\ next = vmm_get_page_map_level(w, i, flags)
      BY <1>0, <2>2, DigitType DEF KernelWalk, Digit
    <2>4. "present" \in W(n + 1).flags
      BY <1>0, <2>2, WalkedAbove
    <2>5. /\ Present(m.memory, W(n).frame, i) /\ W(n + 1).frame = m.memory[W(n).frame][i].frame
          /\ W(n).frame \in Pages
      BY <1>0, <2>2, <2>4, WalkedOn
    <2>6. /\ w.memory = m.memory /\ w.free = m.free
          /\ w.table # NULL => w.table = W(n).frame
      BY <1>2, <2>2
    <2>. HIDE DEF w, i, next, W
    <2>7. \/ next = [w EXCEPT !.table = NULL]
          \/ /\ w.table \in Pages /\ Present(w.memory, w.table, i)
             /\ next = [w EXCEPT !.table = w.memory[w.table][i].frame]
          \/ w.table \in Pages /\ ~Present(w.memory, w.table, i)
      BY <2>3, LevelCases DEF LevelResult
    <2>8. CASE next = [w EXCEPT !.table = NULL]
      <3>1. next.memory = m.memory /\ next.free = m.free /\ next.table = NULL
        BY <2>3, <2>6, <2>8 DEF Walkers
      <3>. QED  BY <3>1 DEF next
    <2>9. CASE /\ w.table \in Pages /\ Present(w.memory, w.table, i)
               /\ next = [w EXCEPT !.table = w.memory[w.table][i].frame]
      <3>1. /\ next.memory = m.memory /\ next.free = m.free
            /\ next.table = w.memory[w.table][i].frame
        BY <2>3, <2>6, <2>9 DEF Walkers
      <3>2. w.table = W(n).frame
        BY <2>6, <2>9, TablesTypes
      <3>. QED  BY <2>5, <2>6, <3>1, <3>2 DEF next
    <2>10. CASE w.table \in Pages /\ ~Present(w.memory, w.table, i)
      <3>1. w.table = W(n).frame
        BY <2>6, <2>10, TablesTypes
      <3>. QED  BY <2>5, <2>6, <2>10, <3>1
    <2>. QED  BY <2>7, <2>8, <2>9, <2>10
  <1>. HIDE DEF T
  <1>3. Nat \subseteq T
    BY <1>1, <1>2, NaturalsByStep
  <1>4. \A n \in 0 .. last : Same(n)
    BY <1>0, <1>3 DEF T
  <1>. QED  BY <1>4

\* vmm_unmap_page keeps the forest if the page was mapped.
LEMMA UnmapKeepsForest ==
  ASSUME NEW R, R \subseteq Pages, taken \subseteq Pages, NEW dir \in R,
         NEW m, Good(m, R), m.table # NULL, NEW va \in Nat, Mapped(m.memory, dir, va)
  PROVE  Good(Unmap(m, dir, va), R)
  <1>1. /\ m \in Walkers /\ m.memory \in Memory /\ dir \in Pages /\ Levels - 1 \in Depths
        /\ {} \in SUBSET Flags /\ NotMapped \in Entry
    BY TablesTypes DEF Good, Depths, Walkers, NotMapped, Entry
  <1>2. PICK K : /\ KernelWalk(K, m, dir, va, {})
                 /\ \A e : WriteEntry(m, dir, va, e, {}) = Finish(K[Levels - 1], va, e)
    BY <1>1, KernelSteps
  <1>. DEFINE last == K[Levels - 1]
              above == Walked(m.memory, dir, va, Levels - 1)
  <1>3. "present" \in above.flags /\ above.frame \in Pages
    <2>1. "present" \in Walked(m.memory, dir, va, Levels).flags
      BY <1>1, WalkedSteps DEF Mapped
    <2>2. (Levels - 1) + 1 = Levels
      BY TablesTypes
    <2>. QED  BY <1>1, <2>1, <2>2, WalkedOn
  <1>4. /\ last \in Walkers /\ last.memory = m.memory /\ last.free = m.free
        /\ last.table # NULL => last.table = above.frame
    <2>1. Levels - 1 \in 0 .. (Levels - 1) /\ Levels - 1 \in Nat
      BY TablesTypes
    <2>2. last \in Walkers
      BY <1>2, <2>1 DEF KernelWalk
    <2>3. KernelWalk(K, m, dir, va, {})
      BY <1>2
    <2>4. \A n \in 0 .. (Levels - 1) :
            /\ K[n].memory = m.memory /\ K[n].free = m.free
            /\ K[n].table # NULL => K[n].table = Walked(m.memory, dir, va, n).frame
      <3>. DEFINE d == Levels - 1
                  none == {}
      <3>1. /\ "present" \in Walked(m.memory, dir, va, d).flags /\ d \in Depths
            /\ none \in SUBSET Flags /\ KernelWalk(K, m, dir, va, none)
        BY <1>1, <1>3, <2>3
      <3>. HIDE DEF d, none, last, above
      <3>2. \A n \in 0 .. d :
              /\ K[n].memory = m.memory /\ K[n].free = m.free
              /\ K[n].table # NULL => K[n].table = Walked(m.memory, dir, va, n).frame
        BY <1>1, <3>1, WalkOfTables
      <3>. QED  BY <3>2 DEF d
    <2>. QED  BY <2>1, <2>2, <2>4
  <1>5. above.frame \in Layer(m.memory, dir, Levels - 1)
    <2>1. Levels - 1 \in 0 .. Levels
      BY TablesTypes
    <2>. QED  BY <1>1, <1>3, <2>1, WalkedLayers
  <1>. HIDE DEF last, above
  <1>6. Good(last, R) /\ Arrived(last, dir, Levels - 1)
    BY <1>4, <1>5 DEF Good, Arrived
  <1>7. Unmap(m, dir, va) = Finish(last, va, NotMapped)
    BY <1>2 DEF Unmap, last
  <1>. QED  BY <1>1, <1>6, <1>7, FinishKeepsForest
----------------------------------------------------------------------------
(* The invariant of the memory manager.                                    *)

\* The pages the PMM gives away hold zeroes: memory starts so, and clients
\* clear their pages before they free them.  (On a page that holds anything
\* else a new table maps what it finds there: run vmm_stale.)
PagesComeCleared ==
  /\ \A mem \in Memories : \A p \in Pages : mem[p] = Cleared
  /\ Contents \subseteq {Cleared}

\* Clients unmap what they mapped.  (A walk with flags 0 through a table that
\* is missing writes an entry that is not present, and loses a page.)
MappedIsUnmapped == ~UnmapUnmapped

Different == \A k, l \in DOMAIN dirs : k # l => dirs[k] # dirs[l]
PagesTyped ==
  /\ memory \in Memory /\ usable \subseteq Pages
  /\ free \subseteq usable /\ taken \subseteq usable /\ free \cap taken = {}
  /\ status \in {"boot", "running", "fault"}
DirsTyped == dirs \in Seq(Pages) /\ Different /\ (status = "boot" => dirs = <<>>)

\* The page directories are the roots of a forest of tables, in which no
\* page that the PMM or a client has is a table, and which has every other
\* page: until a fault, all of them.
VmmInv ==
  /\ PagesTyped /\ DirsTyped
  /\ Forest(memory, Roots, free \cup taken)
  /\ status = "running" => /\ FramesInMemory(memory, Roots)
                           /\ usable \ (free \cup taken) = TablesIn(memory, Roots)
  /\ status = "boot" => usable = free /\ taken = {}

LEMMA RootsArePages ==
  ASSUME DirsTyped
  PROVE  Roots \subseteq Pages /\ \A k \in DOMAIN dirs : dirs[k] \in Roots
  BY DEF DirsTyped, Roots

LEMMA EmptyForest ==
  ASSUME NEW mem, NEW spare, \A p \in spare : mem[p] = Cleared
  PROVE  Forest(mem, {}, spare) /\ FramesInMemory(mem, {}) /\ TablesIn(mem, {}) = {}
  BY DEF Forest, FramesInMemory, TablesIn, UpperIn, Separate, SingleParents

LEMMA InitVmm ==
  ASSUME PagesComeCleared, Init
  PROVE  VmmInv
  <1>1. /\ memory \in Memory /\ usable \subseteq Pages /\ free = usable /\ taken = {}
        /\ status = "boot" /\ dirs = <<>>
    BY VMMAssumption DEF Init, Memory
  <1>2. \A p \in free \cup taken : memory[p] = Cleared
    BY <1>1 DEF PagesComeCleared, Init
  <1>3. Roots = {} /\ Different /\ dirs \in Seq(Pages)
    BY <1>1 DEF Roots, Different
  <1>4. Forest(memory, Roots, free \cup taken)
    BY <1>2, <1>3, EmptyForest
  <1>. QED  BY <1>1, <1>3, <1>4 DEF VmmInv, PagesTyped, DirsTyped

\* What the kernel's work on m has kept, the state keeps that it becomes.
LEMMA GoodBecomes ==
  ASSUME PagesTyped, NEW m, NEW R, Good(m, R), Become(m), UNCHANGED <<usable, taken>>,
         DirsTyped', Roots' = R
  PROVE  VmmInv'
  <1>1. /\ memory' = m.memory /\ free' = m.free /\ usable' = usable /\ taken' = taken
        /\ status' \in {"running", "fault"} /\ (status' # "fault" => m.table # NULL)
    BY DEF Become
  <1>2. PagesTyped'
    <2>1. memory' \in Memory
      BY <1>1 DEF Good, Walkers
    <2>2. free' \subseteq usable /\ free' \cap taken = {}
      BY <1>1 DEF Good
    <2>. QED  BY <1>1, <2>1, <2>2 DEF PagesTyped
  <1>3. Forest(memory', R, free' \cup taken')
    BY <1>1 DEF Good
  <1>4. status' = "running" => /\ FramesInMemory(memory', R)
                               /\ usable' \ (free' \cup taken') = TablesIn(memory', R)
    BY <1>1 DEF Good
  <1>5. status' # "boot"
    BY <1>1
  <1>. QED  BY <1>2, <1>3, <1>4, <1>5 DEF VmmInv

\* The state that a call of vmm_map_page or vmm_unmap_page starts in.
LEMMA GoodStart ==
  ASSUME VmmInv, status = "running", NEW k \in DOMAIN dirs,
         NEW m, m = [memory |-> memory, free |-> free, table |-> dirs[k]]
  PROVE  /\ Good(m, Roots) /\ m.table # NULL /\ m.memory = memory /\ m.free = free
         /\ dirs[k] \in Roots /\ Roots \subseteq Pages /\ taken \subseteq Pages
  <1>1. dirs[k] \in Roots /\ Roots \subseteq Pages
    BY RootsArePages DEF VmmInv
  <1>2. m.memory = memory /\ m.free = free /\ m.table = dirs[k]
    OBVIOUS
  <1>3. dirs[k] \in Pages /\ dirs[k] \in Nat /\ dirs[k] # NULL
    BY <1>1, TablesTypes
  <1>4. m \in Walkers /\ taken \subseteq Pages
    BY <1>3 DEF Walkers, VmmInv, PagesTyped
  <1>. HIDE DEF VmmInv
  <1>5. /\ free \subseteq usable /\ free \cap taken = {}
        /\ Forest(memory, Roots, free \cup taken) /\ FramesInMemory(memory, Roots)
        /\ usable \ (free \cup taken) = TablesIn(memory, Roots)
    BY DEF VmmInv, PagesTyped
  <1>. QED  BY <1>1, <1>2, <1>3, <1>4, <1>5 DEF Good

\* A new directory is a tree of its own, or there is none.
LEMMA DirectoryMade ==
  ASSUME VmmInv, status # "fault", NEW m, m = vmm_create_page_directory
  PROVE  /\ m.memory = memory /\ m.free \subseteq free
         /\ m.table # NULL => /\ m.table \in Pages /\ m.table \notin Roots
                              /\ Good(m, Roots \cup {m.table})
  <1>. DEFINE dir == pmm_alloc(free)
  <1>1. free \subseteq Pages /\ memory \in Memory /\ Roots \subseteq Pages
    BY RootsArePages DEF VmmInv, PagesTyped
  <1>2. dir \in free \/ (free = {} /\ dir = NULL)
    BY <1>1, FreePage
  <1>. HIDE DEF dir
  <1>3. CASE ~Reachable(memory, dir)
    <2>1. m = [memory |-> memory, free |-> free \ {dir}, table |-> NULL]
      BY <1>3 DEF vmm_create_page_directory, dir
    <2>. QED  BY <2>1
  <1>4. CASE Reachable(memory, dir)
    <2>1. dir \in Pages /\ dir \in free /\ dir # NULL
      BY <1>2, <1>4, TablesTypes DEF Reachable
    <2>2. m = [memory |-> [memory EXCEPT ![dir] = Cleared], free |-> free \ {dir}, table |-> dir]
      BY <1>4 DEF vmm_create_page_directory, dir
    <2>3. memory[dir] = Cleared
      BY <2>1 DEF VmmInv, Forest
    <2>4. [memory EXCEPT ![dir] = Cleared] = memory
      BY <1>1, <2>1, <2>3 DEF Memory
    <2>5. m.memory = memory /\ m.free = free \ {dir} /\ m.table = dir
      BY <2>2, <2>4
    <2>6. m \in Walkers
      <3>1. m = [memory |-> memory, free |-> free \ {dir}, table |-> dir]
        BY <2>2, <2>4
      <3>2. dir \in Nat
        BY <2>1, TablesTypes
      <3>. QED  BY <1>1, <3>1, <3>2 DEF Walkers
    <2>7. Forest(memory, Roots, free \cup taken) /\ dir \in free \cup taken
      BY <2>1 DEF VmmInv
    <2>8. /\ Forest(memory, Roots \cup {dir}, (free \cup taken) \ {dir})
          /\ TablesIn(memory, Roots \cup {dir}) = TablesIn(memory, Roots) \cup {dir}
          /\ FramesInMemory(memory, Roots) => FramesInMemory(memory, Roots \cup {dir})
      BY <1>1, <2>1, <2>7, NewDirectory
    <2>9. free \subseteq usable /\ free \cap taken = {}
      BY DEF VmmInv, PagesTyped
    <2>10. (free \cup taken) \ {dir} = m.free \cup taken
      BY <2>1, <2>5, <2>9
    <2>11. /\ FramesInMemory(memory, Roots)
           /\ usable \ (free \cup taken) = TablesIn(memory, Roots)
      <3>1. CASE status = "running"
        BY <3>1 DEF VmmInv
      <3>2. CASE status = "boot"
        <4>1. Roots = {} /\ usable = free
          BY <3>2 DEF VmmInv, DirsTyped, Roots
        <4>2. FramesInMemory(memory, {}) /\ TablesIn(memory, {}) = {}
          BY DEF FramesInMemory, TablesIn, UpperIn
        <4>. QED  BY <4>1, <4>2
      <3>. QED  BY <3>1, <3>2 DEF VmmInv, PagesTyped
    <2>12. usable \ (m.free \cup taken) = TablesIn(memory, Roots \cup {dir})
      BY <2>1, <2>5, <2>8, <2>9, <2>11
    <2>13. dir \notin Roots
      <3>1. Roots \subseteq TablesIn(memory, Roots)
        BY <1>1, LayersOfForest
      <3>. QED  BY <2>1, <2>7, <3>1 DEF Forest
    <2>. QED  BY <2>1, <2>5, <2>6, <2>8, <2>9, <2>10, <2>11, <2>12, <2>13 DEF Good
  <1>. QED  BY <1>3, <1>4

LEMMA BootKeepsInv ==
  ASSUME VmmInv, vmm_init
  PROVE  VmmInv'
  <1>. DEFINE root == vmm_create_page_directory
              low  == MapLow(root, root.table)
              data == MapRange(low, root.table, DataBase, LowPages, Flags)
              m    == MapRange(data, root.table, CodeBase, CodePages, {"present"})
  <1>1. /\ status = "boot" /\ Become(m) /\ UNCHANGED <<usable, taken>>
        /\ dirs' = IF root.table = NULL THEN <<>> ELSE <<root.table>>
    BY DEF vmm_init
  <1>2. /\ root.memory = memory /\ root.free \subseteq free
        /\ root.table # NULL => /\ root.table \in Pages /\ root.table \notin Roots
                                /\ Good(root, Roots \cup {root.table})
    BY <1>1, DirectoryMade
  <1>3. low = MapRange(root, root.table, 0, LowPages, Flags)
    BY DEF MapLow
  <1>4. /\ LowPages \in Nat /\ CodePages \in Nat /\ DataBase \in Nat /\ CodeBase \in Nat /\ 0 \in Nat
        /\ Flags \in SUBSET Flags /\ {"present"} \in SUBSET Flags
        /\ "present" \in Flags /\ "present" \in {"present"}
    BY VMMAssumption DEF Flags
  <1>5. Roots = {} /\ PagesTyped /\ taken \subseteq Pages
    BY <1>1 DEF VmmInv, DirsTyped, Roots, PagesTyped
  <1>6. status' # "boot"
    BY <1>1 DEF Become
  <1>. DEFINE dir == root.table
  <1>. HIDE DEF root, low, data, m
  <1>7. CASE dir = NULL
    <2>1. low = root
      BY <1>3, <1>4, <1>7, RangeFaulted
    <2>2. data = root
      BY <1>4, <1>7, <2>1, RangeFaulted DEF data
    <2>3. m = root
      BY <1>4, <1>7, <2>2, RangeFaulted DEF m
    <2>4. /\ memory' = memory /\ free' \subseteq free /\ status' = "fault" /\ dirs' = <<>>
          /\ usable' = usable /\ taken' = taken
      BY <1>1, <1>2, <1>7, <2>3 DEF Become
    <2>5. Roots' = {} /\ DirsTyped'
      BY <2>4 DEF Roots, DirsTyped, Different
    <2>6. PagesTyped'
      BY <1>5, <2>4 DEF PagesTyped
    <2>7. \A p \in free' \cup taken' : memory'[p] = Cleared
      BY <2>4 DEF VmmInv, Forest
    <2>8. Forest(memory', {}, free' \cup taken')
      BY <2>7, EmptyForest
    <2>. QED  BY <2>4, <2>5, <2>6, <2>8 DEF VmmInv
  <1>8. CASE dir # NULL
    <2>1. dir \in Pages /\ dir \in {dir} /\ {dir} \subseteq Pages /\ Good(root, {dir})
      BY <1>2, <1>5, <1>8
    <2>2. Good(low, {dir})
      BY <1>3, <1>4, <1>5, <2>1, RangeKeepsForest DEF dir
    <2>3. Good(data, {dir})
      <3>1. data = MapRange(low, dir, DataBase, LowPages, Flags)
        BY DEF data
      <3>. HIDE DEF dir
      <3>. QED  BY <1>4, <1>5, <2>1, <2>2, <3>1, RangeKeepsForest
    <2>4. Good(m, {dir})
      <3>. DEFINE readable == {"present"}
      <3>1. /\ m = MapRange(data, dir, CodeBase, CodePages, readable)
            /\ readable \in SUBSET Flags /\ "present" \in readable
        BY <1>4 DEF m
      <3>. HIDE DEF dir, readable
      <3>. QED  BY <1>4, <1>5, <2>1, <2>3, <3>1, RangeKeepsForest
    <2>5. dirs' = <<dir>>
      BY <1>1, <1>8
    <2>. HIDE DEF dir
    <2>6. DirsTyped' /\ Roots' = {dir}
      BY <1>6, <2>1, <2>5 DEF DirsTyped, Different, Roots
    <2>. QED  BY <1>1, <1>5, <2>4, <2>6, GoodBecomes
  <1>. QED  BY <1>7, <1>8

LEMMA CreateKeepsInv ==
  ASSUME VmmInv, CreateDirectory
  PROVE  VmmInv'
  <1>. DEFINE m == vmm_create_page_directory
              dir == m.table
  <1>1. /\ status = "running" /\ Become(m) /\ UNCHANGED <<usable, taken>>
        /\ dirs' = IF dir = NULL THEN dirs ELSE Append(dirs, dir)
    BY DEF CreateDirectory
  <1>2. /\ m.memory = memory /\ m.free \subseteq free
        /\ dir # NULL => dir \in Pages /\ dir \notin Roots /\ Good(m, Roots \cup {dir})
    BY <1>1, DirectoryMade
  <1>3. DirsTyped /\ PagesTyped /\ dirs \in Seq(Pages)
    BY DEF VmmInv, DirsTyped
  <1>. HIDE DEF m
  <1>4. CASE dir = NULL
    <2>1. /\ memory' = memory /\ free' \subseteq free /\ status' = "fault" /\ dirs' = dirs
          /\ usable' = usable /\ taken' = taken
      BY <1>1, <1>2, <1>4 DEF Become
    <2>2. Roots' = Roots /\ DirsTyped'
      BY <1>3, <2>1 DEF Roots, DirsTyped, Different
    <2>3. PagesTyped'
      BY <1>3, <2>1 DEF PagesTyped
    <2>4. Forest(memory, Roots, free' \cup taken')
      BY <2>1 DEF VmmInv, Forest
    <2>. QED  BY <2>1, <2>2, <2>3, <2>4 DEF VmmInv
  <1>5. CASE dir # NULL
    <2>1. dir \in Pages /\ dir \notin Roots /\ Good(m, Roots \cup {dir})
      BY <1>2, <1>5
    <2>2. dirs' = Append(dirs, dir) /\ status' # "boot"
      BY <1>1, <1>5 DEF Become
    <2>. HIDE DEF dir
    <2>3. /\ dirs' \in Seq(Pages) /\ DOMAIN dirs' = DOMAIN dirs \cup {Len(dirs) + 1}
          /\ \A k \in DOMAIN dirs : dirs'[k] = dirs[k]
          /\ dirs'[Len(dirs) + 1] = dir
      BY <1>3, <2>1, <2>2
    <2>4. Roots' = Roots \cup {dir}
      BY <2>3 DEF Roots
    <2>5. Different'
      <3>1. Different /\ \A k \in DOMAIN dirs : dirs[k] # dir
        BY <1>3, <2>1 DEF DirsTyped, Roots
      <3>. QED  BY <2>3, <3>1 DEF Different
    <2>6. DirsTyped'
      BY <2>2, <2>3, <2>5 DEF DirsTyped
    <2>. QED  BY <1>1, <1>3, <2>1, <2>4, <2>6, GoodBecomes
  <1>. QED  BY <1>4, <1>5

LEMMA DirsStay ==
  ASSUME DirsTyped, dirs' = dirs, status' # "boot"
  PROVE  DirsTyped' /\ Roots' = Roots
  BY DEF DirsTyped, Different, Roots

LEMMA MapPageKeepsInv ==
  ASSUME VmmInv, NEW k \in DOMAIN dirs, NEW frame \in taken, NEW va \in Addresses,
         NEW flags \in MapFlags, vmm_map_page(dirs[k], frame, va, flags)
  PROVE  VmmInv'
  <1>. DEFINE start == [memory |-> memory, free |-> free, table |-> dirs[k]]
              m == Map(start, dirs[k], frame, va, flags)
  <1>1. /\ status = "running" /\ Become(m) /\ UNCHANGED <<usable, taken>> /\ dirs' = dirs
        /\ status' # "boot"
    BY DEF vmm_map_page, Become
  <1>2. /\ Good(start, Roots) /\ start.table # NULL
        /\ dirs[k] \in Roots /\ Roots \subseteq Pages /\ taken \subseteq Pages
    BY <1>1, GoodStart
  <1>3. frame \in Nat /\ va \in Nat /\ flags \in SUBSET Flags /\ "present" \in flags
    BY <1>2, TablesTypes, VMMAssumption DEF VirtualPages
  <1>. HIDE DEF start
  <1>4. Good(m, Roots)
    BY <1>2, <1>3, MapKeepsForest
  <1>5. DirsTyped' /\ Roots' = Roots /\ PagesTyped
    BY <1>1, DirsStay DEF VmmInv
  <1>. HIDE DEF m
  <1>. QED  BY <1>1, <1>4, <1>5, GoodBecomes

LEMMA UnmapPageKeepsInv ==
  ASSUME MappedIsUnmapped, VmmInv, NEW k \in DOMAIN dirs, NEW va \in Addresses,
         vmm_unmap_page(dirs[k], va)
  PROVE  VmmInv'
  <1>. DEFINE start == [memory |-> memory, free |-> free, table |-> dirs[k]]
              m == Unmap(start, dirs[k], va)
  <1>1. /\ status = "running" /\ Become(m) /\ UNCHANGED <<usable, taken>> /\ dirs' = dirs
        /\ status' # "boot" /\ Mapped(memory, dirs[k], va)
    BY DEF vmm_unmap_page, Become, MappedIsUnmapped
  <1>2. /\ Good(start, Roots) /\ start.table # NULL /\ start.memory = memory
        /\ dirs[k] \in Roots /\ Roots \subseteq Pages /\ taken \subseteq Pages
    BY <1>1, GoodStart
  <1>3. va \in Nat
    BY VMMAssumption DEF VirtualPages
  <1>. HIDE DEF start
  <1>4. Mapped(start.memory, dirs[k], va)
    BY <1>1, <1>2
  <1>5. Good(m, Roots)
    BY <1>2, <1>3, <1>4, UnmapKeepsForest
  <1>6. DirsTyped' /\ Roots' = Roots /\ PagesTyped
    BY <1>1, DirsStay DEF VmmInv
  <1>. HIDE DEF m
  <1>. QED  BY <1>1, <1>5, <1>6, GoodBecomes

\* Nothing that the invariant speaks of changes.
LEMMA InvStays ==
  ASSUME VmmInv, UNCHANGED <<status, usable, memory, dirs>>, free' \subseteq usable,
         taken' \subseteq usable, free' \cap taken' = {}, free' \cup taken' = free \cup taken,
         status # "boot" \/ UNCHANGED <<free, taken>>
  PROVE  VmmInv'
  <1>1. PagesTyped' /\ DirsTyped' /\ Roots' = Roots
    BY DEF VmmInv, PagesTyped, DirsTyped, Different, Roots
  <1>. QED  BY <1>1 DEF VmmInv

LEMMA TakeKeepsInv ==
  ASSUME VmmInv, TakePage
  PROVE  VmmInv'
  <1>1. free \subseteq Pages /\ free \subseteq usable /\ taken \subseteq usable /\ free \cap taken = {}
    BY DEF VmmInv, PagesTyped
  <1>2. pmm_alloc(free) \in free
    BY <1>1, FreePage DEF TakePage
  <1>3. /\ UNCHANGED <<status, usable, memory, dirs>> /\ status # "boot"
        /\ taken' = taken \cup {pmm_alloc(free)} /\ free' = free \ {pmm_alloc(free)}
    BY DEF TakePage
  <1>. QED  BY <1>1, <1>2, <1>3, InvStays

LEMMA GiveKeepsInv ==
  ASSUME PagesComeCleared, VmmInv, NEW page \in taken, GivePage(page)
  PROVE  VmmInv'
  <1>1. /\ free \subseteq usable /\ taken \subseteq usable /\ free \cap taken = {}
        /\ page \in Pages /\ memory \in Memory /\ memory[page] = Cleared
    BY DEF VmmInv, PagesTyped, Forest
  <1>2. /\ UNCHANGED <<status, usable, dirs>> /\ status # "boot"
        /\ taken' = taken \ {page} /\ free' = free \cup {page}
        /\ memory' = [memory EXCEPT ![page] = Cleared]
    BY DEF GivePage, PagesComeCleared
  <1>3. memory' = memory
    BY <1>1, <1>2 DEF Memory
  <1>. QED  BY <1>1, <1>2, <1>3, InvStays

LEMMA NextKeepsInv ==
  ASSUME PagesComeCleared, MappedIsUnmapped, VmmInv, [Next]_vars
  PROVE  VmmInv'
  <1>1. free \subseteq usable /\ taken \subseteq usable /\ free \cap taken = {}
    BY DEF VmmInv, PagesTyped
  <1>2. CASE vmm_init
    BY <1>2, BootKeepsInv
  <1>3. CASE CreateDirectory
    BY <1>3, CreateKeepsInv
  <1>4. CASE TakePage
    BY <1>4, TakeKeepsInv
  <1>5. ASSUME NEW page \in taken, GivePage(page) PROVE VmmInv'
    BY <1>5, GiveKeepsInv
  <1>6. ASSUME NEW va \in Addresses, Access(va) PROVE VmmInv'
    BY <1>1, <1>6, InvStays DEF Access
  <1>7. ASSUME NEW va \in Addresses, NEW k \in DOMAIN dirs, vmm_unmap_page(dirs[k], va)
        PROVE  VmmInv'
    BY <1>7, UnmapPageKeepsInv
  <1>8. ASSUME NEW va \in Addresses, NEW k \in DOMAIN dirs, NEW frame \in taken,
               NEW flags \in MapFlags, vmm_map_page(dirs[k], frame, va, flags)
        PROVE  VmmInv'
    BY <1>8, MapPageKeepsInv
  <1>9. CASE UNCHANGED vars
    BY <1>1, <1>9, InvStays DEF vars
  <1>. QED  BY <1>2, <1>3, <1>4, <1>5, <1>6, <1>7, <1>8, <1>9 DEF Next

\* The invariant of the page directories, from the start on and at every step.
THEOREM Invariance ==
  ASSUME PagesComeCleared, MappedIsUnmapped
  PROVE  Spec => []VmmInv
  <1>1. Init => VmmInv
    BY InitVmm
  <1>2. VmmInv /\ [Next]_vars => VmmInv'
    BY NextKeepsInv
  <1>. QED  BY <1>1, <1>2, PTL DEF Spec
----------------------------------------------------------------------------
(* What follows from it.                                                   *)

LEMMA TablesOfDirectories ==
  /\ \A dir : Tables(dir) = UNION {Layer(memory, dir, d) : d \in Depths}
  /\ AllTables = TablesIn(memory, Roots) /\ UpperTables = UpperIn(memory, Roots)
  <1>1. \A dir : Tables(dir) = UNION {Layer(memory, dir, d) : d \in Depths}
    BY TablesAreLayers DEF Tables, Depths
  <1>2. AllTables = TablesIn(memory, Roots)
    BY <1>1 DEF AllTables, TablesIn, Roots
  <1>3. UpperTables = UpperIn(memory, Roots)
    BY TablesAreLayers DEF UpperTables, UpperIn, Upper, Roots
  <1>. QED  BY <1>1, <1>2, <1>3

\* A table is in one directory at one place, and no page that the allocator
\* has or gave to a client is a table.
THEOREM TablesBelongToOne ==
  ASSUME PagesComeCleared, MappedIsUnmapped
  PROVE  Spec => []TablesExclusive
  <1>1. ASSUME VmmInv PROVE TablesExclusive
    <2>1. Forest(memory, Roots, free \cup taken)
      BY <1>1 DEF VmmInv
    <2>2. AllTables \cap (free \cup taken) = {}
      BY <2>1, TablesOfDirectories DEF Forest
    <2>3. ASSUME NEW k \in DOMAIN dirs, NEW l \in DOMAIN dirs, k # l
          PROVE  Tables(dirs[k]) \cap Tables(dirs[l]) = {}
      <3>1. dirs[k] \in Roots /\ dirs[l] \in Roots /\ dirs[k] # dirs[l]
        BY <1>1, <2>3 DEF VmmInv, DirsTyped, Different, Roots
      <3>2. \A d, e \in Depths : Layer(memory, dirs[k], d) \cap Layer(memory, dirs[l], e) = {}
        BY <2>1, <3>1 DEF Forest, Separate
      <3>3. /\ Tables(dirs[k]) = UNION {Layer(memory, dirs[k], d) : d \in Depths}
            /\ Tables(dirs[l]) = UNION {Layer(memory, dirs[l], d) : d \in Depths}
        BY TablesOfDirectories
      <3>. QED  BY <3>2, <3>3
    <2>4. ASSUME NEW t \in UpperTables, NEW u \in UpperTables, NEW i \in Indices, NEW j \in Indices,
                 <<t, i>> # <<u, j>>,
                 "present" \in memory[t][i].flags, "present" \in memory[u][j].flags
          PROVE  memory[t][i].frame # memory[u][j].frame
      <3>1. t \in UpperIn(memory, Roots) /\ u \in UpperIn(memory, Roots) /\ (t # u \/ i # j)
        BY <2>4, TablesOfDirectories
      <3>2. Present(memory, t, i) /\ Present(memory, u, j)
        BY <2>4 DEF Present
      <3>. QED  BY <2>1, <3>1, <3>2 DEF Forest, SingleParents
    <2>. QED  BY <2>2, <2>3, <2>4 DEF TablesExclusive
  <1>. QED  BY <1>1, Invariance, PTL

\* Until a fault, each page is free, a client's or a table.
THEOREM EveryPageIsKept ==
  ASSUME PagesComeCleared, MappedIsUnmapped
  PROVE  Spec => []NoTableLost
  <1>1. ASSUME VmmInv PROVE NoTableLost
    <2>1. CASE status = "boot"
      <3>1. Roots = {} /\ usable = free /\ TablesIn(memory, {}) = {}
        BY <1>1, <2>1 DEF VmmInv, DirsTyped, Roots, TablesIn
      <3>. QED  BY <3>1, TablesOfDirectories DEF NoTableLost
    <2>2. CASE status = "running"
      BY <1>1, <2>2, TablesOfDirectories DEF VmmInv, NoTableLost
    <2>3. CASE status = "fault"
      BY <2>3 DEF NoTableLost
    <2>. QED  BY <1>1, <2>1, <2>2, <2>3 DEF VmmInv, PagesTyped
  <1>. QED  BY <1>1, Invariance, PTL
----------------------------------------------------------------------------
(* No two walks come to the same entry.                                    *)

\* The walks for x and y take the same entries of n tables.
SameWay(x, y, n) == \A k \in 0 .. (n - 1) : Digit(x, k) = Digit(y, k)

\* Two walks that are in the same table came there the same way.
LEMMA SamePath ==
  ASSUME NEW mem \in Memory, NEW R, R \subseteq Pages, NEW spare, Forest(mem, R, spare),
         NEW s \in R, NEW r \in R, NEW x \in Nat, NEW y \in Nat, NEW n \in Depths,
         "present" \in Walked(mem, s, x, n).flags, "present" \in Walked(mem, r, y, n).flags,
         Walked(mem, s, x, n).frame \in Pages,
         Walked(mem, s, x, n).frame = Walked(mem, r, y, n).frame
  PROVE  s = r /\ SameWay(x, y, n)
  <1>. DEFINE S(k) == Walked(mem, s, x, k)
              Q(k) == Walked(mem, r, y, k)
              Meet(k) == S(k).frame \in Pages /\ S(k).frame = Q(k).frame
              T == {k \in Nat : k <= n => (Meet(k) => s = r /\ SameWay(x, y, k))}
  <1>0. s \in Pages /\ r \in Pages /\ n \in 0 .. Levels /\ n \in Nat /\ n <= Levels - 1
    BY TablesTypes DEF Depths
  <1>1. 0 \in T
    <2>1. S(0).frame = s /\ Q(0).frame = r
      BY <1>0, WalkedSteps
    <2>2. SameWay(x, y, 0)
      BY DEF SameWay
    <2>. HIDE DEF S, Q
    <2>. QED  BY <2>1, <2>2
  <1>2. ASSUME NEW k \in Nat, k \in T PROVE k + 1 \in T
    <2>1. SUFFICES ASSUME k + 1 <= n, Meet(k + 1) PROVE s = r /\ SameWay(x, y, k + 1)
      OBVIOUS
    <2>2. k \in Depths /\ k \in Upper /\ k + 1 \in 0 .. n /\ k \in 0 .. n /\ k \in 0 .. Levels /\ k <= n
      BY <1>0, <2>1, TablesTypes DEF Depths, Upper
    <2>3. "present" \in S(k + 1).flags /\ "present" \in Q(k + 1).flags
      BY <1>0, <2>2, WalkedAbove
    <2>4. /\ "present" \in S(k).flags /\ S(k).frame \in Pages
          /\ Present(mem, S(k).frame, Digit(x, k))
          /\ S(k + 1).frame = mem[S(k).frame][Digit(x, k)].frame
      BY <1>0, <2>2, <2>3, WalkedOn
    <2>5. /\ "present" \in Q(k).flags /\ Q(k).frame \in Pages
          /\ Present(mem, Q(k).frame, Digit(y, k))
          /\ Q(k + 1).frame = mem[Q(k).frame][Digit(y, k)].frame
      BY <1>0, <2>2, <2>3, WalkedOn
    <2>6. S(k).frame \in Layer(mem, s, k) /\ Q(k).frame \in Layer(mem, r, k)
      BY <1>0, <2>2, <2>4, <2>5, WalkedLayers
    <2>7. S(k).frame \in UpperIn(mem, R) /\ Q(k).frame \in UpperIn(mem, R)
      BY <2>2, <2>6, LayersOfForest
    <2>8. Digit(x, k) \in Indices /\ Digit(y, k) \in Indices
      BY <2>2, DigitType
    <2>. DEFINE f == S(k).frame
                g == Q(k).frame
                i == Digit(x, k)
                j == Digit(y, k)
    <2>9. f = g /\ i = j
      <3>1. /\ f \in UpperIn(mem, R) /\ g \in UpperIn(mem, R) /\ i \in Indices /\ j \in Indices
            /\ Present(mem, f, i) /\ Present(mem, g, j) /\ mem[f][i].frame = mem[g][j].frame
        BY <2>1, <2>4, <2>5, <2>7, <2>8
      <3>. HIDE DEF f, g, i, j
      <3>. QED  BY <3>1 DEF Forest, SingleParents
    <2>. HIDE DEF S, Q
    <2>10. s = r /\ SameWay(x, y, k)
      BY <1>2, <2>2, <2>4, <2>9
    <2>. HIDE DEF T
    <2>11. SameWay(x, y, k + 1)
      BY <2>9, <2>10 DEF SameWay
    <2>. QED  BY <2>10, <2>11
  <1>. HIDE DEF T, Meet
  <1>3. Nat \subseteq T
    BY <1>1, <1>2, NaturalsByStep
  <1>4. Meet(n)
    BY DEF Meet
  <1>. QED  BY <1>0, <1>3, <1>4 DEF T

\* The entries a walk takes name the page.
LEMMA SameDigits ==
  ASSUME NEW x \in VirtualPages, NEW y \in VirtualPages, SameWay(x, y, Levels)
  PROVE  x = y
  <1>. DEFINE Left(a, k) == a \div Entries ^ (Levels - k)
              T == {k \in Nat : k <= Levels => Left(x, k) = Left(y, k)}
  <1>0. /\ Levels \in Nat \ {0} /\ Entries \in Nat \ {0} /\ x \in Nat /\ y \in Nat
        /\ Entries ^ Levels \in Nat \ {0}
    <2>1. Levels \in 0 .. (Levels + 1)
      BY TablesTypes
    <2>2. Entries ^ Levels \in Nat \ {0}
      BY <2>1, Powers
    <2>. QED  BY <2>2, TablesTypes DEF VirtualPages
  <1>1. 0 \in T
    <2>1. ASSUME NEW a \in VirtualPages PROVE Left(a, 0) = 0
      <3>. DEFINE whole == Entries ^ Levels
      <3>1. Levels - 0 = Levels /\ whole \in Nat \ {0} /\ a \in 0 .. (whole - 1)
        BY <1>0 DEF VirtualPages
      <3>2. Left(a, 0) = a \div whole
        BY <3>1
      <3>. HIDE DEF whole, Left
      <3>3. a \in Int /\ 0 \in Int /\ a = whole * 0 + a
        BY <3>1
      <3>4. a \div whole = 0
        BY <3>1, <3>3, QuotientUnique
      <3>. QED  BY <3>2, <3>4
    <2>. HIDE DEF Left
    <2>. QED  BY <2>1
  <1>2. ASSUME NEW k \in Nat, k \in T PROVE k + 1 \in T
    <2>1. SUFFICES ASSUME k + 1 <= Levels PROVE Left(x, k + 1) = Left(y, k + 1)
      OBVIOUS
    <2>. DEFINE l == Levels - (k + 1)
                P == Entries ^ l
    <2>2. /\ l \in 0 .. Levels /\ l \in 0 .. (Levels + 1) /\ l + 1 = Levels - k /\ k <= Levels
          /\ (Levels - k) - 1 = l /\ k \in 0 .. (Levels - 1)
      BY <1>0, <2>1
    <2>3. P \in Nat \ {0}
      BY <2>2, Powers
    <2>4. Entries ^ (Levels - k) = Entries * P
      <3>1. Entries ^ (l + 1) = Entries * Entries ^ l
        <4>. HIDE DEF l
        <4>. QED  BY <2>2, PowersAssumption
      <3>2. Entries ^ (l + 1) = Entries ^ (Levels - k)
        <4>. HIDE DEF l
        <4>. QED  BY <2>2
      <3>. QED  BY <3>1, <3>2
    <2>5. ASSUME NEW a \in Nat
          PROVE  Left(a, k + 1) = Entries * Left(a, k) + Digit(a, k)
      <3>. DEFINE q == a \div P
      <3>1. Left(a, k + 1) = q
        OBVIOUS
      <3>2. Digit(a, k) = q % Entries
        <4>1. Entries ^ ((Levels - k) - 1) = P
          <5>. HIDE DEF l
          <5>. QED  BY <2>2
        <4>. QED  BY <4>1 DEF Digit, Index
      <3>3. Left(a, k) = a \div (Entries * P)
        BY <2>4
      <3>. HIDE DEF P, Left
      <3>4. q \div Entries = a \div (Entries * P)
        BY <1>0, <2>3, QuotientOfQuotient
      <3>5. q \in Int
        BY <2>3, DivisionWithRemainder
      <3>. HIDE DEF q
      <3>6. q = Entries * (q \div Entries) + (q % Entries)
        <4>1. \A b \in Int : \A m \in Nat \ {0} : b = m * (b \div m) + (b % m)
          BY DivisionWithRemainder
        <4>2. Entries \in Nat \ {0}
          BY <1>0
        <4>. QED  BY <3>5, <4>1, <4>2
      <3>. DEFINE p == q \div Entries
                  d == q % Entries
      <3>7. q = Entries * p + d /\ Left(a, k) = p /\ Digit(a, k) = d
        BY <3>2, <3>3, <3>4, <3>6
      <3>. HIDE DEF p, d
      <3>. QED  BY <3>1, <3>7
    <2>6. Left(x, k) = Left(y, k)
      BY <1>2, <2>2
    <2>7. Digit(x, k) = Digit(y, k)
      BY <2>2 DEF SameWay
    <2>. HIDE DEF Left
    <2>. QED  BY <1>0, <2>5, <2>6, <2>7
  <1>3. Left(x, Levels) = x /\ Left(y, Levels) = y
    <2>1. Levels - Levels = 0 /\ Entries ^ 0 = 1
      BY <1>0, PowersAssumption
    <2>2. \A a \in Nat : Left(a, Levels) = a \div 1
      BY <2>1
    <2>3. \A a \in Nat : a \div 1 = a
      OBVIOUS
    <2>. HIDE DEF Left
    <2>. QED  BY <1>0, <2>2, <2>3
  <1>. HIDE DEF T
  <1>4. Nat \subseteq T
    BY <1>1, <1>2, NaturalsByStep
  <1>. QED  BY <1>0, <1>3, <1>4 DEF T
----------------------------------------------------------------------------
(* What a write does to the translations.                                  *)

\* The first n entries of the walk are the same in both memories.
Untouched(mem, new, dir, x, n) ==
  \A k \in 0 .. (n - 1) :
    "present" \in Walked(mem, dir, x, k).flags /\ Walked(mem, dir, x, k).frame \in Pages
      => new[Walked(mem, dir, x, k).frame][Digit(x, k)]
           = mem[Walked(mem, dir, x, k).frame][Digit(x, k)]

LEMMA FollowSame ==
  ASSUME NEW mem, NEW new, NEW above, NEW i,
         "present" \in above.flags /\ above.frame \in Pages
           => new[above.frame][i] = mem[above.frame][i]
  PROVE  Follow(new, above, i) = Follow(mem, above, i)
  <1>1. CASE "present" \notin above.flags \/ above.frame \notin Pages
    BY <1>1 DEF Follow
  <1>2. CASE ~("present" \notin above.flags \/ above.frame \notin Pages)
    <2>1. new[above.frame][i] = mem[above.frame][i]
      BY <1>2
    <2>. QED  BY <1>2, <2>1 DEF Follow
  <1>. QED  BY <1>1, <1>2

LEMMA WalkedSame ==
  ASSUME NEW mem \in Memory, NEW new \in Memory, NEW dir \in Pages, NEW x \in Nat,
         NEW n \in 0 .. Levels, Untouched(mem, new, dir, x, n)
  PROVE  \A k \in 0 .. n : Walked(new, dir, x, k) = Walked(mem, dir, x, k)
  <1>. DEFINE T == {k \in Nat : k <= n => Walked(new, dir, x, k) = Walked(mem, dir, x, k)}
  <1>1. 0 \in T
    BY WalkedSteps
  <1>2. ASSUME NEW k \in Nat, k \in T PROVE k + 1 \in T
    <2>1. SUFFICES ASSUME k + 1 <= n
                   PROVE  Walked(new, dir, x, k + 1) = Walked(mem, dir, x, k + 1)
      OBVIOUS
    <2>2. k \in Depths /\ k \in 0 .. (n - 1) /\ k <= n
      BY <2>1, TablesTypes DEF Depths
    <2>. DEFINE above == Walked(mem, dir, x, k)
                i == Digit(x, k)
    <2>3. Walked(new, dir, x, k) = above
      BY <1>2, <2>2
    <2>4. "present" \in above.flags /\ above.frame \in Pages
            => new[above.frame][i] = mem[above.frame][i]
      BY <2>2 DEF Untouched
    <2>5. Walked(mem, dir, x, k + 1) = Follow(mem, above, i)
      BY <2>2, WalkedSteps
    <2>6. Walked(new, dir, x, k + 1) = Follow(new, above, i)
      BY <2>2, <2>3, WalkedSteps
    <2>. HIDE DEF above, i
    <2>7. Follow(new, above, i) = Follow(mem, above, i)
      BY <2>4, FollowSame
    <2>. QED  BY <2>5, <2>6, <2>7
  <1>. HIDE DEF T
  <1>3. Nat \subseteq T
    BY <1>1, <1>2, NaturalsByStep
  <1>. QED  BY <1>3 DEF T

\* Every directory of R maps every page alike in both memories; or but page y of r.
ViewsSame(mem, new, R) ==
  \A s \in R : \A x \in Nat : Translate(new, s, x) = Translate(mem, s, x)
ViewsBut(mem, new, R, r, y) ==
  \A s \in R : \A x \in VirtualPages :
    s # r \/ x # y => Translate(new, s, x) = Translate(mem, s, x)

\* A walk comes to a table only at the table's depth in its directory.
LEMMA WalkedOnce ==
  ASSUME NEW mem \in Memory, NEW R, R \subseteq Pages, NEW spare, Forest(mem, R, spare),
         NEW r \in R, NEW e \in Depths, NEW t \in Layer(mem, r, e),
         NEW s \in R, NEW x \in Nat, NEW k \in Depths,
         "present" \in Walked(mem, s, x, k).flags, Walked(mem, s, x, k).frame = t, t \in Pages
  PROVE  s = r /\ k = e
  <1>1. k \in 0 .. Levels
    BY TablesTypes DEF Depths
  <1>2. t \in Layer(mem, s, k)
    BY <1>1, WalkedLayers
  <1>. QED  BY <1>2 DEF Forest, Separate

\* A page that maps nothing, or none at all, becomes a table: no walk comes
\* to another page than before.
LEMMA TableWriteViews ==
  ASSUME NEW mem \in Memory, NEW R, R \subseteq Pages, NEW spare, Forest(mem, R, spare),
         NEW r \in R, NEW e \in Upper, NEW t \in Layer(mem, r, e), t \in Pages,
         NEW i \in Indices, ~Present(mem, t, i), NEW entry \in Entry,
         entry.frame \in Pages => mem[entry.frame] = Cleared, entry.frame # t
  PROVE  ViewsSame(mem, Written(mem, t, i, entry), R)
  <1>. DEFINE new == Written(mem, t, i, entry)
              p == entry.frame
  <1>1. /\ new \in Memory /\ new[t][i] = entry
        /\ \A j \in Indices : j # i => new[t][j] = mem[t][j]
        /\ \A u \in Pages : u # t => new[u] = mem[u]
    BY WriteFacts
  <1>2. /\ e \in Depths /\ \A k \in Nat : k + 1 <= Levels => k \in Depths
        /\ \A k \in Upper : k + 1 \in Depths
    BY TablesTypes DEF Upper, Depths
  <1>. HIDE DEF new
  <1>. SUFFICES ASSUME NEW s \in R, NEW x \in Nat
                PROVE  Translate(new, s, x) = Translate(mem, s, x)
    BY DEF ViewsSame, new
  <1>. DEFINE W(k) == Walked(mem, s, x, k)
              V(k) == Walked(new, s, x, k)
              Lost(k) == /\ k \in Depths /\ "present" \notin W(k).flags
                         /\ V(k).frame = p \/ "present" \notin V(k).flags
              T == {k \in Nat : k <= Levels => (V(k) = W(k) \/ Lost(k))}
  <1>3. s \in Pages
    OBVIOUS
  <1>4. 0 \in T
    BY <1>1, <1>3, WalkedSteps
  <1>5. ASSUME NEW k \in Nat, k \in T PROVE k + 1 \in T
    <2>1. SUFFICES ASSUME k + 1 <= Levels PROVE V(k + 1) = W(k + 1) \/ Lost(k + 1)
      OBVIOUS
    <2>. DEFINE j == Digit(x, k)
    <2>2. k \in Depths /\ j \in Indices /\ k <= Levels
      BY <1>2, <2>1, DigitType, TablesTypes
    <2>3. W(k + 1) = Follow(mem, W(k), j) /\ V(k + 1) = Follow(new, V(k), j)
      BY <1>1, <1>3, <2>2, WalkedSteps
    <2>4. V(k) = W(k) \/ Lost(k)
      BY <1>5, <2>2
    <2>5. CASE Lost(k)
      <3>1. "present" \notin W(k).flags /\ (V(k).frame = p \/ "present" \notin V(k).flags)
        BY <2>5
      <3>. DEFINE w == W(k)
                  v == V(k)
      <3>. HIDE DEF j, w, v
      <3>2. Follow(mem, w, j) = NotMapped
        BY <3>1 DEF Follow, w
      <3>3. CASE "present" \notin v.flags \/ v.frame \notin Pages
        <4>1. Follow(new, v, j) = NotMapped
          BY <3>3 DEF Follow
        <4>. QED  BY <2>3, <3>2, <4>1 DEF w, v
      <3>4. CASE ~("present" \notin v.flags \/ v.frame \notin Pages)
        <4>1. v.frame = p /\ p \in Pages
          BY <3>1, <3>4 DEF v
        <4>2. new[p] = Cleared
          BY <1>1, <4>1
        <4>3. new[v.frame][j] = NotMapped
          BY <2>2, <4>1, <4>2 DEF Cleared
        <4>4. Follow(new, v, j) = [frame |-> NotMapped.frame, flags |-> NotMapped.flags \cap v.flags]
          BY <3>4, <4>3 DEF Follow
        <4>5. Follow(new, v, j) = NotMapped
          BY <4>4 DEF NotMapped
        <4>. QED  BY <2>3, <3>2, <4>5 DEF w, v
      <3>. QED  BY <3>3, <3>4
    <2>6. CASE V(k) = W(k)
      <3>. DEFINE w == W(k)
      <3>1. CASE "present" \in w.flags /\ w.frame = t /\ j = i
        <4>1. s = r /\ k = e
          <5>1. /\ e \in Depths /\ k \in Depths /\ Forest(mem, R, spare) /\ t \in Layer(mem, r, e)
                /\ "present" \in Walked(mem, s, x, k).flags /\ Walked(mem, s, x, k).frame = t
            BY <1>2, <2>2, <3>1
          <5>2. t \in Layer(mem, s, k)
            BY <1>2, <1>3, <2>2, <5>1, WalkedLayers
          <5>. QED  BY <5>1, <5>2 DEF Forest, Separate
        <4>2. k + 1 \in Depths
          BY <1>2, <4>1
        <4>. HIDE DEF w, j
        <4>3. Follow(mem, w, j) = [frame |-> mem[t][i].frame, flags |-> mem[t][i].flags \cap w.flags]
          BY <3>1 DEF Follow
        <4>4. Follow(new, w, j) = [frame |-> p, flags |-> entry.flags \cap w.flags]
          BY <1>1, <3>1 DEF Follow
        <4>5. "present" \notin Follow(mem, w, j).flags /\ Follow(new, w, j).frame = p
          BY <4>3, <4>4 DEF Present
        <4>6. Follow(new, w, j) = V(k + 1) /\ Follow(mem, w, j) = W(k + 1)
          BY <2>3, <2>6 DEF w
        <4>. QED  BY <4>2, <4>5, <4>6
      <3>2. CASE ~("present" \in w.flags /\ w.frame = t /\ j = i)
        <4>1. "present" \in w.flags /\ w.frame \in Pages => new[w.frame][j] = mem[w.frame][j]
          BY <1>1, <2>2, <3>2
        <4>. HIDE DEF w, j
        <4>2. Follow(new, w, j) = Follow(mem, w, j)
          BY <4>1, FollowSame
        <4>. QED  BY <2>3, <2>6, <4>2 DEF w
      <3>. QED  BY <3>1, <3>2
    <2>. QED  BY <2>4, <2>5, <2>6
  <1>. HIDE DEF T
  <1>6. Nat \subseteq T
    BY <1>4, <1>5, NaturalsByStep
  <1>7. Levels \in T /\ Levels \notin Depths
    BY <1>6, TablesTypes DEF Depths
  <1>8. V(Levels) = W(Levels)
    BY <1>7, TablesTypes DEF T
  <1>. QED  BY <1>1, <1>3, <1>8, WalkedSteps

\* A write to a table at depth e of r is not seen on the way there.
LEMMA WriteBelow ==
  ASSUME NEW mem \in Memory, NEW R, R \subseteq Pages, NEW spare, Forest(mem, R, spare),
         NEW r \in R, NEW e \in Depths, NEW t \in Layer(mem, r, e), t \in Pages,
         NEW i \in Indices, NEW entry \in Entry, NEW x \in Nat
  PROVE  \A k \in 0 .. e : Walked(Written(mem, t, i, entry), r, x, k) = Walked(mem, r, x, k)
  <1>. DEFINE new == Written(mem, t, i, entry)
  <1>1. new \in Memory /\ \A u \in Pages : u # t => new[u] = mem[u]
    BY WriteFacts
  <1>2. e \in Nat /\ e \in 0 .. Levels /\ \A k \in 0 .. (e - 1) : k \in Depths /\ k # e
    BY TablesTypes DEF Depths
  <1>. HIDE DEF new
  <1>3. ASSUME NEW k \in 0 .. (e - 1), "present" \in Walked(mem, r, x, k).flags,
               Walked(mem, r, x, k).frame \in Pages
        PROVE  new[Walked(mem, r, x, k).frame] = mem[Walked(mem, r, x, k).frame]
    <2>. DEFINE f == Walked(mem, r, x, k).frame
    <2>1. CASE f = t
      <3>1. k = e
        BY <1>2, <1>3, <2>1, WalkedOnce
      <3>. QED  BY <1>2, <3>1
    <2>2. CASE f # t
      BY <1>1, <1>3, <2>2
    <2>. QED  BY <2>1, <2>2
  <1>4. Untouched(mem, new, r, x, e)
    BY <1>3 DEF Untouched
  <1>. QED  BY <1>1, <1>2, <1>4, WalkedSame DEF new

\* Only page y of directory r is mapped by the entry that is written.
LeafMaps(mem, new, R, r, y, entry, above) ==
  /\ ViewsBut(mem, new, R, r, y)
  /\ Translate(new, r, y) = [frame |-> entry.frame, flags |-> entry.flags \cap above.flags]

LEMMA LeafWriteViews ==
  ASSUME NEW mem \in Memory, NEW R, R \subseteq Pages, NEW spare, Forest(mem, R, spare),
         NEW r \in R, NEW y \in VirtualPages, NEW t \in Pages,
         NEW above, above = Walked(mem, r, y, Levels - 1),
         "present" \in above.flags, above.frame = t, NEW entry \in Entry,
         NEW new, new = Written(mem, t, Digit(y, Levels - 1), entry)
  PROVE  LeafMaps(mem, new, R, r, y, entry, above)
  <1>. DEFINE n == Levels - 1
              i == Digit(y, n)
  <1>1. n \in Nat /\ n \in Depths /\ n \in 0 .. Levels /\ n + 1 = Levels /\ r \in Pages
        /\ Levels \in 0 .. Levels /\ y \in Nat /\ \A k \in 0 .. (Levels - 1) : k \in Depths
    BY TablesTypes DEF Depths, VirtualPages
  <1>2. i \in Indices
    BY <1>1, DigitType
  <1>3. /\ new \in Memory /\ new[t][i] = entry
        /\ \A j \in Indices : j # i => new[t][j] = mem[t][j]
        /\ \A u \in Pages : u # t => new[u] = mem[u]
    BY <1>2, WriteFacts
  <1>4. t \in Layer(mem, r, n)
    BY <1>1, WalkedLayers
  <1>5. ASSUME NEW s \in R, NEW x \in VirtualPages, s # r \/ x # y
        PROVE  Translate(new, s, x) = Translate(mem, s, x)
    <2>0. x \in Nat /\ s \in Pages
      BY DEF VirtualPages
    <2>1. ASSUME NEW k \in 0 .. (Levels - 1), "present" \in Walked(mem, s, x, k).flags,
                 Walked(mem, s, x, k).frame \in Pages
          PROVE  new[Walked(mem, s, x, k).frame][Digit(x, k)]
                   = mem[Walked(mem, s, x, k).frame][Digit(x, k)]
      <3>. DEFINE f == Walked(mem, s, x, k).frame
                  j == Digit(x, k)
      <3>1. j \in Indices /\ k \in Depths
        BY <1>1, <2>0, DigitType
      <3>2. CASE f = t
        <4>1. s = r /\ k = n
          <5>1. "present" \in Walked(mem, s, x, k).flags /\ Walked(mem, s, x, k).frame = t
            BY <2>1, <3>2
          <5>. HIDE DEF n, f, j, i
          <5>. QED  BY <1>1, <1>4, <2>0, <3>1, <5>1, WalkedOnce
        <4>2. x # y
          BY <1>5, <4>1
        <4>3. SameWay(x, y, n)
          <5>1. /\ "present" \in Walked(mem, s, x, n).flags /\ "present" \in Walked(mem, r, y, n).flags
                /\ Walked(mem, s, x, n).frame \in Pages
                /\ Walked(mem, s, x, n).frame = Walked(mem, r, y, n).frame
            BY <2>1, <3>2, <4>1
          <5>. HIDE DEF n, f, j, i
          <5>. QED  BY <1>1, <2>0, <5>1, SamePath
        <4>4. j # i
          <5>1. SUFFICES ASSUME j = i PROVE SameWay(x, y, Levels)
            BY <4>2, SameDigits
          <5>. HIDE DEF f
          <5>. QED  BY <1>1, <4>1, <4>3, <5>1 DEF SameWay
        <4>5. new[t][j] = mem[t][j]
          <5>. HIDE DEF n, i, j
          <5>. QED  BY <1>3, <3>1, <4>4
        <4>. QED  BY <3>2, <4>5
      <3>3. CASE f # t
        BY <1>3, <2>1, <3>3
      <3>. QED  BY <3>2, <3>3
    <2>2. Untouched(mem, new, s, x, Levels)
      BY <2>1 DEF Untouched
    <2>. HIDE DEF n, i
    <2>3. Walked(new, s, x, Levels) = Walked(mem, s, x, Levels)
      BY <1>1, <1>3, <2>0, <2>2, WalkedSame
    <2>. QED  BY <1>3, <2>0, <2>3, WalkedSteps
  <1>6. ViewsBut(mem, new, R, r, y)
    BY <1>5 DEF ViewsBut
  <1>7. Translate(new, r, y) = [frame |-> entry.frame, flags |-> entry.flags \cap above.flags]
    <2>1. Walked(new, r, y, n) = above
      <3>. HIDE DEF n
      <3>1. \A k \in 0 .. n : Walked(Written(mem, t, i, entry), r, y, k) = Walked(mem, r, y, k)
        <4>. HIDE DEF i
        <4>. QED  BY <1>1, <1>2, <1>4, WriteBelow
      <3>2. new = Written(mem, t, i, entry)
        BY DEF n
      <3>. HIDE DEF i
      <3>. QED  BY <1>1, <3>1, <3>2
    <2>2. Translate(new, r, y) = Follow(new, above, i)
      <3>1. Translate(new, r, y) = Walked(new, r, y, n + 1)
        <4>. HIDE DEF i
        <4>. QED  BY <1>1, <1>3, WalkedSteps
      <3>2. Walked(new, r, y, n + 1) = Follow(new, Walked(new, r, y, n), i)
        <4>. HIDE DEF n
        <4>. QED  BY <1>1, <1>3, WalkedSteps
      <3>. HIDE DEF n, i
      <3>. QED  BY <2>1, <3>1, <3>2
    <2>3. "present" \in above.flags /\ above.frame = t
      OBVIOUS
    <2>. HIDE DEF i, n
    <2>4. Follow(new, above, i) = [frame |-> entry.frame, flags |-> entry.flags \cap above.flags]
      BY <1>3, <2>3 DEF Follow
    <2>. QED  BY <2>2, <2>4
  <1>. QED  BY <1>6, <1>7 DEF LeafMaps
----------------------------------------------------------------------------
(* What mapping does to the translations, and why it faults.               *)

\* The kernel is where the CPU's walk is.
Trail(w, dir, va, n) ==
  w.table # NULL => /\ w.table = Walked(w.memory, dir, va, n).frame
                    /\ "present" \in Walked(w.memory, dir, va, n).flags

\* The kernel finds the low pages at their physical addresses.
Identity(mem) ==
  active # NULL => \A p \in Pages : p < LowPages =>
                     Mapped(mem, active, p) /\ Translate(mem, active, p).frame = p

\* A fault has a reason: memory is used up, or a table lies above the map.
NoLowPage(pages) == pages = {} \/ \E p \in usable \ (pages \cup taken) : p >= LowPages
Reason(w) == w.table = NULL => NoLowPage(w.free)

LEMMA IdentityStays ==
  ASSUME NEW mem, NEW new, NEW R, ViewsSame(mem, new, R), active \in R \cup {NULL}, Identity(mem)
  PROVE  Identity(new)
  <1>. SUFFICES ASSUME active # NULL, NEW p \in Pages, p < LowPages
                PROVE  Mapped(new, active, p) /\ Translate(new, active, p).frame = p
    BY DEF Identity
  <1>1. active \in R /\ p \in Nat
    BY TablesTypes
  <1>2. Translate(new, active, p) = Translate(mem, active, p)
    BY <1>1 DEF ViewsSame
  <1>. QED  BY <1>2 DEF Identity, Mapped

\* There is a next table, or there will be.
GoesOn(w, flags, i) == "present" \in flags \/ (w.table # NULL => Present(w.memory, w.table, i))

\* The table the kernel has come to faults for a reason.
LEMMA UnreachableReason ==
  ASSUME NEW R, R \subseteq Pages, NEW w, Good(w, R), NEW dir \in R, NEW n \in Depths,
         Arrived(w, dir, n), Identity(w.memory), Reason(w), ~Reachable(w.memory, w.table)
  PROVE  NoLowPage(w.free)
  <1>1. CASE w.table = NULL
    BY <1>1 DEF Reason
  <1>2. CASE w.table # NULL
    <2>1. w.table \in Layer(w.memory, dir, n)
      BY <1>2 DEF Arrived
    <2>2. w.table \in TablesIn(w.memory, R) /\ w.table \in Pages
      BY <2>1, LayersOfForest
    <2>3. w.table \in usable \ (w.free \cup taken)
      BY <2>2 DEF Good
    <2>4. ~(w.table < LowPages)
      BY <2>2 DEF Reachable, Identity
    <2>5. w.table >= LowPages
      <3>1. w.table \in Nat /\ LowPages \in Nat
        BY <2>2, TablesTypes, VMMAssumption
      <3>. QED  BY <2>4, <3>1
    <2>. QED  BY <2>3, <2>5 DEF NoLowPage
  <1>. QED  BY <1>1, <1>2

LEMMA LevelViews ==
  ASSUME NEW R, R \subseteq Pages, taken \subseteq Pages, NEW dir \in R, NEW n \in Upper,
         NEW w, Good(w, R), Arrived(w, dir, n), NEW va \in Nat, Trail(w, dir, va, n),
         NEW flags \in SUBSET Flags,
         GoesOn(w, flags, Digit(va, n)),
         NEW next, next = vmm_get_page_map_level(w, Digit(va, n), flags)
  PROVE  /\ ViewsSame(w.memory, next.memory, R) /\ Trail(next, dir, va, n + 1)
         /\ Identity(w.memory) /\ Reason(w) => Reason(next)
  <1>. DEFINE i == Digit(va, n)
  <1>1. /\ w \in Walkers /\ w.memory \in Memory /\ w.free \subseteq Pages /\ w.table \in Nat
        /\ w.free \cup taken \subseteq Pages /\ n \in Nat /\ n \in Depths /\ dir \in Pages
        /\ n + 1 \in Nat /\ n \in 0 .. n
    <2>1. w \in Walkers
      BY DEF Good
    <2>2. w.memory \in Memory /\ w.free \subseteq Pages /\ w.table \in Nat
      BY <2>1 DEF Walkers
    <2>3. n \in Nat /\ n \in Depths /\ n + 1 \in Nat /\ n \in 0 .. n
      BY TablesTypes DEF Upper, Depths
    <2>. QED  BY <2>1, <2>2, <2>3
  <1>2. i \in Indices
    BY <1>1, DigitType
  <1>. HIDE DEF i
  <1>3. CASE ~Reachable(w.memory, w.table) /\ next = [w EXCEPT !.table = NULL]
    <2>1. next.memory = w.memory /\ next.free = w.free /\ next.table = NULL
      BY <1>1, <1>3 DEF Walkers
    <2>2. Identity(w.memory) /\ Reason(w) => NoLowPage(w.free)
      BY <1>1, <1>3, UnreachableReason
    <2>. QED  BY <2>1, <2>2 DEF ViewsSame, Trail, Reason
  <1>4. CASE /\ w.table \in Pages /\ Present(w.memory, w.table, i)
             /\ next = [w EXCEPT !.table = w.memory[w.table][i].frame]
    <2>1. /\ next.memory = w.memory /\ next.free = w.free
          /\ next.table = w.memory[w.table][i].frame
      BY <1>1, <1>4 DEF Walkers
    <2>2. /\ w.table # NULL /\ w.table \in Layer(w.memory, dir, n)
          /\ w.table = Walked(w.memory, dir, va, n).frame
          /\ "present" \in Walked(w.memory, dir, va, n).flags
      BY <1>4, TablesTypes DEF Arrived, Trail
    <2>3. w.table \in UpperIn(w.memory, R) /\ FramesInMemory(w.memory, R)
      BY <2>2, LayersOfForest DEF Good
    <2>4. next.table # NULL
      BY <1>2, <1>4, <2>1, <2>3, TablesTypes DEF FramesInMemory
    <2>. DEFINE above == Walked(w.memory, dir, va, n)
    <2>5. Walked(w.memory, dir, va, n + 1) = Follow(w.memory, above, i)
      BY <1>1, WalkedSteps DEF i
    <2>. HIDE DEF above
    <2>6. Follow(w.memory, above, i) = [frame |-> w.memory[w.table][i].frame,
                                        flags |-> w.memory[w.table][i].flags \cap above.flags]
      BY <1>4, <2>2 DEF Follow, above
    <2>7. /\ Walked(w.memory, dir, va, n + 1).frame = next.table
          /\ "present" \in Walked(w.memory, dir, va, n + 1).flags
      BY <1>4, <2>1, <2>2, <2>5, <2>6 DEF Present, above
    <2>. QED  BY <2>1, <2>4, <2>7 DEF ViewsSame, Trail, Reason
  <1>5. ASSUME w.table \in Pages, ~Present(w.memory, w.table, i),
               NEW page \in w.free \cup {NULL}, page = NULL => w.free = {},
               next = [memory |-> Written(w.memory, w.table, i, [frame |-> page, flags |-> flags]),
                       free |-> w.free \ {page}, table |-> page]
        PROVE  /\ ViewsSame(w.memory, next.memory, R) /\ Trail(next, dir, va, n + 1)
               /\ Identity(w.memory) /\ Reason(w) => Reason(next)
    <2>. DEFINE entry == [frame |-> page, flags |-> flags]
                mem == w.memory
                t == w.table
                spare == w.free \cup taken
    <2>1. /\ next.memory = Written(mem, t, i, entry)
          /\ next.free = w.free \ {page} /\ next.table = page
      BY <1>5
    <2>2. /\ t # NULL /\ t \in Layer(mem, dir, n) /\ t = Walked(mem, dir, va, n).frame
          /\ "present" \in Walked(mem, dir, va, n).flags
      BY <1>5, TablesTypes DEF Arrived, Trail
    <2>3. "present" \in flags
      BY <1>5, <2>2 DEF i, GoesOn
    <2>4. page \in Nat
      <3>1. w.free \subseteq Nat /\ page \in w.free \cup {NULL}
        BY <1>1, <1>5, TablesTypes
      <3>. QED  BY <3>1, TablesTypes
    <2>5. entry \in Entry /\ entry.frame = page /\ entry.flags = flags
      BY <2>4 DEF Entry
    <2>6. /\ mem \in Memory /\ t \in Pages /\ ~Present(mem, t, i) /\ Forest(mem, R, spare)
          /\ spare \subseteq Pages
      BY <1>1, <1>5 DEF Good
    <2>7. t \notin spare
      <3>1. t \in TablesIn(mem, R)
        BY <1>1, <2>2, LayersOfForest
      <3>. QED  BY <2>6, <3>1 DEF Forest
    <2>8. (page \in Pages => mem[page] = Cleared) /\ page # t
      <3>1. page \in w.free \/ page = NULL
        BY <1>5
      <3>2. w.free \subseteq spare /\ \A p \in spare : mem[p] = Cleared
        BY <2>6 DEF Forest
      <3>. QED  BY <2>2, <2>7, <3>1, <3>2, TablesTypes
    <2>. HIDE DEF entry, mem, t, spare
    <2>9. ViewsSame(mem, next.memory, R)
      BY <1>2, <2>1, <2>2, <2>5, <2>6, <2>8, TableWriteViews
    <2>10. Trail(next, dir, va, n + 1)
      <3>1. \A k \in 0 .. n : Walked(Written(mem, t, i, entry), dir, va, k) = Walked(mem, dir, va, k)
        BY <1>1, <1>2, <2>2, <2>5, <2>6, WriteBelow
      <3>. DEFINE above == Walked(mem, dir, va, n)
      <3>2. Walked(next.memory, dir, va, n) = above
        BY <1>1, <2>1, <3>1
      <3>3. next.memory \in Memory /\ next.memory[t][i] = entry
        BY <1>2, <2>1, <2>5, <2>6, WriteFacts
      <3>4. Walked(next.memory, dir, va, n + 1) = Follow(next.memory, above, i)
        BY <1>1, <3>2, <3>3, WalkedSteps DEF i
      <3>5. "present" \in above.flags /\ above.frame = t
        BY <2>2
      <3>. HIDE DEF above
      <3>6. Follow(next.memory, above, i) = [frame |-> page, flags |-> flags \cap above.flags]
        BY <2>5, <2>6, <3>3, <3>5 DEF Follow
      <3>7. /\ Walked(next.memory, dir, va, n + 1).frame = page
            /\ "present" \in Walked(next.memory, dir, va, n + 1).flags
        BY <2>3, <3>4, <3>5, <3>6
      <3>. QED  BY <2>1, <3>7 DEF Trail
    <2>11. Reason(next)
      BY <1>5, <2>1 DEF Reason, NoLowPage
    <2>. QED  BY <2>9, <2>10, <2>11 DEF mem
  <1>6. LevelResult(w, i, flags, next)
    <2>1. next = vmm_get_page_map_level(w, i, flags)
      BY DEF i
    <2>. QED  BY <1>1, <1>2, <2>1, LevelCases
  <1>. QED  BY <1>3, <1>4, <1>5, <1>6, Zenon DEF LevelResult

\* What is true of the kernel's walk from m as far as w, at depth n.
OnTrail(m, w, R, dir, va, n) ==
  /\ Good(w, R) /\ Arrived(w, dir, n) /\ Trail(w, dir, va, n)
  /\ ViewsSame(m.memory, w.memory, R) /\ (Identity(m.memory) => Reason(w))

LEMMA TrailStarts ==
  ASSUME NEW R, R \subseteq Pages, NEW dir \in R, NEW m, Good(m, R), m.table # NULL,
         NEW va \in Nat, NEW w, w = [m EXCEPT !.table = dir]
  PROVE  OnTrail(m, w, R, dir, va, 0)
  <1>1. m \in Walkers /\ dir \in Pages /\ dir \in Nat /\ dir # NULL /\ m.memory \in Memory
    BY TablesTypes DEF Good, Walkers
  <1>2. w.memory = m.memory /\ w.free = m.free /\ w.table = dir /\ w \in Walkers
    BY <1>1 DEF Walkers
  <1>3. dir \in Layer(m.memory, dir, 0)
    BY LayerSteps
  <1>4. Good(w, R) /\ Arrived(w, dir, 0)
    BY <1>2, <1>3 DEF Good, Arrived
  <1>5. Walked(m.memory, dir, va, 0) = [frame |-> dir, flags |-> Flags]
    BY <1>1, WalkedSteps
  <1>6. Trail(w, dir, va, 0)
    BY <1>2, <1>5 DEF Trail, Flags
  <1>. QED  BY <1>1, <1>2, <1>4, <1>6 DEF OnTrail, ViewsSame, Reason

LEMMA TrailGoesOn ==
  ASSUME NEW R, R \subseteq Pages, taken \subseteq Pages, active \in R \cup {NULL}, NEW dir \in R,
         NEW m, NEW w, NEW va \in Nat, NEW n \in Upper, OnTrail(m, w, R, dir, va, n),
         NEW flags \in SUBSET Flags,
         GoesOn(w, flags, Digit(va, n)),
         NEW next, next = vmm_get_page_map_level(w, Digit(va, n), flags),
         Good(next, R), Arrived(next, dir, n + 1)
  PROVE  OnTrail(m, next, R, dir, va, n + 1)
  <1>1. /\ Good(w, R) /\ Arrived(w, dir, n) /\ Trail(w, dir, va, n)
        /\ ViewsSame(m.memory, w.memory, R) /\ (Identity(m.memory) => Reason(w))
    BY DEF OnTrail
  <1>2. /\ ViewsSame(w.memory, next.memory, R) /\ Trail(next, dir, va, n + 1)
        /\ Identity(w.memory) /\ Reason(w) => Reason(next)
    BY <1>1, LevelViews
  <1>3. Identity(m.memory) => Identity(w.memory)
    BY <1>1, IdentityStays
  <1>4. ViewsSame(m.memory, next.memory, R)
    BY <1>1, <1>2 DEF ViewsSame
  <1>. QED  BY <1>1, <1>2, <1>3, <1>4 DEF OnTrail

\* The walk of vmm_map_page.
LEMMA MapTrail ==
  ASSUME NEW R, R \subseteq Pages, taken \subseteq Pages, active \in R \cup {NULL}, NEW dir \in R,
         NEW m, Good(m, R), m.table # NULL, NEW va \in Nat,
         NEW flags \in SUBSET Flags, "present" \in flags, NEW K, KernelWalk(K, m, dir, va, flags)
  PROVE  OnTrail(m, K[Levels - 1], R, dir, va, Levels - 1)
  <1>. DEFINE T == {n \in Nat : n \in Depths => OnTrail(m, K[n], R, dir, va, n)}
  <1>1. 0 \in T
    <2>1. K[0] = [m EXCEPT !.table = dir]
      BY DEF KernelWalk
    <2>2. OnTrail(m, K[0], R, dir, va, 0)
      BY <2>1, TrailStarts
    <2>. QED  BY <2>2
  <1>2. ASSUME NEW n \in Nat, n \in T PROVE n + 1 \in T
    <2>1. SUFFICES ASSUME n + 1 \in Depths PROVE OnTrail(m, K[n + 1], R, dir, va, n + 1)
      OBVIOUS
    <2>2. n \in Upper /\ n \in Depths
      BY <2>1, TablesTypes DEF Upper, Depths
    <2>3. OnTrail(m, K[n], R, dir, va, n)
      BY <1>2, <2>2
    <2>4. K[n + 1] = vmm_get_page_map_level(K[n], Digit(va, n), flags)
      BY <2>2 DEF KernelWalk, Digit
    <2>5. /\ Good(K[n + 1], R) /\ Arrived(K[n + 1], dir, n + 1)
          /\ GoesOn(K[n], flags, Digit(va, n))
      <3>1. \A d \in Depths : Good(K[d], R) /\ Arrived(K[d], dir, d)
        BY WalkKeepsForest
      <3>. QED  BY <2>1, <3>1 DEF GoesOn
    <2>. DEFINE w == K[n]
                next == K[n + 1]
    <2>. HIDE DEF w, next, T
    <2>6. OnTrail(m, next, R, dir, va, n + 1)
      <3>1. OnTrail(m, w, R, dir, va, n) /\ next = vmm_get_page_map_level(w, Digit(va, n), flags)
            /\ Good(next, R) /\ Arrived(next, dir, n + 1) /\ GoesOn(w, flags, Digit(va, n))
        BY <2>3, <2>4, <2>5 DEF w, next
      <3>. QED  BY <2>2, <3>1, TrailGoesOn
    <2>. QED  BY <2>6 DEF next
  <1>. HIDE DEF T
  <1>3. Nat \subseteq T
    BY <1>1, <1>2, NaturalsByStep
  <1>4. Levels - 1 \in Nat /\ Levels - 1 \in Depths
    BY TablesTypes DEF Depths
  <1>. QED  BY <1>3, <1>4 DEF T

\* The walk of vmm_unmap_page, for a page that is mapped.
LEMMA UnmapTrail ==
  ASSUME NEW R, R \subseteq Pages, taken \subseteq Pages, active \in R \cup {NULL}, NEW dir \in R,
         NEW m, Good(m, R), m.table # NULL, NEW va \in Nat, Mapped(m.memory, dir, va),
         NEW flags \in SUBSET Flags, NEW K, KernelWalk(K, m, dir, va, flags)
  PROVE  /\ OnTrail(m, K[Levels - 1], R, dir, va, Levels - 1)
         /\ K[Levels - 1].memory = m.memory
  <1>. DEFINE W(n) == Walked(m.memory, dir, va, n)
              last == Levels - 1
              T == {n \in Nat : n \in Depths => OnTrail(m, K[n], R, dir, va, n)}
  <1>0. /\ m \in Walkers /\ m.memory \in Memory /\ dir \in Pages /\ last \in Depths /\ last \in Nat
        /\ Depths = 0 .. last /\ last + 1 = Levels /\ Levels \in 0 .. Levels
    BY TablesTypes DEF Good, Walkers, Depths
  <1>1. \A n \in 0 .. Levels : "present" \in W(n).flags
    <2>1. "present" \in Walked(m.memory, dir, va, Levels).flags
      BY <1>0, WalkedSteps DEF Mapped
    <2>. HIDE DEF last
    <2>. QED  BY <1>0, <2>1, WalkedAbove
  <1>2. \A n \in Depths : W(n).frame \in Pages /\ Present(m.memory, W(n).frame, Digit(va, n))
                          /\ W(n).frame \in Layer(m.memory, dir, n)
    <2>1. ASSUME NEW n \in Depths
          PROVE  W(n).frame \in Pages /\ Present(m.memory, W(n).frame, Digit(va, n))
                 /\ W(n).frame \in Layer(m.memory, dir, n)
      <3>1. n \in 0 .. Levels /\ n + 1 \in 0 .. Levels
        BY <1>0
      <3>2. "present" \in W(n).flags /\ "present" \in W(n + 1).flags
        BY <1>1, <3>1
      <3>3. W(n).frame \in Pages /\ Present(m.memory, W(n).frame, Digit(va, n))
        BY <1>0, <3>2, WalkedOn
      <3>. QED  BY <1>0, <3>1, <3>2, <3>3, WalkedLayers
    <2>. QED  BY <2>1
  <1>3. \A n \in Depths : /\ K[n].memory = m.memory /\ K[n].free = m.free
                          /\ K[n].table # NULL => K[n].table = W(n).frame
    <2>1. "present" \in Walked(m.memory, dir, va, last).flags
      BY <1>0, <1>1
    <2>. HIDE DEF last
    <2>2. \A n \in 0 .. last :
            /\ K[n].memory = m.memory /\ K[n].free = m.free
            /\ K[n].table # NULL => K[n].table = Walked(m.memory, dir, va, n).frame
      <3>1. m \in Walkers /\ dir \in Pages /\ last \in Depths
        BY <1>0
      <3>. HIDE DEF T
      <3>. QED  BY <2>1, <3>1, WalkOfTables
    <2>. QED  BY <1>0, <2>2
  <1>4. \A n \in Depths : Good(K[n], R) /\ Arrived(K[n], dir, n)
    <2>1. ASSUME NEW n \in Depths PROVE Good(K[n], R) /\ Arrived(K[n], dir, n)
      <3>1. K[n] \in Walkers
        BY <1>0 DEF KernelWalk
      <3>2. /\ K[n].memory = m.memory /\ K[n].free = m.free
            /\ K[n].table # NULL => K[n].table \in Layer(m.memory, dir, n)
        BY <1>2, <1>3
      <3>. QED  BY <3>1, <3>2 DEF Good, Arrived
    <2>. QED  BY <2>1
  <1>5. 0 \in T
    <2>1. K[0] = [m EXCEPT !.table = dir]
      BY DEF KernelWalk
    <2>2. OnTrail(m, K[0], R, dir, va, 0)
      BY <2>1, TrailStarts
    <2>. QED  BY <2>2
  <1>6. ASSUME NEW n \in Nat, n \in T PROVE n + 1 \in T
    <2>1. SUFFICES ASSUME n + 1 \in Depths PROVE OnTrail(m, K[n + 1], R, dir, va, n + 1)
      OBVIOUS
    <2>. DEFINE w == K[n]
                next == K[n + 1]
    <2>2. n \in Upper /\ n \in Depths
      BY <2>1, TablesTypes DEF Upper, Depths
    <2>3. OnTrail(m, w, R, dir, va, n) /\ next = vmm_get_page_map_level(w, Digit(va, n), flags)
          /\ Good(next, R) /\ Arrived(next, dir, n + 1)
      BY <1>4, <1>6, <2>1, <2>2 DEF KernelWalk, Digit
    <2>4. GoesOn(w, flags, Digit(va, n))
      BY <1>2, <1>3, <2>2 DEF GoesOn
    <2>. HIDE DEF w, next, T, last
    <2>5. OnTrail(m, next, R, dir, va, n + 1)
      BY <2>2, <2>3, <2>4, TrailGoesOn
    <2>. QED  BY <2>5 DEF next
  <1>. HIDE DEF T
  <1>7. Nat \subseteq T
    BY <1>5, <1>6, NaturalsByStep
  <1>. QED  BY <1>0, <1>3, <1>7 DEF T

\* The work on m that ends in next has given page va of dir the entry, as far
\* as the tables above allow it, and nothing else to any page of any directory.
Mapping(m, next, R, dir, va, entry) ==
  /\ ViewsBut(m.memory, next.memory, R, dir, va)
  /\ next.table = NULL => Translate(next.memory, dir, va) = Translate(m.memory, dir, va)
  /\ next.table # NULL =>
       \E allowed \in SUBSET Flags :
         /\ "present" \in allowed
         /\ Translate(next.memory, dir, va)
              = [frame |-> entry.frame, flags |-> entry.flags \cap allowed]
  /\ Identity(m.memory) => Reason(next)

LEMMA FinishMaps ==
  ASSUME NEW R, R \subseteq Pages, taken \subseteq Pages, active \in R \cup {NULL}, NEW dir \in R,
         NEW m, NEW last, NEW va \in VirtualPages, OnTrail(m, last, R, dir, va, Levels - 1),
         NEW entry \in Entry, NEW next, next = Finish(last, va, entry)
  PROVE  Mapping(m, next, R, dir, va, entry)
  <1>. DEFINE n == Levels - 1
              i == Index(va, 1)
  <1>1. /\ Good(last, R) /\ Arrived(last, dir, n) /\ Trail(last, dir, va, n)
        /\ ViewsSame(m.memory, last.memory, R) /\ (Identity(m.memory) => Reason(last))
    BY DEF OnTrail
  <1>2. /\ last \in Walkers /\ last.memory \in Memory /\ va \in Nat /\ dir \in Pages
        /\ n \in Depths /\ n \in Nat
    BY <1>1, TablesTypes DEF Good, Walkers, Depths, VirtualPages
  <1>3. i = Digit(va, n)
    <2>1. Levels - n = 1
      BY TablesTypes
    <2>. HIDE DEF n
    <2>. QED  BY <2>1 DEF Digit
  <1>4. i \in Indices
    <2>. HIDE DEF n, i
    <2>. QED  BY <1>2, <1>3, DigitType
  <1>5. Identity(m.memory) => Identity(last.memory) /\ Reason(last)
    BY <1>1, IdentityStays
  <1>. HIDE DEF i
  <1>6. CASE ~Reachable(last.memory, last.table)
    <2>1. next = [last EXCEPT !.table = NULL]
      BY <1>6 DEF Finish
    <2>2. next.memory = last.memory /\ next.free = last.free /\ next.table = NULL
      BY <1>2, <2>1 DEF Walkers
    <2>3. Identity(m.memory) => NoLowPage(last.free)
      <3>. HIDE DEF n
      <3>. QED  BY <1>1, <1>2, <1>5, <1>6, UnreachableReason
    <2>4. ViewsBut(m.memory, next.memory, R, dir, va)
      BY <1>1, <2>2 DEF ViewsBut, ViewsSame, VirtualPages
    <2>5. Translate(next.memory, dir, va) = Translate(m.memory, dir, va)
      BY <1>1, <1>2, <2>2 DEF ViewsSame
    <2>. QED  BY <2>2, <2>3, <2>4, <2>5 DEF Mapping, Reason
  <1>7. CASE Reachable(last.memory, last.table)
    <2>. DEFINE mem == last.memory
                t == last.table
                spare == last.free \cup taken
                above == Walked(mem, dir, va, n)
                allowed == above.flags
    <2>1. t \in Pages /\ t # NULL
      BY <1>7, TablesTypes DEF Reachable
    <2>2. next = [last EXCEPT !.memory = Written(mem, t, i, entry)]
      BY <1>7 DEF Finish, Written, i
    <2>3. next.memory = Written(mem, t, i, entry) /\ next.table = t
      BY <1>2, <2>2 DEF Walkers
    <2>4. /\ Forest(mem, R, spare) /\ Walked(mem, dir, va, n).frame = t
          /\ "present" \in Walked(mem, dir, va, n).flags
      BY <1>1, <2>1 DEF Good, Trail
    <2>5. /\ ViewsBut(mem, next.memory, R, dir, va)
          /\ Translate(next.memory, dir, va)
               = [frame |-> entry.frame, flags |-> entry.flags \cap allowed]
      <3>. DEFINE new == next.memory
      <3>1. /\ new = Written(mem, t, Digit(va, Levels - 1), entry)
            /\ above = Walked(mem, dir, va, Levels - 1) /\ "present" \in above.flags
            /\ above.frame = t /\ mem \in Memory /\ t \in Pages /\ Forest(mem, R, spare)
        BY <1>2, <1>3, <2>1, <2>3, <2>4
      <3>. HIDE DEF n, mem, t, spare, new, above
      <3>2. LeafMaps(mem, new, R, dir, va, entry, above)
        BY <3>1, LeafWriteViews
      <3>. QED  BY <3>2 DEF LeafMaps, new
    <2>6. allowed \in SUBSET Flags
      <3>1. Walked(mem, dir, va, n) \in Entry
        <4>. HIDE DEF n
        <4>. QED  BY <1>2, WalkedSteps
      <3>. QED  BY <3>1 DEF Entry
    <2>7. ViewsBut(m.memory, next.memory, R, dir, va)
      BY <1>1, <2>5 DEF ViewsBut, ViewsSame, VirtualPages
    <2>8. "present" \in allowed
      BY <2>4
    <2>. HIDE DEF mem, t, spare, allowed
    <2>. QED  BY <2>1, <2>3, <2>5, <2>6, <2>7, <2>8 DEF Mapping, Reason
  <1>. QED  BY <1>6, <1>7

LEMMA MapMaps ==
  ASSUME NEW R, R \subseteq Pages, taken \subseteq Pages, active \in R \cup {NULL}, NEW dir \in R,
         NEW m, Good(m, R), m.table # NULL, NEW frame \in Nat, NEW va \in VirtualPages,
         NEW flags \in SUBSET Flags, "present" \in flags
  PROVE  Mapping(m, Map(m, dir, frame, va, flags), R, dir, va, [frame |-> frame, flags |-> flags])
  <1>. DEFINE entry == [frame |-> frame, flags |-> flags]
  <1>1. entry \in Entry /\ m \in Walkers /\ dir \in Pages /\ va \in Nat
    BY TablesTypes DEF Entry, Good, VirtualPages
  <1>2. PICK K : /\ KernelWalk(K, m, dir, va, flags)
                 /\ \A e : WriteEntry(m, dir, va, e, flags) = Finish(K[Levels - 1], va, e)
    BY <1>1, KernelSteps
  <1>3. OnTrail(m, K[Levels - 1], R, dir, va, Levels - 1)
    BY <1>1, <1>2, MapTrail
  <1>4. Map(m, dir, frame, va, flags) = Finish(K[Levels - 1], va, entry)
    BY <1>2 DEF Map
  <1>. DEFINE last == K[Levels - 1]
              next == Map(m, dir, frame, va, flags)
  <1>. HIDE DEF entry, last, next
  <1>5. Mapping(m, next, R, dir, va, entry)
    BY <1>1, <1>3, <1>4, FinishMaps DEF last, next
  <1>. QED  BY <1>5 DEF entry, next

LEMMA UnmapMaps ==
  ASSUME NEW R, R \subseteq Pages, taken \subseteq Pages, active \in R \cup {NULL}, NEW dir \in R,
         NEW m, Good(m, R), m.table # NULL, NEW va \in VirtualPages, Mapped(m.memory, dir, va)
  PROVE  Mapping(m, Unmap(m, dir, va), R, dir, va, NotMapped)
  <1>. DEFINE none == {}
  <1>1. NotMapped \in Entry /\ m \in Walkers /\ dir \in Pages /\ va \in Nat /\ none \in SUBSET Flags
    BY TablesTypes DEF Entry, Good, VirtualPages, NotMapped
  <1>2. PICK K : /\ KernelWalk(K, m, dir, va, none)
                 /\ \A e : WriteEntry(m, dir, va, e, none) = Finish(K[Levels - 1], va, e)
    <2>. HIDE DEF none
    <2>. QED  BY <1>1, KernelSteps
  <1>3. OnTrail(m, K[Levels - 1], R, dir, va, Levels - 1)
    <2>. HIDE DEF none
    <2>. QED  BY <1>1, <1>2, UnmapTrail
  <1>. DEFINE last == K[Levels - 1]
              next == Unmap(m, dir, va)
  <1>4. next = Finish(last, va, NotMapped)
    BY <1>2 DEF Unmap
  <1>. HIDE DEF none, last, next
  <1>5. Mapping(m, next, R, dir, va, NotMapped)
    BY <1>1, <1>3, <1>4, FinishMaps DEF last
  <1>. QED  BY <1>5 DEF next
----------------------------------------------------------------------------
(* What mapping a range does to the translations.                          *)

\* A cleared directory maps nothing.
LEMMA ClearedMapsNothing ==
  ASSUME NEW mem \in Memory, NEW dir \in Pages, mem[dir] = Cleared, NEW x \in Nat
  PROVE  ~Mapped(mem, dir, x)
  <1>1. /\ 0 \in Depths /\ 0 + 1 = 1 /\ 1 \in 0 .. Levels /\ Levels \in 0 .. Levels
    BY TablesTypes DEF Depths
  <1>2. SUFFICES ASSUME Mapped(mem, dir, x) PROVE FALSE
    OBVIOUS
  <1>3. "present" \in Walked(mem, dir, x, Levels).flags
    BY <1>2, WalkedSteps DEF Mapped
  <1>4. "present" \in Walked(mem, dir, x, 0 + 1).flags
    BY <1>1, <1>3, WalkedAbove
  <1>5. Present(mem, Walked(mem, dir, x, 0).frame, Digit(x, 0))
    BY <1>1, <1>4, WalkedOn
  <1>6. Walked(mem, dir, x, 0).frame = dir /\ Digit(x, 0) \in Indices
    BY <1>1, WalkedSteps, DigitType
  <1>. QED  BY <1>5, <1>6 DEF Present, Cleared, NotMapped

\* Page base + i of dir is mapped to frame i for each i < n, and the other
\* pages to what they were mapped to before.
Ranged(mem, new, dir, base, n) ==
  \A x \in VirtualPages :
    IF x \in base .. (base + n - 1)
      THEN Mapped(new, dir, x) /\ Translate(new, dir, x).frame = x - base
      ELSE Translate(new, dir, x) = Translate(mem, dir, x)

\* So it is after a range of n pages, or there was a reason to stop.
RangeMapped(m, w, dir, base, n) ==
  /\ w.table # NULL => Ranged(m.memory, w.memory, dir, base, n)
  /\ Reason(w)

LEMMA RangeMapsNext ==
  ASSUME NEW R, R \subseteq Pages, taken \subseteq Pages, active = NULL, NEW dir \in R,
         NEW m, NEW w, NEW next, NEW base \in Nat, NEW n \in Nat, base + n \in VirtualPages,
         NEW flags \in SUBSET Flags, "present" \in flags,
         Ranged(m.memory, w.memory, dir, base, n),
         Mapping(w, next, R, dir, base + n, [frame |-> n, flags |-> flags])
  PROVE  RangeMapped(m, next, dir, base, n + 1)
  <1>. DEFINE va == base + n
              entry == [frame |-> n, flags |-> flags]
  <1>1. entry.frame = n /\ entry.flags = flags
    OBVIOUS
  <1>. HIDE DEF entry
  <1>2. Mapping(w, next, R, dir, va, entry)
    BY DEF entry
  <1>3. Reason(next)
    BY <1>2 DEF Mapping, Identity
  <1>4. ASSUME next.table # NULL, NEW x \in VirtualPages
        PROVE  IF x \in base .. (base + (n + 1) - 1)
                 THEN Mapped(next.memory, dir, x) /\ Translate(next.memory, dir, x).frame = x - base
                 ELSE Translate(next.memory, dir, x) = Translate(m.memory, dir, x)
    <2>1. CASE x = va
      <3>1. PICK allowed \in SUBSET Flags :
              /\ "present" \in allowed
              /\ Translate(next.memory, dir, va)
                   = [frame |-> entry.frame, flags |-> entry.flags \cap allowed]
        BY <1>2, <1>4 DEF Mapping
      <3>2. /\ Translate(next.memory, dir, va).frame = n
            /\ "present" \in Translate(next.memory, dir, va).flags
        BY <1>1, <3>1
      <3>3. va \in base .. (base + (n + 1) - 1) /\ va - base = n
        OBVIOUS
      <3>. HIDE DEF va
      <3>. QED  BY <2>1, <3>2, <3>3 DEF Mapped
    <2>2. CASE x # va
      <3>1. Translate(next.memory, dir, x) = Translate(w.memory, dir, x)
        BY <1>2, <2>2 DEF Mapping, ViewsBut
      <3>2. x \in Nat
        BY DEF VirtualPages
      <3>3. x \in base .. (base + (n + 1) - 1) <=> x \in base .. (base + n - 1)
        BY <2>2, <3>2
      <3>. QED  BY <3>1, <3>3 DEF Ranged, Mapped
    <2>. QED  BY <2>1, <2>2
  <1>. QED  BY <1>3, <1>4 DEF RangeMapped, Ranged

LEMMA RangeMaps ==
  ASSUME NEW R, R \subseteq Pages, taken \subseteq Pages, active = NULL, NEW dir \in R,
         NEW m, Good(m, R), m.table # NULL, NEW base \in Nat, NEW pages \in Nat,
         base + pages <= Entries ^ Levels, NEW flags \in SUBSET Flags, "present" \in flags
  PROVE  RangeMapped(m, MapRange(m, dir, base, pages, flags), dir, base, pages)
  <1>. DEFINE In(w, n) == Good(w, R) /\ RangeMapped(m, w, dir, base, n)
              V == [n \in 0 .. pages |-> {w \in Walkers : In(w, n)}]
              next == MapRange(m, dir, base, pages, flags)
  <1>1. m \in V[0]
    <2>1. \A x : x \notin base .. (base + 0 - 1)
      OBVIOUS
    <2>2. RangeMapped(m, m, dir, base, 0)
      BY <2>1 DEF RangeMapped, Ranged, Reason
    <2>. QED  BY <2>2 DEF Good
  <1>2. RangeKeeps(V, dir, base, pages, flags)
    <2>1. ASSUME NEW n \in 0 .. (pages - 1), NEW w \in Walkers, In(w, n)
          PROVE  In(RangeStep(w, dir, base, n, flags), n + 1)
      <3>1. CASE w.table = NULL
        BY <2>1, <3>1 DEF RangeStep, RangeMapped
      <3>2. CASE w.table # NULL
        <4>. DEFINE after == Map(w, dir, n, base + n, flags)
        <4>0. base + n \in VirtualPages /\ n \in Nat /\ base + n \in Nat
          <5>1. Entries ^ Levels \in Nat
            <6>1. Levels \in 0 .. (Levels + 1)
              BY TablesTypes
            <6>. QED  BY <6>1, Powers
          <5>. QED  BY <5>1 DEF VirtualPages
        <4>1. Good(w, R) /\ Ranged(m.memory, w.memory, dir, base, n)
          BY <2>1, <3>2 DEF RangeMapped
        <4>2. Good(after, R)
          BY <3>2, <4>0, <4>1, MapKeepsForest
        <4>3. Mapping(w, after, R, dir, base + n, [frame |-> n, flags |-> flags])
          BY <3>2, <4>0, <4>1, MapMaps
        <4>. HIDE DEF after
        <4>4. RangeMapped(m, after, dir, base, n + 1)
          BY <4>0, <4>1, <4>3, RangeMapsNext
        <4>. QED  BY <3>2, <4>2, <4>4 DEF RangeStep, after
      <3>. QED  BY <3>1, <3>2
    <2>2. \A n \in 0 .. (pages - 1) : n \in 0 .. pages /\ n + 1 \in 0 .. pages
      OBVIOUS
    <2>3. \A n \in 0 .. pages : V[n] = {w \in Walkers : In(w, n)}
      OBVIOUS
    <2>4. \A w, n : In(w, n) => w \in Walkers
      BY DEF Good
    <2>. HIDE DEF In, V
    <2>. QED  BY <2>1, <2>2, <2>3, <2>4 DEF RangeKeeps
  <1>. HIDE DEF In, V
  <1>3. next \in V[pages]
    BY <1>1, <1>2, RangeStays
  <1>. HIDE DEF next
  <1>. QED  BY <1>3 DEF V, In, next

\* The areas that vmm_init maps, and what it maps there.
Areas == (0 .. (LowPages - 1)) \cup (DataBase .. (DataBase + LowPages - 1))
           \cup (CodeBase .. (CodeBase + CodePages - 1))
AreasMapped(mem, dir) ==
  \A x \in VirtualPages :
    /\ x < LowPages => Mapped(mem, dir, x) /\ Translate(mem, dir, x).frame = x
    /\ Mapped(mem, dir, x) => x \in Areas

\* The areas do not overlap.
LEMMA AreasMade ==
  ASSUME NEW mem, NEW low, NEW data, NEW code, NEW dir, NEW zero, zero = 0,
         \A x \in Nat : ~Mapped(mem, dir, x),
         Ranged(mem, low, dir, zero, LowPages), Ranged(low, data, dir, DataBase, LowPages),
         Ranged(data, code, dir, CodeBase, CodePages)
  PROVE  AreasMapped(code, dir)
  <1>1. /\ LowPages \in Nat /\ CodePages \in Nat /\ DataBase \in Nat /\ CodeBase \in Nat
        /\ LowPages <= DataBase /\ DataBase + LowPages <= CodeBase
    BY VMMAssumption
  <1>. SUFFICES ASSUME NEW x \in VirtualPages
                PROVE  /\ x < LowPages => Mapped(code, dir, x) /\ Translate(code, dir, x).frame = x
                       /\ Mapped(code, dir, x) => x \in Areas
    BY DEF AreasMapped
  <1>2. x \in Nat
    BY DEF VirtualPages
  <1>3. CASE x < LowPages
    <2>1. /\ x \in zero .. (zero + LowPages - 1) /\ x \notin DataBase .. (DataBase + LowPages - 1)
          /\ x \notin CodeBase .. (CodeBase + CodePages - 1) /\ x - zero = x
      BY <1>1, <1>2, <1>3
    <2>2. /\ Translate(code, dir, x) = Translate(data, dir, x)
          /\ Translate(data, dir, x) = Translate(low, dir, x)
          /\ Mapped(low, dir, x) /\ Translate(low, dir, x).frame = x
      BY <2>1 DEF Ranged
    <2>3. x \in Areas
      BY <1>1, <1>2, <1>3 DEF Areas
    <2>. QED  BY <2>2, <2>3 DEF Mapped
  <1>4. CASE x \notin Areas
    <2>1. /\ x \notin zero .. (zero + LowPages - 1) /\ x \notin DataBase .. (DataBase + LowPages - 1)
          /\ x \notin CodeBase .. (CodeBase + CodePages - 1) /\ ~(x < LowPages)
      BY <1>1, <1>2, <1>4 DEF Areas
    <2>2. Translate(code, dir, x) = Translate(mem, dir, x)
      BY <2>1 DEF Ranged
    <2>. QED  BY <1>2, <2>1, <2>2 DEF Mapped
  <1>. QED  BY <1>3, <1>4

\* A new directory is cleared, and missing for a reason.
LEMMA DirectoryReason ==
  ASSUME VmmInv, status # "fault", NEW m, m = vmm_create_page_directory
  PROVE  /\ m.table # NULL => memory[m.table] = Cleared
         /\ Identity(memory) => Reason(m)
  <1>. DEFINE dir == pmm_alloc(free)
  <1>1. /\ free \subseteq Pages /\ memory \in Memory /\ free \subseteq usable /\ free \cap taken = {}
        /\ \A p \in free : memory[p] = Cleared
    BY DEF VmmInv, PagesTyped, Forest
  <1>2. dir \in free \/ (free = {} /\ dir = NULL)
    BY <1>1, FreePage
  <1>3. /\ m.table = IF Reachable(memory, dir) THEN dir ELSE NULL
        /\ m.free = free \ {dir}
    BY DEF vmm_create_page_directory
  <1>. HIDE DEF dir
  <1>4. CASE Reachable(memory, dir)
    <2>1. dir \in free /\ dir # NULL /\ m.table = dir
      BY <1>2, <1>3, <1>4, TablesTypes DEF Reachable
    <2>. QED  BY <1>1, <2>1 DEF Reason
  <1>5. CASE ~Reachable(memory, dir)
    <2>1. m.table = NULL
      BY <1>3, <1>5
    <2>2. CASE free = {}
      BY <1>3, <2>1, <2>2 DEF Reason, NoLowPage
    <2>3. CASE free # {}
      <3>1. dir \in Pages /\ dir \in usable \ (m.free \cup taken)
        BY <1>1, <1>2, <1>3, <2>3
      <3>2. Identity(memory) => ~(dir < LowPages)
        BY <1>5, <3>1 DEF Reachable, Identity
      <3>3. dir \in Nat /\ LowPages \in Nat
        BY <3>1, TablesTypes, VMMAssumption
      <3>4. Identity(memory) => dir >= LowPages
        BY <3>2, <3>3
      <3>. QED  BY <2>1, <3>1, <3>4 DEF Reason, NoLowPage
    <2>. QED  BY <2>2, <2>3
  <1>. QED  BY <1>4, <1>5

\* vmm_init maps the areas, or faults for a reason.
LEMMA BootMaps ==
  ASSUME VmmInv, status = "boot", active = NULL, NEW root, root = vmm_create_page_directory,
         NEW low, low = MapLow(root, root.table),
         NEW data, data = MapRange(low, root.table, DataBase, LowPages, Flags),
         NEW m, m = MapRange(data, root.table, CodeBase, CodePages, {"present"})
  PROVE  /\ m.table # NULL => root.table # NULL /\ AreasMapped(m.memory, root.table)
         /\ Reason(m)
  <1>. DEFINE dir == root.table
              zero == 0
              readable == {"present"}
  <1>1. /\ root.memory = memory
        /\ dir # NULL => dir \in Pages /\ Good(root, Roots \cup {dir}) /\ memory[dir] = Cleared
        /\ Reason(root)
    BY DirectoryMade, DirectoryReason DEF Identity
  <1>2. /\ LowPages \in Nat /\ CodePages \in Nat /\ DataBase \in Nat /\ CodeBase \in Nat
        /\ zero \in Nat /\ Flags \in SUBSET Flags /\ readable \in SUBSET Flags
        /\ "present" \in Flags /\ "present" \in readable
        /\ zero + LowPages <= Entries ^ Levels /\ DataBase + LowPages <= Entries ^ Levels
        /\ CodeBase + CodePages <= Entries ^ Levels
    <2>1. Entries ^ Levels \in Nat
      <3>1. Levels \in 0 .. (Levels + 1)
        BY TablesTypes
      <3>. QED  BY <3>1, Powers
    <2>2. readable \in SUBSET Flags /\ "present" \in Flags /\ "present" \in readable
      BY DEF Flags
    <2>. QED  BY <2>1, <2>2, VMMAssumption
  <1>3. Roots = {} /\ taken \subseteq Pages /\ memory \in Memory
    BY DEF VmmInv, DirsTyped, Roots, PagesTyped
  <1>4. low = MapRange(root, dir, zero, LowPages, Flags)
    BY DEF MapLow
  <1>5. data = MapRange(low, dir, DataBase, LowPages, Flags)
    OBVIOUS
  <1>6. m = MapRange(data, dir, CodeBase, CodePages, readable)
    OBVIOUS
  <1>. HIDE DEF dir, readable
  <1>7. CASE dir = NULL
    <2>1. low = root
      BY <1>2, <1>4, <1>7, RangeFaulted DEF dir
    <2>2. data = root
      BY <1>2, <1>5, <1>7, <2>1, RangeFaulted DEF dir
    <2>3. m = root
      BY <1>2, <1>6, <1>7, <2>2, RangeFaulted DEF dir
    <2>. QED  BY <1>1, <1>7, <2>3 DEF dir
  <1>8. CASE dir # NULL
    <2>. DEFINE R == {dir}
    <2>1. dir \in Pages /\ dir \in R /\ R \subseteq Pages /\ Good(root, R) /\ root.table # NULL
      BY <1>1, <1>3, <1>8 DEF dir
    <2>. HIDE DEF R, zero
    <2>2. Good(low, R) /\ RangeMapped(root, low, dir, zero, LowPages)
      BY <1>2, <1>3, <1>4, <2>1, RangeKeepsForest, RangeMaps
    <2>3. CASE low.table = NULL
      <3>1. data = low
        BY <1>2, <1>5, <2>3, RangeFaulted
      <3>2. m = low
        BY <1>2, <1>6, <2>3, <3>1, RangeFaulted
      <3>. QED  BY <2>2, <2>3, <3>2 DEF RangeMapped
    <2>4. CASE low.table # NULL
      <3>1. Good(data, R) /\ RangeMapped(low, data, dir, DataBase, LowPages)
        BY <1>2, <1>3, <1>5, <2>1, <2>2, <2>4, RangeKeepsForest, RangeMaps
      <3>2. CASE data.table = NULL
        <4>1. m = data
          BY <1>2, <1>6, <3>2, RangeFaulted
        <4>. QED  BY <3>1, <3>2, <4>1 DEF RangeMapped
      <3>3. CASE data.table # NULL
        <4>1. RangeMapped(data, m, dir, CodeBase, CodePages)
          BY <1>2, <1>3, <1>6, <2>1, <3>1, <3>3, RangeMaps
        <4>2. /\ Reason(m) /\ Ranged(root.memory, low.memory, dir, zero, LowPages)
              /\ Ranged(low.memory, data.memory, dir, DataBase, LowPages)
              /\ m.table # NULL => Ranged(data.memory, m.memory, dir, CodeBase, CodePages)
          BY <2>2, <2>4, <3>1, <3>3, <4>1 DEF RangeMapped
        <4>3. \A x \in Nat : ~Mapped(root.memory, dir, x)
          <5>1. root.memory \in Memory /\ dir \in Pages /\ root.memory[dir] = Cleared
            BY <1>1, <1>3, <1>8, <2>1
          <5>. QED  BY <5>1, ClearedMapsNothing
        <4>4. m.table # NULL => AreasMapped(m.memory, dir)
          <5>1. zero = 0
            BY DEF zero
          <5>. QED  BY <4>2, <4>3, <5>1, AreasMade
        <4>. QED  BY <2>1, <4>2, <4>4 DEF dir
      <3>. QED  BY <3>2, <3>3
    <2>. QED  BY <2>3, <2>4
  <1>. QED  BY <1>7, <1>8
----------------------------------------------------------------------------
(* What the CPU sees of the directories.                                   *)

\* The CPU uses one of the directories; what its TLB holds is what that
\* directory maps, which is nothing but the areas and pages of clients.
CpuInv ==
  /\ active \in Roots \cup {NULL} /\ DOMAIN tlb \subseteq Addresses
  /\ status = "boot" => active = NULL /\ DOMAIN tlb = {}
  /\ status = "running" =>
       /\ active \in Roots
       /\ \A va \in DOMAIN tlb : tlb[va] = Translate(memory, active, va)
       /\ \A va \in VirtualPages : Mapped(memory, active, va) => va \in Areas \cup Addresses

\* Clients map no page of the areas, which the kernel keeps to itself.
AddressesApart == Addresses \cap Areas = {}

\* What the structures of a running VMM map: every low page to itself, and a
\* client's page to memory.
LowIsMapped ==
  \A p \in VirtualPages : p < LowPages =>
    Mapped(memory, active, p) /\ Translate(memory, active, p).frame = p
FramesArePages ==
  \A r \in Roots : \A va \in Addresses :
    Mapped(memory, r, va) => Translate(memory, r, va).frame \in Pages

\* So the kernel finds its tables as long as they are low pages, and the CPU
\* reaches only memory at the pages of clients.
ClientInv ==
  /\ status = "running" => LowIsMapped /\ FramesArePages
  /\ \A va \in DOMAIN tlb : tlb[va] \in [frame : Pages, flags : SUBSET Flags]
  /\ status = "fault" => NoLowPage(free)

LEMMA LowPagesAreVirtual ==
  \A p \in Nat : p < LowPages => p \in VirtualPages
  <1>1. Entries ^ Levels \in Nat
    <2>1. Levels \in 0 .. (Levels + 1)
      BY TablesTypes
    <2>. QED  BY <2>1, Powers
  <1>2. /\ {LowPages, DataBase, CodeBase, CodePages} \subseteq Nat
        /\ LowPages <= DataBase /\ DataBase + LowPages <= CodeBase
        /\ CodeBase + CodePages <= Entries ^ Levels
    BY VMMAssumption
  <1>. DEFINE all == Entries ^ Levels
  <1>3. all \in Nat /\ CodeBase + CodePages <= all
    BY <1>1, <1>2
  <1>4. VirtualPages = 0 .. (all - 1)
    BY DEF VirtualPages
  <1>. HIDE DEF all
  <1>. QED  BY <1>2, <1>3, <1>4

\* Then the kernel finds them.
LEMMA LowIsIdentity ==
  ASSUME LowIsMapped
  PROVE  Identity(memory)
  <1>1. ASSUME NEW p \in Pages, p < LowPages
        PROVE  Mapped(memory, active, p) /\ Translate(memory, active, p).frame = p
    <2>1. p \in VirtualPages
      BY <1>1, TablesTypes, LowPagesAreVirtual
    <2>. QED  BY <1>1, <2>1 DEF LowIsMapped
  <1>. QED  BY <1>1 DEF Identity

\* The step of one mapping: m has the state's memory, next becomes the state.
MappingStep(m, next, dir, va, entry) ==
  /\ Mapping(m, next, Roots, dir, va, entry) /\ m.memory = memory /\ Become(next)
  /\ IF next.table = NULL THEN UNCHANGED tlb ELSE vmm_flush_tlb(va)
  /\ UNCHANGED <<usable, taken, dirs, active>>

LEMMA StepOfMapping ==
  ASSUME NEW m, NEW next, NEW dir, NEW va, NEW entry, MappingStep(m, next, dir, va, entry)
  PROVE  /\ Roots' = Roots /\ active' = active
         /\ status' = "running" <=> next.table # NULL
         /\ status' = "fault" <=> next.table = NULL
         /\ memory' = next.memory /\ free' = next.free /\ status' # "boot"
         /\ DOMAIN tlb' \subseteq DOMAIN tlb /\ \A a \in DOMAIN tlb' : tlb'[a] = tlb[a]
         /\ status' = "running" => va \notin DOMAIN tlb'
  <1>1. /\ memory' = next.memory /\ free' = next.free /\ dirs' = dirs /\ active' = active
        /\ status' = IF next.table = NULL THEN "fault" ELSE "running"
        /\ IF next.table = NULL THEN UNCHANGED tlb ELSE vmm_flush_tlb(va)
    BY DEF MappingStep, Become
  <1>2. Roots' = Roots
    BY <1>1 DEF Roots
  <1>. QED  BY <1>1, <1>2 DEF vmm_flush_tlb

LEMMA MappingKeepsCpu ==
  ASSUME CpuInv, status = "running", NEW m, NEW next, NEW dir \in Roots, NEW va \in Addresses,
         NEW entry, MappingStep(m, next, dir, va, entry)
  PROVE  CpuInv'
  <1>1. /\ Roots' = Roots /\ active' = active /\ memory' = next.memory /\ status' # "boot"
        /\ DOMAIN tlb' \subseteq DOMAIN tlb /\ \A a \in DOMAIN tlb' : tlb'[a] = tlb[a]
        /\ status' = "running" => va \notin DOMAIN tlb'
    BY StepOfMapping
  <1>2. \A s \in Roots : \A x \in VirtualPages :
          s # dir \/ x # va => Translate(memory', s, x) = Translate(memory, s, x)
    BY <1>1 DEF MappingStep, Mapping, ViewsBut
  <1>3. active \in Roots /\ Addresses \subseteq VirtualPages /\ DOMAIN tlb \subseteq Addresses
    BY VMMAssumption DEF CpuInv
  <1>4. ASSUME status' = "running", NEW a \in DOMAIN tlb'
        PROVE  tlb'[a] = Translate(memory', active, a)
    <2>1. a # va /\ a \in DOMAIN tlb /\ a \in VirtualPages /\ tlb'[a] = tlb[a]
      BY <1>1, <1>3, <1>4
    <2>. QED  BY <1>2, <1>3, <2>1 DEF CpuInv
  <1>5. ASSUME NEW x \in VirtualPages, Mapped(memory', active, x)
        PROVE  x \in Areas \cup Addresses
    <2>1. CASE x = va
      BY <2>1
    <2>2. CASE x # va
      <3>1. Mapped(memory, active, x)
        BY <1>2, <1>3, <1>5, <2>2 DEF Mapped
      <3>. QED  BY <3>1 DEF CpuInv
    <2>. QED  BY <2>1, <2>2
  <1>6. DOMAIN tlb' \subseteq Addresses
    BY <1>1, <1>3
  <1>. QED  BY <1>1, <1>3, <1>4, <1>5, <1>6 DEF CpuInv

LEMMA MappingKeepsClient ==
  ASSUME AddressesApart, CpuInv, ClientInv, status = "running", NEW m, NEW next,
         NEW dir \in Roots, NEW va \in Addresses, NEW entry \in Entry,
         "present" \in entry.flags => entry.frame \in Pages,
         MappingStep(m, next, dir, va, entry)
  PROVE  ClientInv'
  <1>1. /\ Roots' = Roots /\ active' = active /\ memory' = next.memory /\ free' = next.free
        /\ DOMAIN tlb' \subseteq DOMAIN tlb /\ \A a \in DOMAIN tlb' : tlb'[a] = tlb[a]
        /\ status' = "running" <=> next.table # NULL
        /\ status' = "fault" <=> next.table = NULL
    BY StepOfMapping
  <1>2. /\ \A s \in Roots : \A x \in VirtualPages :
             s # dir \/ x # va => Translate(memory', s, x) = Translate(memory, s, x)
        /\ m.memory = memory /\ Mapping(m, next, Roots, dir, va, entry)
        /\ UNCHANGED <<usable, taken>>
    BY <1>1 DEF MappingStep, Mapping, ViewsBut
  <1>3. active \in Roots /\ LowIsMapped /\ FramesArePages /\ Addresses \subseteq VirtualPages
    BY VMMAssumption DEF CpuInv, ClientInv
  <1>4. Pages \subseteq Nat /\ VirtualPages \subseteq Nat /\ LowPages \in Nat
    BY TablesTypes, VMMAssumption DEF VirtualPages
  <1>5. LowIsMapped'
    <2>1. ASSUME NEW p \in VirtualPages, p < LowPages
          PROVE  Mapped(memory', active, p) /\ Translate(memory', active, p).frame = p
      <3>1. p \in Areas
        BY <1>4, <2>1 DEF Areas
      <3>2. p # va
        BY <3>1 DEF AddressesApart
      <3>3. Translate(memory', active, p) = Translate(memory, active, p)
        BY <1>2, <1>3, <3>2
      <3>. QED  BY <1>3, <2>1, <3>3 DEF LowIsMapped, Mapped
    <2>. QED  BY <1>1, <2>1 DEF LowIsMapped
  <1>6. ASSUME status' = "running" PROVE FramesArePages'
    <2>1. ASSUME NEW r \in Roots, NEW x \in Addresses, Mapped(memory', r, x)
          PROVE  Translate(memory', r, x).frame \in Pages
      <3>1. CASE r = dir /\ x = va
        <4>1. PICK allowed \in SUBSET Flags :
                Translate(memory', dir, va)
                  = [frame |-> entry.frame, flags |-> entry.flags \cap allowed]
          BY <1>1, <1>2, <1>6 DEF Mapping
        <4>2. /\ Translate(memory', dir, va).frame = entry.frame
              /\ Translate(memory', dir, va).flags = entry.flags \cap allowed
          BY <4>1
        <4>. QED  BY <2>1, <3>1, <4>2 DEF Mapped
      <3>2. CASE ~(r = dir /\ x = va)
        <4>1. Translate(memory', r, x) = Translate(memory, r, x)
          BY <1>2, <1>3, <3>2
        <4>. QED  BY <1>3, <2>1, <4>1 DEF FramesArePages, Mapped
      <3>. QED  BY <3>1, <3>2
    <2>. QED  BY <1>1, <2>1 DEF FramesArePages
  <1>7. status' = "fault" => NoLowPage(free)'
    <2>1. Identity(memory)
      BY <1>3, LowIsIdentity
    <2>2. next.table = NULL => NoLowPage(next.free)
      BY <1>2, <2>1 DEF Mapping, Reason
    <2>. QED  BY <1>1, <1>2, <2>2 DEF NoLowPage
  <1>8. \A a \in DOMAIN tlb' : tlb'[a] \in [frame : Pages, flags : SUBSET Flags]
    BY <1>1 DEF ClientInv
  <1>. QED  BY <1>5, <1>6, <1>7, <1>8 DEF ClientInv

\* The two functions that map and unmap take such a step.
LEMMA MapPageIsMapping ==
  ASSUME VmmInv, CpuInv, NEW k \in DOMAIN dirs, NEW frame \in taken, NEW va \in Addresses,
         NEW flags \in MapFlags, vmm_map_page(dirs[k], frame, va, flags)
  PROVE  /\ status = "running" /\ dirs[k] \in Roots
         /\ \E m, next : MappingStep(m, next, dirs[k], va, [frame |-> frame, flags |-> flags])
         /\ [frame |-> frame, flags |-> flags] \in Entry
  <1>. DEFINE start == [memory |-> memory, free |-> free, table |-> dirs[k]]
              m == Map(start, dirs[k], frame, va, flags)
              entry == [frame |-> frame, flags |-> flags]
  <1>1. /\ status = "running" /\ Become(m)
        /\ IF m.table = NULL THEN UNCHANGED tlb ELSE vmm_flush_tlb(va)
        /\ UNCHANGED <<usable, taken, dirs, active>>
    BY DEF vmm_map_page
  <1>2. /\ Good(start, Roots) /\ start.table # NULL /\ start.memory = memory
        /\ dirs[k] \in Roots /\ Roots \subseteq Pages /\ taken \subseteq Pages
    BY <1>1, GoodStart
  <1>3. frame \in Nat /\ va \in VirtualPages /\ flags \in SUBSET Flags /\ "present" \in flags
    BY <1>2, TablesTypes, VMMAssumption
  <1>4. active \in Roots \cup {NULL}
    BY DEF CpuInv
  <1>. HIDE DEF start
  <1>5. Mapping(start, m, Roots, dirs[k], va, entry)
    BY <1>2, <1>3, <1>4, MapMaps
  <1>. HIDE DEF m
  <1>6. MappingStep(start, m, dirs[k], va, entry)
    <2>. HIDE DEF entry
    <2>. QED  BY <1>1, <1>2, <1>5 DEF MappingStep
  <1>7. entry \in Entry
    BY <1>3 DEF Entry
  <1>. QED  BY <1>1, <1>2, <1>6, <1>7

LEMMA UnmapPageIsMapping ==
  ASSUME MappedIsUnmapped, VmmInv, CpuInv, NEW k \in DOMAIN dirs, NEW va \in Addresses,
         vmm_unmap_page(dirs[k], va)
  PROVE  /\ status = "running" /\ dirs[k] \in Roots
         /\ \E m, next : MappingStep(m, next, dirs[k], va, NotMapped)
  <1>. DEFINE start == [memory |-> memory, free |-> free, table |-> dirs[k]]
              m == Unmap(start, dirs[k], va)
  <1>1. /\ status = "running" /\ Become(m) /\ Mapped(memory, dirs[k], va)
        /\ IF m.table = NULL THEN UNCHANGED tlb ELSE vmm_flush_tlb(va)
        /\ UNCHANGED <<usable, taken, dirs, active>>
    BY DEF vmm_unmap_page, MappedIsUnmapped
  <1>2. /\ Good(start, Roots) /\ start.table # NULL /\ start.memory = memory
        /\ dirs[k] \in Roots /\ Roots \subseteq Pages /\ taken \subseteq Pages
    BY <1>1, GoodStart
  <1>3. va \in VirtualPages /\ active \in Roots \cup {NULL}
    BY VMMAssumption DEF CpuInv
  <1>. HIDE DEF start
  <1>4. Mapped(start.memory, dirs[k], va)
    BY <1>1, <1>2
  <1>5. Mapping(start, m, Roots, dirs[k], va, NotMapped)
    BY <1>2, <1>3, <1>4, UnmapMaps
  <1>. HIDE DEF m
  <1>6. MappingStep(start, m, dirs[k], va, NotMapped)
    BY <1>1, <1>2, <1>5 DEF MappingStep
  <1>. QED  BY <1>1, <1>2, <1>6

LEMMA BootKeepsCpu ==
  ASSUME VmmInv, CpuInv, vmm_init
  PROVE  /\ CpuInv' /\ (AddressesApart => ClientInv')
  <1>. DEFINE root == vmm_create_page_directory
              low  == MapLow(root, root.table)
              data == MapRange(low, root.table, DataBase, LowPages, Flags)
              m    == MapRange(data, root.table, CodeBase, CodePages, {"present"})
              dir  == root.table
  <1>1. /\ status = "boot" /\ Become(m) /\ UNCHANGED <<usable, taken, tlb>>
        /\ dirs' = IF dir = NULL THEN <<>> ELSE <<dir>>
        /\ active' = IF m.table = NULL THEN NULL ELSE dir
    BY DEF vmm_init
  <1>2. active = NULL /\ DOMAIN tlb = {}
    BY <1>1 DEF CpuInv
  <1>3. /\ m.table # NULL => dir # NULL /\ AreasMapped(m.memory, dir)
        /\ Reason(m)
    BY <1>1, <1>2, BootMaps
  <1>. HIDE DEF m, dir
  <1>4. /\ memory' = m.memory /\ free' = m.free /\ DOMAIN tlb' = {} /\ status' # "boot"
        /\ status' = IF m.table = NULL THEN "fault" ELSE "running"
    BY <1>1, <1>2 DEF Become
  <1>5. CASE m.table = NULL
    <2>1. NoLowPage(m.free) /\ active' = NULL /\ status' = "fault"
      BY <1>1, <1>3, <1>4, <1>5 DEF Reason
    <2>2. NoLowPage(free)'
      BY <1>1, <1>4, <2>1 DEF NoLowPage
    <2>. QED  BY <1>4, <2>1, <2>2 DEF CpuInv, ClientInv
  <1>6. CASE m.table # NULL
    <2>1. AreasMapped(memory', dir) /\ active' = dir /\ dirs' = <<dir>> /\ status' = "running"
      BY <1>1, <1>3, <1>4, <1>6
    <2>2. Roots' = {dir}
      BY <2>1 DEF Roots
    <2>3. CpuInv'
      <3>1. \A va \in VirtualPages : Mapped(memory', active', va) => va \in Areas \cup Addresses
        BY <2>1 DEF AreasMapped
      <3>. QED  BY <1>4, <2>1, <2>2, <3>1 DEF CpuInv
    <2>4. LowIsMapped'
      BY <2>1 DEF AreasMapped, LowIsMapped
    <2>5. ASSUME AddressesApart PROVE FramesArePages'
      <3>1. ASSUME NEW va \in Addresses PROVE ~Mapped(memory', dir, va)
        <4>1. va \in VirtualPages /\ va \notin Areas
          BY <2>5, VMMAssumption DEF AddressesApart
        <4>. QED  BY <2>1, <4>1 DEF AreasMapped
      <3>. QED  BY <2>2, <3>1 DEF FramesArePages
    <2>6. AddressesApart => ClientInv'
      BY <1>4, <2>1, <2>4, <2>5 DEF ClientInv
    <2>. QED  BY <2>3, <2>6
  <1>. QED  BY <1>5, <1>6

LEMMA CreateKeepsCpu ==
  ASSUME VmmInv, CpuInv, CreateDirectory
  PROVE  CpuInv' /\ (ClientInv => ClientInv')
  <1>. DEFINE m == vmm_create_page_directory
              dir == m.table
  <1>1. /\ status = "running" /\ Become(m) /\ UNCHANGED <<usable, taken, active, tlb>>
        /\ dirs' = IF dir = NULL THEN dirs ELSE Append(dirs, dir)
    BY DEF CreateDirectory
  <1>2. /\ m.memory = memory
        /\ dir # NULL => dir \in Pages /\ memory[dir] = Cleared
        /\ Identity(memory) => Reason(m)
    BY <1>1, DirectoryMade, DirectoryReason
  <1>3. dirs \in Seq(Pages) /\ memory \in Memory
    BY DEF VmmInv, DirsTyped, PagesTyped
  <1>. HIDE DEF m
  <1>4. /\ memory' = memory /\ free' = m.free /\ status' # "boot"
        /\ status' = IF dir = NULL THEN "fault" ELSE "running"
    BY <1>1, <1>2 DEF Become
  <1>5. Roots' = IF dir = NULL THEN Roots ELSE Roots \cup {dir}
    <2>1. CASE dir = NULL
      BY <1>1, <2>1 DEF Roots
    <2>2. CASE dir # NULL
      <3>1. dir \in Pages /\ dirs' = Append(dirs, dir)
        BY <1>1, <1>2, <2>2
      <3>. HIDE DEF dir
      <3>2. /\ DOMAIN dirs' = DOMAIN dirs \cup {Len(dirs) + 1}
            /\ \A k \in DOMAIN dirs : dirs'[k] = dirs[k]
            /\ dirs'[Len(dirs) + 1] = dir
        BY <1>3, <3>1
      <3>. QED  BY <2>2, <3>2 DEF Roots
    <2>. QED  BY <2>1, <2>2
  <1>6. CpuInv'
    <2>1. active' \in Roots' /\ active' = active /\ tlb' = tlb
      BY <1>1, <1>5 DEF CpuInv
    <2>. QED  BY <1>1, <1>4, <2>1 DEF CpuInv
  <1>7. ASSUME ClientInv PROVE ClientInv'
    <2>1. LowIsMapped /\ FramesArePages
      BY <1>1, <1>7 DEF ClientInv
    <2>2. LowIsMapped'
      BY <1>1, <1>4, <2>1 DEF LowIsMapped
    <2>3. FramesArePages'
      <3>1. ASSUME dir # NULL, NEW va \in Addresses PROVE ~Mapped(memory, dir, va)
        <4>1. va \in Nat /\ dir \in Pages /\ memory[dir] = Cleared
          BY <1>2, <3>1, VMMAssumption DEF VirtualPages
        <4>. QED  BY <1>3, <4>1, ClearedMapsNothing
      <3>. QED  BY <1>4, <1>5, <2>1, <3>1 DEF FramesArePages
    <2>4. status' = "fault" => NoLowPage(free)'
      <3>1. dir = NULL => NoLowPage(m.free)
        BY <1>2, <2>1, LowIsIdentity DEF Reason
      <3>. QED  BY <1>1, <1>4, <3>1 DEF NoLowPage
    <2>. QED  BY <1>1, <1>7, <2>2, <2>3, <2>4 DEF ClientInv
  <1>. QED  BY <1>6, <1>7

\* A translation has the types of an entry.
LEMMA TranslateType ==
  ASSUME NEW mem \in Memory, NEW dir \in Pages, NEW va \in Nat
  PROVE  Translate(mem, dir, va) \in Entry
  BY WalkedSteps, TablesTypes

LEMMA AccessKeepsCpu ==
  ASSUME VmmInv, CpuInv, NEW va \in Addresses, Access(va)
  PROVE  CpuInv' /\ (ClientInv => ClientInv')
  <1>1. /\ status = "running" /\ Mapped(memory, active, va)
        /\ tlb' = [a \in DOMAIN tlb \cup {va} |->
                     IF a = va /\ a \notin DOMAIN tlb THEN Translate(memory, active, va) ELSE tlb[a]]
        /\ UNCHANGED <<status, usable, memory, free, taken, dirs, active>>
    BY DEF Access
  <1>2. Roots' = Roots
    BY <1>1 DEF Roots
  <1>3. active \in Roots /\ DOMAIN tlb \subseteq Addresses
        /\ \A a \in DOMAIN tlb : tlb[a] = Translate(memory, active, a)
    BY <1>1 DEF CpuInv
  <1>4. DOMAIN tlb' \subseteq Addresses /\ \A a \in DOMAIN tlb' : tlb'[a] = Translate(memory, active, a)
    BY <1>1, <1>3
  <1>5. CpuInv'
    BY <1>1, <1>2, <1>4 DEF CpuInv
  <1>6. ASSUME ClientInv PROVE ClientInv'
    <2>1. LowIsMapped /\ FramesArePages
      BY <1>1, <1>6 DEF ClientInv
    <2>2. LowIsMapped' /\ FramesArePages'
      BY <1>1, <1>2, <2>1 DEF LowIsMapped, FramesArePages
    <2>3. Translate(memory, active, va) \in [frame : Pages, flags : SUBSET Flags]
      <3>1. memory \in Memory /\ active \in Pages /\ va \in Nat
        BY <1>3, RootsArePages, VMMAssumption DEF VmmInv, PagesTyped, VirtualPages
      <3>2. Translate(memory, active, va) \in Entry
        BY <3>1, TranslateType
      <3>3. Translate(memory, active, va).frame \in Pages
        BY <1>1, <1>3, <2>1 DEF FramesArePages
      <3>. QED  BY <3>2, <3>3 DEF Entry
    <2>4. \A a \in DOMAIN tlb' : tlb'[a] \in [frame : Pages, flags : SUBSET Flags]
      BY <1>1, <1>6, <2>3 DEF ClientInv
    <2>. QED  BY <1>1, <2>2, <2>4 DEF ClientInv
  <1>. QED  BY <1>5, <1>6

\* Nothing changes that these speak of.
LEMMA CpuStays ==
  ASSUME UNCHANGED <<status, memory, dirs, active, tlb>>,
         status = "fault" => UNCHANGED <<usable, free, taken>>
  PROVE  (CpuInv => CpuInv') /\ (ClientInv => ClientInv')
  <1>1. Roots' = Roots
    BY DEF Roots
  <1>2. CpuInv => CpuInv'
    BY <1>1 DEF CpuInv
  <1>3. LowIsMapped' = LowIsMapped /\ FramesArePages' = FramesArePages
    BY <1>1 DEF LowIsMapped, FramesArePages
  <1>4. status = "fault" => NoLowPage(free)' = NoLowPage(free)
    BY DEF NoLowPage
  <1>5. ClientInv => ClientInv'
    BY <1>3, <1>4 DEF ClientInv
  <1>. QED  BY <1>2, <1>5

LEMMA NextKeepsCpu ==
  ASSUME PagesComeCleared, MappedIsUnmapped, VmmInv, CpuInv, [Next]_vars
  PROVE  CpuInv' /\ (AddressesApart /\ ClientInv => ClientInv')
  <1>1. CASE vmm_init
    BY <1>1, BootKeepsCpu
  <1>2. CASE CreateDirectory
    BY <1>2, CreateKeepsCpu
  <1>3. CASE TakePage
    BY <1>3, CpuStays DEF TakePage
  <1>4. ASSUME NEW page \in taken, GivePage(page)
        PROVE  CpuInv' /\ (ClientInv => ClientInv')
    <2>1. /\ UNCHANGED <<status, usable, dirs, active, tlb>> /\ status # "fault"
          /\ memory' = [memory EXCEPT ![page] = Cleared]
      BY <1>4 DEF GivePage, PagesComeCleared
    <2>2. page \in Pages /\ memory \in Memory /\ memory[page] = Cleared
      BY DEF VmmInv, PagesTyped, Forest
    <2>3. memory' = memory
      BY <2>1, <2>2 DEF Memory
    <2>. QED  BY <2>1, <2>3, CpuStays
  <1>5. ASSUME NEW va \in Addresses, Access(va)
        PROVE  CpuInv' /\ (ClientInv => ClientInv')
    BY <1>5, AccessKeepsCpu
  <1>6. ASSUME NEW va \in Addresses, NEW k \in DOMAIN dirs, vmm_unmap_page(dirs[k], va)
        PROVE  CpuInv' /\ (AddressesApart /\ ClientInv => ClientInv')
    <2>1. PICK m, next : MappingStep(m, next, dirs[k], va, NotMapped)
      BY <1>6, UnmapPageIsMapping
    <2>2. status = "running" /\ dirs[k] \in Roots
      BY <1>6, UnmapPageIsMapping
    <2>3. NotMapped \in Entry /\ "present" \notin NotMapped.flags
      BY TablesTypes DEF NotMapped, Entry
    <2>4. CpuInv'
      BY <2>1, <2>2, MappingKeepsCpu
    <2>5. ASSUME AddressesApart, ClientInv PROVE ClientInv'
      BY <2>1, <2>2, <2>3, <2>5, MappingKeepsClient
    <2>. QED  BY <2>4, <2>5
  <1>7. ASSUME NEW va \in Addresses, NEW k \in DOMAIN dirs, NEW frame \in taken,
               NEW flags \in MapFlags, vmm_map_page(dirs[k], frame, va, flags)
        PROVE  CpuInv' /\ (AddressesApart /\ ClientInv => ClientInv')
    <2>. DEFINE entry == [frame |-> frame, flags |-> flags]
    <2>1. /\ status = "running" /\ dirs[k] \in Roots /\ entry \in Entry
          /\ \E m, next : MappingStep(m, next, dirs[k], va, entry)
      BY <1>7, MapPageIsMapping
    <2>2. entry.frame \in Pages
      BY DEF VmmInv, PagesTyped
    <2>. HIDE DEF entry
    <2>3. PICK m, next : MappingStep(m, next, dirs[k], va, entry)
      BY <2>1
    <2>4. CpuInv'
      BY <2>1, <2>3, MappingKeepsCpu
    <2>5. ASSUME AddressesApart, ClientInv PROVE ClientInv'
      BY <2>1, <2>2, <2>3, <2>5, MappingKeepsClient
    <2>. QED  BY <2>4, <2>5
  <1>8. CASE UNCHANGED vars
    BY <1>8, CpuStays DEF vars
  <1>. QED  BY <1>1, <1>2, <1>3, <1>4, <1>5, <1>6, <1>7, <1>8 DEF Next

LEMMA InitCpu ==
  ASSUME Init
  PROVE  CpuInv /\ ClientInv
  BY DEF Init, CpuInv, ClientInv, Roots

\* What the TLB holds is always what the active directory maps, and what that
\* maps is nothing but the areas of the kernel and pages of clients.
LEMMA CpuInvariance ==
  ASSUME PagesComeCleared, MappedIsUnmapped
  PROVE  Spec => [](VmmInv /\ CpuInv)
  <1>1. Init => VmmInv /\ CpuInv
    BY InitVmm, InitCpu
  <1>2. VmmInv /\ CpuInv /\ [Next]_vars => VmmInv' /\ CpuInv'
    BY NextKeepsInv, NextKeepsCpu
  <1>. QED  BY <1>1, <1>2, PTL DEF Spec

LEMMA ClientInvariance ==
  ASSUME PagesComeCleared, MappedIsUnmapped, AddressesApart
  PROVE  Spec => [](VmmInv /\ CpuInv /\ ClientInv)
  <1>1. Init => VmmInv /\ CpuInv /\ ClientInv
    BY InitVmm, InitCpu
  <1>2. VmmInv /\ CpuInv /\ ClientInv /\ [Next]_vars => VmmInv' /\ CpuInv' /\ ClientInv'
    BY NextKeepsInv, NextKeepsCpu
  <1>. QED  BY <1>1, <1>2, PTL DEF Spec

\* The CPU never uses a translation that the active directory has lost.
THEOREM TLBIsCoherent ==
  ASSUME PagesComeCleared, MappedIsUnmapped
  PROVE  Spec => []TLBCoherent
  <1>1. CpuInv => TLBCoherent
    BY DEF CpuInv, TLBCoherent
  <1>. QED  BY <1>1, CpuInvariance, PTL

\* On cleared memory a directory maps only what vmm.c was told to map.
THEOREM NothingElseIsMapped ==
  ASSUME PagesComeCleared, MappedIsUnmapped
  PROVE  Spec => []OnlyMappedPages
  <1>1. CpuInv => OnlyMappedPages
    BY DEF CpuInv, OnlyMappedPages, Areas
  <1>. QED  BY <1>1, CpuInvariance, PTL

\* Each variable keeps its type; the TLB holds translations to memory.
THEOREM TypeCorrect ==
  ASSUME PagesComeCleared, MappedIsUnmapped, AddressesApart
  PROVE  Spec => []TypeOK
  <1>1. ASSUME VmmInv, CpuInv, ClientInv PROVE TypeOK
    <2>1. active \in Pages \cup {NULL}
      BY <1>1, RootsArePages DEF VmmInv, CpuInv
    <2>2. DOMAIN tlb \subseteq VirtualPages
      BY <1>1, VMMAssumption DEF CpuInv
    <2>3. \A va \in DOMAIN tlb : tlb[va] \in [frame : Pages, flags : SUBSET Flags]
      BY <1>1 DEF ClientInv
    <2>. QED  BY <1>1, <2>1, <2>2, <2>3 DEF VmmInv, PagesTyped, DirsTyped, Memory, TypeOK
  <1>. QED  BY <1>1, ClientInvariance, PTL

\* An access of the kernel to its tables faults only when no page is left, or
\* when a page above the low ones has become a table.
THEOREM FaultsHaveAReason ==
  ASSUME PagesComeCleared, MappedIsUnmapped, AddressesApart
  PROVE  Spec => []FaultOnlyWithoutMemory
  <1>1. ClientInv => FaultOnlyWithoutMemory
    BY DEF ClientInv, NoLowPage, FaultOnlyWithoutMemory
  <1>. QED  BY <1>1, ClientInvariance, PTL
----------------------------------------------------------------------------
(* The directories implement AddressSpace.                                 *)

\* A mapping, the mappings of the directories in R, and those of page va in d.
MappingOf(mem, r, va) == [dir |-> r, va |-> va, target |-> Translate(mem, r, va)]
MapsIn(mem, R) ==
  UNION {{MappingOf(mem, r, va) : va \in {x \in Watched : Mapped(mem, r, x)}} : r \in R}
MapsAt(all, d, va) == {m \in all : m.dir = d /\ m.va = va}

LEMMA MapsAreIn ==
  Maps = MapsIn(memory, Roots)
  <1>1. \A r, va : /\ MappingOf(memory, r, va).target.flags = Translate(memory, r, va).flags
                   /\ MappingOf(memory, r, va) = [dir |-> r, va |-> va, target |-> Translate(memory, r, va)]
    BY DEF MappingOf
  <1>2. ASSUME NEW m \in Maps PROVE m \in MapsIn(memory, Roots)
    <2>1. PICK r \in Roots, va \in Watched : m = MappingOf(memory, r, va)
      BY <1>1 DEF Maps
    <2>2. "present" \in m.target.flags
      BY DEF Maps
    <2>3. Mapped(memory, r, va)
      BY <1>1, <2>1, <2>2 DEF Mapped
    <2>. QED  BY <2>1, <2>3 DEF MapsIn
  <1>3. ASSUME NEW m \in MapsIn(memory, Roots) PROVE m \in Maps
    <2>1. PICK r \in Roots, va \in Watched : m = MappingOf(memory, r, va) /\ Mapped(memory, r, va)
      BY DEF MapsIn
    <2>2. "present" \in m.target.flags
      BY <1>1, <2>1 DEF Mapped
    <2>. QED  BY <1>1, <2>1, <2>2 DEF Maps
  <1>. QED  BY <1>2, <1>3

LEMMA MapsAreInNext ==
  Maps' = MapsIn(memory', Roots')
  <1>1. (Maps = MapsIn(memory, Roots))'
    BY MapsAreIn, PTL
  <1>. QED  BY <1>1

LEMMA MapsMembers ==
  ASSUME NEW mem, NEW R, NEW m
  PROVE  m \in MapsIn(mem, R)
           <=> \E r \in R : \E va \in Watched : Mapped(mem, r, va) /\ m = MappingOf(mem, r, va)
  BY DEF MapsIn

LEMMA MappingFields ==
  \A mem, r, va : MappingOf(mem, r, va).dir = r /\ MappingOf(mem, r, va).va = va
  BY DEF MappingOf

\* Where the translations are the same, the mappings are.
LEMMA MapsSame ==
  ASSUME NEW mem, NEW new, NEW R,
         \A r \in R : \A va \in VirtualPages : Translate(new, r, va) = Translate(mem, r, va)
  PROVE  MapsIn(new, R) = MapsIn(mem, R)
  <1>1. Watched \subseteq VirtualPages
    BY VMMAssumption
  <1>2. \A r \in R : \A va \in Watched :
          /\ Mapped(new, r, va) <=> Mapped(mem, r, va)
          /\ MappingOf(new, r, va) = MappingOf(mem, r, va)
    BY <1>1 DEF Mapped, MappingOf
  <1>. QED  BY <1>2, MapsMembers

\* One more directory adds only mappings of its own.
LEMMA MapsOfMore ==
  ASSUME NEW mem, NEW R, NEW d, d \notin R
  PROVE  {m \in MapsIn(mem, R \cup {d}) : m.dir # d} = MapsIn(mem, R)
  <1>1. ASSUME NEW m \in MapsIn(mem, R \cup {d}), m.dir # d PROVE m \in MapsIn(mem, R)
    <2>1. PICK r \in R \cup {d} : \E va \in Watched : Mapped(mem, r, va) /\ m = MappingOf(mem, r, va)
      BY MapsMembers
    <2>2. r \in R
      BY <1>1, <2>1, MappingFields
    <2>. QED  BY <2>1, <2>2, MapsMembers
  <1>2. ASSUME NEW m \in MapsIn(mem, R) PROVE m \in MapsIn(mem, R \cup {d}) /\ m.dir # d
    <2>1. PICK r \in R : \E va \in Watched : Mapped(mem, r, va) /\ m = MappingOf(mem, r, va)
      BY MapsMembers
    <2>2. m.dir = r
      BY <2>1, MappingFields
    <2>. QED  BY <2>1, <2>2, MapsMembers
  <1>. QED  BY <1>1, <1>2

\* One page changes.
LEMMA MapsChange ==
  ASSUME NEW mem, NEW new, NEW R, NEW d \in R, NEW y, ViewsBut(mem, new, R, d, y)
  PROVE  /\ MapsIn(mem, R) \ MapsAt(MapsIn(mem, R), d, y)
              = MapsIn(new, R) \ MapsAt(MapsIn(new, R), d, y)
         /\ MapsAt(MapsIn(new, R), d, y)
              = IF y \in Watched /\ Mapped(new, d, y) THEN {MappingOf(new, d, y)} ELSE {}
  <1>1. Watched \subseteq VirtualPages
    BY VMMAssumption
  <1>2. \A r \in R : \A va \in Watched : r # d \/ va # y =>
          /\ Mapped(new, r, va) <=> Mapped(mem, r, va)
          /\ MappingOf(new, r, va) = MappingOf(mem, r, va)
    BY <1>1 DEF Mapped, MappingOf, ViewsBut
  <1>3. ASSUME NEW some, NEW m
        PROVE  m \in MapsIn(some, R) \ MapsAt(MapsIn(some, R), d, y)
                 <=> \E r \in R : \E va \in Watched :
                       (r # d \/ va # y) /\ Mapped(some, r, va) /\ m = MappingOf(some, r, va)
    BY MapsMembers, MappingFields DEF MapsAt
  <1>4. MapsIn(mem, R) \ MapsAt(MapsIn(mem, R), d, y)
          = MapsIn(new, R) \ MapsAt(MapsIn(new, R), d, y)
    <2>1. \A m : m \in MapsIn(mem, R) \ MapsAt(MapsIn(mem, R), d, y)
                   <=> m \in MapsIn(new, R) \ MapsAt(MapsIn(new, R), d, y)
      BY <1>2, <1>3
    <2>. QED  BY <2>1
  <1>5. ASSUME NEW m
        PROVE  m \in MapsAt(MapsIn(new, R), d, y)
                 <=> y \in Watched /\ Mapped(new, d, y) /\ m = MappingOf(new, d, y)
    BY MapsMembers, MappingFields DEF MapsAt
  <1>. QED  BY <1>4, <1>5

aVars == <<Roots, Maps>>

LEMMA InitImplements ==
  ASSUME Init
  PROVE  Abstract!Init
  <1>1. Roots = {} /\ Maps = {}
    BY DEF Init, Roots, Maps
  <1>. QED  BY <1>1 DEF Abstract!Init

LEMMA AbstractStep ==
  /\ Abstract!Create(Maps, Maps') => Abstract!Next
  /\ \A d \in Roots, va \in Addresses :
       /\ Abstract!Unmap(Maps, Maps', d, va) => Abstract!Next
       /\ \A frame \in Pages, flags \in MapFlags :
            Abstract!Map(Maps, Maps', d, va, frame, flags) => Abstract!Next
  BY DEF Abstract!Next

\* A directory is added to those there are.
LEMMA CreateImplements ==
  ASSUME NEW d, d \notin Roots, Roots' = Roots \cup {d},
         MapsIn(memory', Roots) = MapsIn(memory, Roots)
  PROVE  Abstract!Next
  <1>1. Maps = MapsIn(memory, Roots) /\ Maps' = MapsIn(memory', Roots')
    BY MapsAreIn, MapsAreInNext
  <1>2. {m \in Maps' : m.dir # d} = Maps
    BY <1>1, MapsOfMore
  <1>3. Abstract!Create(Maps, Maps')
    BY <1>2 DEF Abstract!Create
  <1>. QED  BY <1>3, AbstractStep

\* One directory changes at one page.
LEMMA ChangeImplements ==
  ASSUME NEW dir \in Roots, NEW va \in Addresses, Roots' = Roots,
         ViewsBut(memory, memory', Roots, dir, va)
  PROVE  /\ Abstract!Change(Maps, Maps', dir, va)
         /\ ~Mapped(memory', dir, va) => Abstract!Unmap(Maps, Maps', dir, va)
         /\ Mapped(memory', dir, va) =>
              \A frame, flags :
                /\ Translate(memory', dir, va).frame = frame
                /\ Translate(memory', dir, va).flags \subseteq flags
                => Abstract!Map(Maps, Maps', dir, va, frame, flags)
  <1>. DEFINE before == MapsIn(memory, Roots)
              after  == MapsIn(memory', Roots)
              target == Translate(memory', dir, va)
              m      == MappingOf(memory', dir, va)
  <1>1. Maps = before /\ Maps' = after
    BY MapsAreIn, MapsAreInNext
  <1>2. /\ before \ MapsAt(before, dir, va) = after \ MapsAt(after, dir, va)
        /\ MapsAt(after, dir, va) = IF Mapped(memory', dir, va) THEN {m} ELSE {}
    <2>1. va \in Watched
      BY VMMAssumption
    <2>. QED  BY <2>1, MapsChange
  <1>3. m.target = target /\ (Mapped(memory', dir, va) => "present" \in target.flags)
    BY DEF MappingOf, Mapped
  <1>4. \A all, d, x : Abstract!At(all, d, x) = MapsAt(all, d, x)
    BY DEF Abstract!At, MapsAt
  <1>. HIDE DEF before, after, target, m
  <1>5. Abstract!Change(before, after, dir, va)
    BY <1>2, <1>4 DEF Abstract!Change
  <1>6. ASSUME ~Mapped(memory', dir, va)
        PROVE  Abstract!Unmap(before, after, dir, va)
    BY <1>2, <1>4, <1>5, <1>6 DEF Abstract!Unmap
  <1>7. ASSUME Mapped(memory', dir, va), NEW frame, NEW flags,
               target.frame = frame, target.flags \subseteq flags
        PROVE  Abstract!Map(before, after, dir, va, frame, flags)
    BY <1>2, <1>3, <1>4, <1>5, <1>7 DEF Abstract!Map, Abstract!MapsTo
  <1>. QED  BY <1>1, <1>5, <1>6, <1>7 DEF target

\* What a call was told to enter is what the directory maps when it returns.
LEMMA MappingTold ==
  ASSUME NEW m, NEW next, NEW dir \in Roots, NEW va \in Addresses, NEW entry \in Entry,
         MappingStep(m, next, dir, va, entry), next.table # NULL
  PROVE  /\ "present" \notin entry.flags => Abstract!Unmap(Maps, Maps', dir, va)
         /\ "present" \in entry.flags =>
              Abstract!Map(Maps, Maps', dir, va, entry.frame, entry.flags)
  <1>1. /\ Roots' = Roots /\ memory' = next.memory /\ m.memory = memory
        /\ Mapping(m, next, Roots, dir, va, entry)
    BY StepOfMapping DEF MappingStep
  <1>2. ViewsBut(memory, memory', Roots, dir, va)
    BY <1>1 DEF Mapping
  <1>3. PICK allowed \in SUBSET Flags :
          /\ "present" \in allowed
          /\ Translate(memory', dir, va)
               = [frame |-> entry.frame, flags |-> entry.flags \cap allowed]
    BY <1>1 DEF Mapping
  <1>4. /\ Translate(memory', dir, va).frame = entry.frame
        /\ Translate(memory', dir, va).flags \subseteq entry.flags
        /\ Mapped(memory', dir, va) <=> "present" \in entry.flags
    BY <1>3 DEF Mapped
  <1>. QED  BY <1>1, <1>2, <1>4, ChangeImplements

LEMMA MappingImplements ==
  ASSUME NEW m, NEW next, NEW dir \in Roots, NEW va \in Addresses, NEW entry \in Entry,
         "present" \in entry.flags => entry.frame \in Pages /\ entry.flags \in MapFlags,
         MappingStep(m, next, dir, va, entry)
  PROVE  [Abstract!Next]_aVars
  <1>1. /\ Roots' = Roots /\ memory' = next.memory /\ m.memory = memory
        /\ Mapping(m, next, Roots, dir, va, entry)
    BY StepOfMapping DEF MappingStep
  <1>2. CASE next.table = NULL
    <2>1. Translate(memory', dir, va) = Translate(memory, dir, va)
      BY <1>1, <1>2 DEF Mapping
    <2>2. \A r \in Roots : \A x \in VirtualPages : Translate(memory', r, x) = Translate(memory, r, x)
      BY <1>1, <2>1 DEF Mapping, ViewsBut
    <2>3. MapsIn(memory', Roots) = MapsIn(memory, Roots)
      BY <2>2, MapsSame
    <2>4. Maps' = Maps
      BY <1>1, <2>3, MapsAreIn, MapsAreInNext
    <2>. QED  BY <1>1, <2>4 DEF aVars
  <1>3. CASE next.table # NULL
    <2>1. CASE "present" \in entry.flags
      <3>1. Abstract!Map(Maps, Maps', dir, va, entry.frame, entry.flags)
        BY <1>3, <2>1, MappingTold
      <3>. QED  BY <2>1, <3>1, AbstractStep
    <2>2. CASE "present" \notin entry.flags
      <3>1. Abstract!Unmap(Maps, Maps', dir, va)
        BY <1>3, <2>2, MappingTold
      <3>. QED  BY <3>1, AbstractStep
    <2>. QED  BY <2>1, <2>2
  <1>. QED  BY <1>2, <1>3

\* The steps of the two functions, as AsTold has them.
LEMMA UnmapPageTold ==
  ASSUME MappedIsUnmapped, VmmInv, CpuInv, NEW k \in DOMAIN dirs, NEW va \in Addresses,
         vmm_unmap_page(dirs[k], va), status' = "running"
  PROVE  Abstract!Unmap(Maps, Maps', dirs[k], va)
  <1>1. PICK m, next : MappingStep(m, next, dirs[k], va, NotMapped)
    BY UnmapPageIsMapping
  <1>2. dirs[k] \in Roots
    BY UnmapPageIsMapping
  <1>3. NotMapped \in Entry /\ "present" \notin NotMapped.flags
    BY TablesTypes DEF NotMapped, Entry
  <1>4. next.table # NULL
    BY <1>1, StepOfMapping
  <1>. QED  BY <1>1, <1>2, <1>3, <1>4, MappingTold

LEMMA MapPageTold ==
  ASSUME VmmInv, CpuInv, NEW k \in DOMAIN dirs, NEW va \in Addresses, NEW frame \in taken,
         NEW flags \in MapFlags, vmm_map_page(dirs[k], frame, va, flags), status' = "running"
  PROVE  Abstract!Map(Maps, Maps', dirs[k], va, frame, flags)
  <1>. DEFINE entry == [frame |-> frame, flags |-> flags]
  <1>1. /\ dirs[k] \in Roots /\ entry \in Entry
        /\ \E m, next : MappingStep(m, next, dirs[k], va, entry)
    BY MapPageIsMapping
  <1>2. entry.frame = frame /\ entry.flags = flags /\ "present" \in flags
    BY VMMAssumption
  <1>. HIDE DEF entry
  <1>3. PICK m, next : MappingStep(m, next, dirs[k], va, entry)
    BY <1>1
  <1>4. next.table # NULL
    BY <1>3, StepOfMapping
  <1>5. Abstract!Map(Maps, Maps', dirs[k], va, entry.frame, entry.flags)
    BY <1>1, <1>2, <1>3, <1>4, MappingTold
  <1>. QED  BY <1>2, <1>5

LEMMA CallsAreTold ==
  ASSUME MappedIsUnmapped, VmmInv, CpuInv
  PROVE  AsTold
  BY UnmapPageTold, MapPageTold DEF AsTold

LEMMA BootImplements ==
  ASSUME VmmInv, vmm_init
  PROVE  [Abstract!Next]_aVars
  <1>. DEFINE dir == vmm_create_page_directory.table
  <1>1. status = "boot" /\ dirs' = IF dir = NULL THEN <<>> ELSE <<dir>>
    BY DEF vmm_init
  <1>. HIDE DEF dir
  <1>2. Roots = {} /\ \A mem : MapsIn(mem, {}) = {}
    BY <1>1 DEF VmmInv, DirsTyped, Roots, MapsIn
  <1>3. CASE dir = NULL
    <2>1. Roots' = {}
      BY <1>1, <1>3 DEF Roots
    <2>2. Maps = {} /\ Maps' = {}
      BY <1>2, <2>1, MapsAreIn, MapsAreInNext
    <2>. QED  BY <1>2, <2>1, <2>2 DEF aVars
  <1>4. CASE dir # NULL
    <2>1. Roots' = Roots \cup {dir} /\ dir \notin Roots
      BY <1>1, <1>2, <1>4 DEF Roots
    <2>2. MapsIn(memory', Roots) = MapsIn(memory, Roots)
      BY <1>2
    <2>. QED  BY <2>1, <2>2, CreateImplements
  <1>. QED  BY <1>3, <1>4

LEMMA DirectoryImplements ==
  ASSUME VmmInv, CreateDirectory
  PROVE  [Abstract!Next]_aVars
  <1>. DEFINE m == vmm_create_page_directory
              dir == m.table
  <1>1. /\ status = "running" /\ Become(m)
        /\ dirs' = IF dir = NULL THEN dirs ELSE Append(dirs, dir)
    BY DEF CreateDirectory
  <1>2. m.memory = memory /\ (dir # NULL => dir \in Pages /\ dir \notin Roots)
    BY <1>1, DirectoryMade
  <1>. HIDE DEF m
  <1>3. memory' = memory /\ dirs \in Seq(Pages)
    BY <1>1, <1>2 DEF Become, VmmInv, DirsTyped
  <1>4. CASE dir = NULL
    <2>1. Roots' = Roots
      BY <1>1, <1>4 DEF Roots
    <2>2. Maps' = Maps
      BY <1>3, <2>1, MapsAreIn, MapsAreInNext
    <2>. QED  BY <2>1, <2>2 DEF aVars
  <1>5. CASE dir # NULL
    <2>1. dir \in Pages /\ dir \notin Roots /\ dirs' = Append(dirs, dir)
      BY <1>1, <1>2, <1>5
    <2>. HIDE DEF dir
    <2>2. /\ DOMAIN dirs' = DOMAIN dirs \cup {Len(dirs) + 1}
          /\ \A k \in DOMAIN dirs : dirs'[k] = dirs[k]
          /\ dirs'[Len(dirs) + 1] = dir
      BY <1>3, <2>1
    <2>3. Roots' = Roots \cup {dir}
      BY <2>2 DEF Roots
    <2>4. Abstract!Next
      BY <1>3, <2>1, <2>3, CreateImplements
    <2>. QED  BY <2>4
  <1>. QED  BY <1>4, <1>5

LEMMA NextImplements ==
  ASSUME PagesComeCleared, MappedIsUnmapped, VmmInv, CpuInv, [Next]_vars
  PROVE  [Abstract!Next]_aVars
  <1>0. ASSUME UNCHANGED <<memory, dirs>> PROVE [Abstract!Next]_aVars
    <2>1. Roots' = Roots
      BY <1>0 DEF Roots
    <2>2. Maps' = Maps
      BY <1>0, <2>1, MapsAreIn, MapsAreInNext
    <2>. QED  BY <2>1, <2>2 DEF aVars
  <1>1. CASE vmm_init
    BY <1>1, BootImplements
  <1>2. CASE CreateDirectory
    BY <1>2, DirectoryImplements
  <1>3. CASE TakePage
    BY <1>0, <1>3 DEF TakePage
  <1>4. ASSUME NEW page \in taken, GivePage(page) PROVE [Abstract!Next]_aVars
    <2>1. UNCHANGED dirs /\ memory' = [memory EXCEPT ![page] = Cleared]
      BY <1>4 DEF GivePage, PagesComeCleared
    <2>2. page \in Pages /\ memory \in Memory /\ memory[page] = Cleared
      BY DEF VmmInv, PagesTyped, Forest
    <2>3. memory' = memory
      BY <2>1, <2>2 DEF Memory
    <2>. QED  BY <1>0, <2>1, <2>3
  <1>5. ASSUME NEW va \in Addresses, Access(va) PROVE [Abstract!Next]_aVars
    BY <1>0, <1>5 DEF Access
  <1>6. ASSUME NEW va \in Addresses, NEW k \in DOMAIN dirs, vmm_unmap_page(dirs[k], va)
        PROVE  [Abstract!Next]_aVars
    <2>1. PICK m, next : MappingStep(m, next, dirs[k], va, NotMapped)
      BY <1>6, UnmapPageIsMapping
    <2>2. dirs[k] \in Roots
      BY <1>6, UnmapPageIsMapping
    <2>3. NotMapped \in Entry /\ "present" \notin NotMapped.flags
      BY TablesTypes DEF NotMapped, Entry
    <2>. QED  BY <2>1, <2>2, <2>3, MappingImplements
  <1>7. ASSUME NEW va \in Addresses, NEW k \in DOMAIN dirs, NEW frame \in taken,
               NEW flags \in MapFlags, vmm_map_page(dirs[k], frame, va, flags)
        PROVE  [Abstract!Next]_aVars
    <2>. DEFINE entry == [frame |-> frame, flags |-> flags]
    <2>1. /\ dirs[k] \in Roots /\ entry \in Entry
          /\ \E m, next : MappingStep(m, next, dirs[k], va, entry)
      BY <1>7, MapPageIsMapping
    <2>2. entry.frame \in Pages /\ entry.flags \in MapFlags
      BY DEF VmmInv, PagesTyped
    <2>. HIDE DEF entry
    <2>3. PICK m, next : MappingStep(m, next, dirs[k], va, entry)
      BY <2>1
    <2>. QED  BY <2>1, <2>2, <2>3, MappingImplements
  <1>8. CASE UNCHANGED vars
    BY <1>0, <1>8 DEF vars
  <1>. QED  BY <1>1, <1>2, <1>3, <1>4, <1>5, <1>6, <1>7, <1>8 DEF Next

\* A directory maps what vmm_map_page and vmm_unmap_page were told - the page
\* to the frame, with flags among those it was called with, or not at all -
\* and no other page changes, in any directory.
THEOREM VmmImplementsAddressSpace ==
  ASSUME PagesComeCleared, MappedIsUnmapped
  PROVE  Spec => ImplementsAddressSpace
  <1>1. Init => Abstract!Init
    BY InitImplements
  <1>2. VmmInv /\ CpuInv /\ [Next]_vars => [Abstract!Next]_aVars
    BY NextImplements
  <1>3. VmmInv /\ CpuInv => AsTold
    BY CallsAreTold
  <1>4. Spec => [](VmmInv /\ CpuInv)
    BY CpuInvariance
  <1>. QED  BY <1>1, <1>2, <1>3, <1>4, PTL
            DEF Spec, ImplementsAddressSpace, Abstract!Spec, aVars
=============================================================================
