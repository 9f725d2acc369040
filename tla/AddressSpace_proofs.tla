------------------------- MODULE AddressSpace_proofs -------------------------
(***************************************************************************)
(* Proofs about address spaces, for every number of tasks, frames, page    *)
(* map entries and pages.  The invariant says, of the page maps R that are *)
(* in use or were left behind:                                             *)
(*   Sound      every frame behind them is marked as allocated, is either  *)
(*              a page map, in one place, or a page, and every marked      *)
(*              frame is one of these,                                     *)
(*   Separate   page maps that reach the same page are of the same task,   *)
(*   Program    the image of a program is read-only and behind the pages   *)
(*              of the load segments; a page of the program is writable    *)
(*              and private or shared with the image; data is its own,     *)
(*   Owned, At  which page maps a task has, at which place.                *)
(* It holds as long as no frame in use was overwritten (Intact): neither   *)
(* by a store into the kernel half nor by two tasks that Allocate gave the *)
(* same frame.  Each paging function is shown to keep Spaces, the first    *)
(* three, of any memory; each step then is a use of these lemmas.          *)
(***************************************************************************)
EXTENDS AddressSpace, WellFoundedInduction, TLAPS

EntryType == {NotPresent} \cup [frame : Frame, writable : BOOLEAN]
MapType == [Index -> EntryType]
Memory == [used : SUBSET Frame, map : [Frame \cup {KernelMap} -> MapType],
           data : [Frame -> {Zero, Image, Kernel} \cup Task]]

(* Entries of the user half of the page map r, entries of the tables behind *)
(* them, and the frames these give as tables and as pages.                 *)
Has(m, r, i) == i \in UserIndex /\ m.map[r][i] # NotPresent
Leaf(m, r, i, j) == m.map[m.map[r][i].frame][j]
HasLeaf(m, r, i, j) == Has(m, r, i) /\ j \in Index /\ Leaf(m, r, i, j) # NotPresent
TableOf(m, r, f) == \E i \in UserIndex : Has(m, r, i) /\ m.map[r][i].frame = f
Reaches(m, r, f) ==
  \E i \in UserIndex, j \in Index : HasLeaf(m, r, i, j) /\ Leaf(m, r, i, j).frame = f

(* c, b and l stand for cr3, temp and lost.                                *)
RootsIn(c, b, t) == {c[t], b[t]} \ {KernelMap}
RootSet(c, b, l) == l \cup UNION {RootsIn(c, b, t) : t \in Task}

(* A page of the load segments.                                            *)
ElfAt(i, j) == \E p \in ElfPage..(DPagingBegin - 1) : Upper(p) = i /\ Lower(p) = j

(* A table is marked, no root, and behind one entry only.                  *)
TablesOK(m, R) ==
  /\ \A r \in R, i \in UserIndex : Has(m, r, i) =>
       m.map[r][i].writable /\ m.map[r][i].frame \in m.used \ R
  /\ \A r, q \in R, i, k \in UserIndex :
       Has(m, r, i) /\ Has(m, q, k) /\ m.map[r][i].frame = m.map[q][k].frame => r = q /\ i = k

(* A page is marked and no page map.                                       *)
LeavesOK(m, R) ==
  \A r \in R, i \in UserIndex, j \in Index : HasLeaf(m, r, i, j) =>
    /\ Leaf(m, r, i, j).frame \in m.used \ R
    /\ \A q \in R : ~ TableOf(m, q, Leaf(m, r, i, j).frame)

(* What is marked is a page map or a page.                                 *)
Covered(m, R) ==
  \A f \in m.used : f \in R \/ \E r \in R : TableOf(m, r, f) \/ Reaches(m, r, f)

Sound(m, R) ==
  m \in Memory /\ R \subseteq m.used /\ TablesOK(m, R) /\ LeavesOK(m, R) /\ Covered(m, R)

(* Page maps with a common page belong to the same task.                   *)
Separate(m, R, c, b) ==
  \A r, q \in R, f \in Frame : Reaches(m, r, f) /\ Reaches(m, q, f) =>
    \A t \in Task : r \in RootsIn(c, b, t) <=> q \in RootsIn(c, b, t)

(* The image is read-only; a page of the program is writable and private or *)
(* one of the image; what is in the pages is zeros, the image or from t.   *)
Program(m, c, b, t) ==
  /\ b[t] # KernelMap => \A i \in UserIndex, j \in Index : HasLeaf(m, b[t], i, j) =>
       ~ Leaf(m, b[t], i, j).writable /\ ElfAt(i, j)
  /\ c[t] # KernelMap => \A i \in UserIndex, j \in Index : HasLeaf(m, c[t], i, j) =>
       IF Leaf(m, c[t], i, j).writable
       THEN c[t] # b[t] /\ ~ Reaches(m, b[t], Leaf(m, c[t], i, j).frame)
       ELSE ElfAt(i, j) /\ Reaches(m, b[t], Leaf(m, c[t], i, j).frame)
  /\ \A r \in RootsIn(c, b, t), f \in Frame :
       Reaches(m, r, f) => m.data[f] \in {Zero, Image, t}

(* Every page map has one owner, or none.                                  *)
Owned(c, b, l) ==
  /\ c \in [Task -> Frame \cup {KernelMap}] /\ b \in [Task -> Frame \cup {KernelMap}]
  /\ l \subseteq Frame /\ \A t \in Task : c[t] # KernelMap => b[t] # KernelMap
  /\ \A t, u \in Task : t # u => RootsIn(c, b, t) \cap RootsIn(c, b, u) = {}
  /\ \A t \in Task : RootsIn(c, b, t) \cap l = {}

Spaces(m, c, b, l) ==
  /\ Sound(m, RootSet(c, b, l)) /\ Separate(m, RootSet(c, b, l), c, b)
  /\ \A t \in Task : Program(m, c, b, t)

(* The page maps of t at each place.                                       *)
At(t) ==
  /\ pc[t] \in {"new", "done"} => cr3[t] = KernelMap /\ temp[t] = KernelMap
  /\ pc[t] \in {"load", "pml4"} => cr3[t] # KernelMap /\ temp[t] = cr3[t]
  /\ pc[t] \notin {"new", "done", "load", "pml4"} =>
       cr3[t] # KernelMap /\ temp[t] # KernelMap /\ cr3[t] # temp[t]
  /\ pc[t] = "free" => \A i \in UserIndex : ~ Has(mem, cr3[t], i)

PcType == pc \in [Task -> {"new", "load", "pml4", "copy", "args", "stack", "user", "again",
                           "clean", "free", "done", "halt"}]

FoundType == found \in [Task -> Frame \cup {NoFrame}]

IInv == /\ PcType /\ FoundType /\ Owned(cr3, temp, lost) /\ Spaces(mem, cr3, temp, lost)
        /\ \A t \in Task : At(t)

-----------------------------------------------------------------------------
(* A non-empty set of naturals has a least element.                        *)
LEMMA LeastNatural ==
  ASSUME NEW T \in SUBSET Nat, T # {}
  PROVE  \E x \in T : \A y \in T : x <= y
<1> DEFINE R == OpToRel(<, Nat)
<1>1. IsWellFoundedOn(R, Nat)
  BY NatLessThanWellFounded
<1>2. PICK x \in T : \A y \in T : ~ (<<y, x>> \in R)
  BY <1>1, WFMin
<1>3. \A m, n \in Nat : m < n => <<m, n>> \in R
  BY DEF OpToRel
<1> HIDE DEF R
<1>4. \A y \in T : ~ (y < x)
  BY <1>2, <1>3
<1>5. \A y \in T : y \in Nat /\ x \in Nat
  OBVIOUS
<1>6. \A y \in T : x <= y
  BY <1>4, <1>5
<1>. QED BY <1>6

-----------------------------------------------------------------------------
(* Pages and entries.                                                      *)
LEMMA Sizes ==
  \E h \in Nat : \E s \in Nat :
    /\ h >= 1 /\ s = h * h /\ Entries = 2 * h /\ Entries \div 2 = h
    /\ Entries * Entries = 4 * s /\ (Entries * Entries) \div 2 = 2 * s /\ ElfPage = 2 * s
<1>1. Entries \in Nat /\ Entries % 2 = 0 /\ ElfPages \in Nat /\ MaxDemand \in Nat /\ StackPages \in Nat
  BY AddressSpaceAssumption
<1>2. PICK h : h = Entries \div 2
  OBVIOUS
<1>3. h \in Nat /\ Entries = 2 * h
  BY <1>1, <1>2
<1>4. PICK s : s = h * h
  OBVIOUS
<1>5. s \in Nat
  BY <1>3, <1>4
<1>6. Entries * Entries = 4 * s
  BY <1>3, <1>4, <1>5
<1>7. (4 * s) \div 2 = 2 * s
  BY <1>5
<1>8. ElfPage = 2 * s
  BY <1>2, <1>3, <1>4 DEF ElfPage
<1>9. h >= 1
  <2>1. SUFFICES ASSUME h = 0 PROVE FALSE
    BY <1>3
  <2>2. s = 0
    BY <1>4, <2>1
  <2>3. ElfPages + MaxDemand + StackPages + 1 <= 0
    BY <1>6, <1>7, <2>2, AddressSpaceAssumption
  <2>. QED BY <1>1, <2>3
<1>. QED BY <1>2, <1>3, <1>4, <1>5, <1>6, <1>7, <1>8, <1>9

LEMMA Halves ==
  /\ Entries \in Nat /\ Entries >= 2 /\ Entries \div 2 \in Nat
  /\ Entries = (Entries \div 2) + (Entries \div 2)
  /\ UserIndex \subseteq Index /\ Index \subseteq Nat
  /\ \A k \in Nat : k < Entries \div 2 => Entries \div 2 + k \in UserIndex
  /\ \A i \in UserIndex : i - Entries \div 2 \in Nat /\ i - Entries \div 2 < Entries \div 2
<1>1. PICK h \in Nat : h >= 1 /\ Entries = 2 * h /\ Entries \div 2 = h
  BY Sizes
<1>. QED BY <1>1 DEF UserIndex, Index

LEMMA PageAt ==
  ASSUME NEW p \in UserPage
  PROVE  Upper(p) \in UserIndex /\ Lower(p) \in Index
<1>1. PICK h \in Nat : \E s \in Nat :
        /\ h >= 1 /\ s = h * h /\ Entries = 2 * h /\ Entries \div 2 = h
        /\ Entries * Entries = 4 * s /\ ElfPage = 2 * s
  BY Sizes
<1>2. p \in Nat /\ ElfPage <= p /\ p <= Entries * Entries - 1
  BY <1>1 DEF UserPage, ArgsPage
<1>3. PICK u : u = Upper(p)
  OBVIOUS
<1>4. PICK l : l = Lower(p)
  OBVIOUS
<1>5. u \in Nat /\ l \in 0..(Entries - 1) /\ p = Entries * u + l
  BY <1>1, <1>2, <1>3, <1>4 DEF Upper, Lower
<1>6. u < Entries
  <2>1. SUFFICES ASSUME u >= Entries PROVE FALSE
    BY <1>1, <1>5
  <2>2. Entries * u >= Entries * Entries
    BY <1>1, <1>5, <2>1
  <2>. QED BY <1>1, <1>2, <1>5, <2>2
<1>7. u >= h
  <2>1. SUFFICES ASSUME u <= h - 1 PROVE FALSE
    BY <1>1, <1>5
  <2>2. Entries * u <= Entries * (h - 1)
    BY <1>1, <1>5, <2>1
  <2>3. Entries * (h - 1) = ElfPage - Entries
    BY <1>1
  <2>. QED BY <1>1, <1>2, <1>5, <2>2, <2>3
<1>. QED BY <1>1, <1>3, <1>4, <1>5, <1>6, <1>7 DEF UserIndex, Index

LEMMA PageUnique ==
  ASSUME NEW p \in UserPage, NEW q \in UserPage, Upper(p) = Upper(q), Lower(p) = Lower(q)
  PROVE  p = q
<1>1. Entries \in Nat /\ Entries >= 2
  BY Halves
<1>2. ElfPage \in Nat
  BY Sizes
<1>3. p \in Nat /\ q \in Nat
  BY <1>2 DEF UserPage
<1>4. \A x \in Nat : x = Entries * Upper(x) + Lower(x)
  BY <1>1 DEF Upper, Lower
<1>. QED BY <1>3, <1>4

(* Where a program is, in the user half: its image, what it may ask for,   *)
(* the stack, the arguments.                                               *)
LEMMA Layout ==
  /\ ElfPage \in Nat /\ DPagingBegin \in Nat /\ StackPage \in Nat /\ ArgsPage \in Nat
  /\ DPagingBegin = ElfPage + ElfPages /\ DPagingBegin + MaxDemand <= StackPage
  /\ StackPage + StackPages = ArgsPage
  /\ {ElfPages, StackPages, MaxDemand} \subseteq Nat
<1>1. PICK s \in Nat : /\ Entries * Entries = 4 * s /\ (Entries * Entries) \div 2 = 2 * s
                       /\ ElfPage = 2 * s
  BY Sizes
<1>2. {ElfPages, StackPages, MaxDemand} \subseteq Nat /\ ElfPages + MaxDemand + StackPages + 1 <= 2 * s
  BY <1>1, AddressSpaceAssumption
<1>. QED BY <1>1, <1>2 DEF DPagingBegin, StackPage, ArgsPage

LEMMA NotElf ==
  ASSUME NEW p \in UserPage, p >= DPagingBegin
  PROVE  ~ ElfAt(Upper(p), Lower(p))
<1>1. SUFFICES ASSUME NEW q \in ElfPage..(DPagingBegin - 1), Upper(q) = Upper(p), Lower(q) = Lower(p)
               PROVE FALSE
  BY DEF ElfAt
<1>2. q \in UserPage /\ q < DPagingBegin /\ DPagingBegin \in Nat
  BY Layout DEF UserPage
<1>3. q = p
  BY <1>1, <1>2, PageUnique
<1>. QED BY <1>2, <1>3, Layout DEF UserPage

-----------------------------------------------------------------------------
(* Entries and frames.                                                     *)
LEMMA EntryIs ==
  /\ \A e \in EntryType : e # NotPresent => e.frame \in Frame /\ e.writable \in BOOLEAN
  /\ \A f \in Frame, w \in BOOLEAN :
       /\ Entry(f, w) \in EntryType /\ Entry(f, w) # NotPresent
       /\ Entry(f, w).frame = f /\ Entry(f, w).writable = w
  /\ NotPresent \in EntryType /\ EmptyMap \in MapType
  /\ \A i \in Index : EmptyMap[i] = NotPresent
  /\ NotPresent.writable = FALSE
  /\ KernelMap \notin Frame
<1>1. 0 \notin Frame
  BY AddressSpaceAssumption DEF Frame
<1>. QED BY <1>1 DEF EntryType, MapType, Entry, NotPresent, EmptyMap, KernelMap

LEMMA NewFrameIs ==
  ASSUME NEW m \in Memory, FreeFrames(m) # {}
  PROVE  NewFrame(m) \in Frame \ m.used
<1>1. FreeFrames(m) \in SUBSET Nat
  BY AddressSpaceAssumption DEF FreeFrames, Frame
<1>2. PICK f \in FreeFrames(m) : \A g \in FreeFrames(m) : f <= g
  BY <1>1, LeastNatural
<1>3. NewFrame(m) \in FreeFrames(m)
  BY <1>2 DEF NewFrame
<1>. QED BY <1>3 DEF FreeFrames

LEMMA NewPageMapIs ==
  ASSUME NEW m \in Memory, NEW f \in Frame, f \notin m.used
  PROVE  /\ NewPageMap(m, f) \in Memory
         /\ NewPageMap(m, f).used = m.used \cup {f}
         /\ NewPageMap(m, f).map = [m.map EXCEPT ![f] = EmptyMap]
         /\ NewPageMap(m, f).data = [m.data EXCEPT ![f] = Zero]
<1>1. NewPageMap(m, f) = [m EXCEPT !.used = @ \cup {f}, !.map[f] = EmptyMap, !.data[f] = Zero]
  BY DEF NewPageMap
<1>2. EmptyMap \in MapType
  BY EntryIs
<1>3. /\ m = [used |-> m.used, map |-> m.map, data |-> m.data]
      /\ m.used \in SUBSET Frame /\ m.map \in [Frame \cup {KernelMap} -> MapType]
      /\ m.data \in [Frame -> {Zero, Image, Kernel} \cup Task]
  BY DEF Memory
<1>4. NewPageMap(m, f) = [used |-> m.used \cup {f}, map |-> [m.map EXCEPT ![f] = EmptyMap],
                          data |-> [m.data EXCEPT ![f] = Zero]]
  BY <1>1, <1>3
<1>5. /\ m.used \cup {f} \in SUBSET Frame
      /\ [m.map EXCEPT ![f] = EmptyMap] \in [Frame \cup {KernelMap} -> MapType]
      /\ [m.data EXCEPT ![f] = Zero] \in [Frame -> {Zero, Image, Kernel} \cup Task]
  BY <1>2, <1>3
<1>6. NewPageMap(m, f) \in Memory
  BY <1>4, <1>5 DEF Memory
<1>. QED BY <1>4, <1>6

LEMMA RootsAreFrames ==
  ASSUME NEW m, NEW R, Sound(m, R)
  PROVE  m \in Memory /\ R \subseteq Frame /\ R \subseteq m.used /\ m.used \subseteq Frame
BY DEF Sound, Memory

LEMMA MapEntry ==
  ASSUME NEW m \in Memory, NEW x \in Frame, NEW i \in Index
  PROVE  m.map[x][i] \in EntryType
BY DEF Memory, MapType

(* What is behind an entry of a root: a table, which is no root itself.    *)
LEMMA BehindEntry ==
  ASSUME NEW m, NEW R, Sound(m, R), NEW r \in R, NEW i, Has(m, r, i)
  PROVE  /\ i \in UserIndex /\ m.map[r][i].frame \in Frame /\ m.map[r][i].frame \in m.used
         /\ m.map[r][i].frame \notin R /\ m.map[r][i].writable
         /\ \A j \in Index : Leaf(m, r, i, j) \in EntryType
<1>1. i \in UserIndex
  BY DEF Has
<1>2. m.map[r][i].writable /\ m.map[r][i].frame \in m.used \ R
  BY <1>1 DEF Sound, TablesOK
<1>3. m.map[r][i].frame \in Frame /\ m \in Memory
  BY <1>2, RootsAreFrames
<1>. QED BY <1>1, <1>2, <1>3, MapEntry DEF Leaf

(* What is behind an entry of a table: a page, which is no page map.       *)
LEMMA BehindLeaf ==
  ASSUME NEW m, NEW R, Sound(m, R), NEW r \in R, NEW i, NEW j, HasLeaf(m, r, i, j)
  PROVE  /\ i \in UserIndex /\ j \in Index /\ Has(m, r, i)
         /\ Leaf(m, r, i, j).frame \in Frame /\ Leaf(m, r, i, j).frame \in m.used
         /\ Leaf(m, r, i, j).frame \notin R
         /\ Leaf(m, r, i, j).writable \in BOOLEAN
         /\ \A q \in R : ~ TableOf(m, q, Leaf(m, r, i, j).frame)
         /\ Reaches(m, r, Leaf(m, r, i, j).frame)
<1>1. i \in UserIndex /\ j \in Index /\ Has(m, r, i) /\ Leaf(m, r, i, j) # NotPresent
  BY DEF HasLeaf, Has
<1>2. /\ Leaf(m, r, i, j).frame \in m.used \ R
      /\ \A q \in R : ~ TableOf(m, q, Leaf(m, r, i, j).frame)
  BY <1>1 DEF Sound, LeavesOK
<1>3. Leaf(m, r, i, j) \in EntryType
  BY <1>1, BehindEntry
<1>4. Reaches(m, r, Leaf(m, r, i, j).frame)
  BY <1>1 DEF Reaches
<1>. QED BY <1>1, <1>2, <1>3, <1>4, EntryIs, RootsAreFrames

LEMMA ReachedIs ==
  ASSUME NEW m, NEW R, Sound(m, R), NEW r \in R, NEW f, Reaches(m, r, f)
  PROVE  f \in Frame /\ f \in m.used /\ f \notin R /\ \A q \in R : ~ TableOf(m, q, f)
<1>1. PICK i \in UserIndex, j \in Index : HasLeaf(m, r, i, j) /\ Leaf(m, r, i, j).frame = f
  BY DEF Reaches
<1>. QED BY <1>1, BehindLeaf

LEMMA TableIs ==
  ASSUME NEW m, NEW R, Sound(m, R), NEW r \in R, NEW f, TableOf(m, r, f)
  PROVE  f \in Frame /\ f \in m.used /\ f \notin R
<1>1. PICK i \in UserIndex : Has(m, r, i) /\ m.map[r][i].frame = f
  BY DEF TableOf
<1>. QED BY <1>1, BehindEntry

-----------------------------------------------------------------------------
(* A new table f, with the entries g, behind the entry i of the root r.    *)
TableAdded(m, n, R, r, i, f, g) ==
  /\ f \in Frame /\ f \notin m.used /\ n.used = m.used \cup {f}
  /\ n.map[r][i] = Entry(f, TRUE) /\ n.map[f] = g
  /\ \A q \in R, k \in UserIndex : (q = r /\ k = i) \/ n.map[q][k] = m.map[q][k]
  /\ \A x \in Frame : x \in R \/ x = f \/ n.map[x] = m.map[x]
  /\ \A x \in Frame : x = f \/ n.data[x] = m.data[x]

TableSeen(m, n, R, r, i, f, g) ==
  /\ \A q \in R : \A k : Has(m, q, k) =>
       n.map[q][k] = m.map[q][k] /\ \A j \in Index : Leaf(n, q, k, j) = Leaf(m, q, k, j)
  /\ \A q \in R : \A k : Has(n, q, k) <=> Has(m, q, k) \/ (q = r /\ k = i)
  /\ \A j : Leaf(n, r, i, j) = g[j]
  /\ \A q \in R : \A k, j : HasLeaf(n, q, k, j) <=>
       HasLeaf(m, q, k, j) \/ (q = r /\ k = i /\ j \in Index /\ g[j] # NotPresent)
  /\ \A q \in R : \A x : Reaches(n, q, x) <=>
       Reaches(m, q, x) \/ (q = r /\ \E j \in Index : g[j] # NotPresent /\ g[j].frame = x)
  /\ \A q \in R : \A x : TableOf(n, q, x) <=> TableOf(m, q, x) \/ (q = r /\ x = f)

LEMMA TableView ==
  ASSUME NEW m, NEW n, NEW R, Sound(m, R), NEW r \in R, NEW i \in UserIndex, ~ Has(m, r, i),
         NEW f, NEW g, TableAdded(m, n, R, r, i, f, g)
  PROVE  TableSeen(m, n, R, r, i, f, g)
<1>1. Entry(f, TRUE) # NotPresent /\ Entry(f, TRUE).frame = f
  BY EntryIs DEF TableAdded
<1>2. ASSUME NEW q \in R, NEW k, Has(m, q, k)
      PROVE  n.map[q][k] = m.map[q][k] /\ \A j \in Index : Leaf(n, q, k, j) = Leaf(m, q, k, j)
  <2>1. /\ k \in UserIndex /\ m.map[q][k].frame \in Frame /\ m.map[q][k].frame \in m.used
        /\ m.map[q][k].frame \notin R
    BY <1>2, BehindEntry
  <2>2. n.map[q][k] = m.map[q][k]
    BY <1>2, <2>1 DEF TableAdded
  <2>3. n.map[m.map[q][k].frame] = m.map[m.map[q][k].frame]
    BY <2>1 DEF TableAdded
  <2>. QED BY <2>2, <2>3 DEF Leaf
<1>3. ASSUME NEW q \in R, NEW k
      PROVE  Has(n, q, k) <=> Has(m, q, k) \/ (q = r /\ k = i)
  <2>1. CASE q = r /\ k = i
    BY <1>1, <2>1 DEF TableAdded, Has
  <2>2. CASE ~ (q = r /\ k = i)
    BY <2>2 DEF TableAdded, Has
  <2>. QED BY <2>1, <2>2
<1>4. \A j : Leaf(n, r, i, j) = g[j]
  BY <1>1 DEF TableAdded, Leaf
<1>5. ASSUME NEW q \in R, NEW k, NEW j
      PROVE  HasLeaf(n, q, k, j) <=>
               HasLeaf(m, q, k, j) \/ (q = r /\ k = i /\ j \in Index /\ g[j] # NotPresent)
  <2>1. CASE q = r /\ k = i
    BY <1>3, <1>4, <2>1 DEF HasLeaf
  <2>2. CASE ~ (q = r /\ k = i)
    BY <1>2, <1>3, <2>2 DEF HasLeaf
  <2>. QED BY <2>1, <2>2
<1>6. ASSUME NEW q \in R, NEW x
      PROVE  Reaches(n, q, x) <=>
               Reaches(m, q, x) \/ (q = r /\ \E j \in Index : g[j] # NotPresent /\ g[j].frame = x)
  <2>1. ASSUME Reaches(n, q, x)
        PROVE  Reaches(m, q, x) \/ (q = r /\ \E j \in Index : g[j] # NotPresent /\ g[j].frame = x)
    <3>1. PICK k \in UserIndex, j \in Index : HasLeaf(n, q, k, j) /\ Leaf(n, q, k, j).frame = x
      BY <2>1 DEF Reaches
    <3>2. CASE HasLeaf(m, q, k, j)
      <4>1. Leaf(n, q, k, j) = Leaf(m, q, k, j)
        BY <1>2, <3>2 DEF HasLeaf
      <4>. QED BY <3>1, <3>2, <4>1 DEF Reaches
    <3>3. CASE q = r /\ k = i /\ j \in Index /\ g[j] # NotPresent
      BY <1>4, <3>1, <3>3
    <3>. QED BY <1>5, <3>1, <3>2, <3>3
  <2>2. ASSUME Reaches(m, q, x) PROVE Reaches(n, q, x)
    <3>1. PICK k \in UserIndex, j \in Index : HasLeaf(m, q, k, j) /\ Leaf(m, q, k, j).frame = x
      BY <2>2 DEF Reaches
    <3>2. Leaf(n, q, k, j) = Leaf(m, q, k, j)
      BY <1>2, <3>1 DEF HasLeaf
    <3>. QED BY <1>5, <3>1, <3>2 DEF Reaches
  <2>3. ASSUME q = r, NEW j \in Index, g[j] # NotPresent, g[j].frame = x PROVE Reaches(n, q, x)
    <3>1. HasLeaf(n, r, i, j) /\ Leaf(n, r, i, j).frame = x
      BY <1>4, <1>5, <2>3
    <3>. QED BY <2>3, <3>1 DEF Reaches
  <2>. QED BY <2>1, <2>2, <2>3
<1>7. ASSUME NEW q \in R, NEW x
      PROVE  TableOf(n, q, x) <=> TableOf(m, q, x) \/ (q = r /\ x = f)
  <2>1. ASSUME TableOf(n, q, x) PROVE TableOf(m, q, x) \/ (q = r /\ x = f)
    <3>1. PICK k \in UserIndex : Has(n, q, k) /\ n.map[q][k].frame = x
      BY <2>1 DEF TableOf
    <3>2. CASE Has(m, q, k)
      BY <1>2, <3>1, <3>2 DEF TableOf
    <3>3. CASE q = r /\ k = i
      BY <1>1, <3>1, <3>3 DEF TableAdded
    <3>. QED BY <1>3, <3>1, <3>2, <3>3
  <2>2. ASSUME TableOf(m, q, x) PROVE TableOf(n, q, x)
    <3>1. PICK k \in UserIndex : Has(m, q, k) /\ m.map[q][k].frame = x
      BY <2>2 DEF TableOf
    <3>. QED BY <1>2, <1>3, <3>1 DEF TableOf
  <2>3. TableOf(n, r, f)
    BY <1>1, <1>3 DEF TableOf, TableAdded
  <2>. QED BY <2>1, <2>2, <2>3
<1>. QED BY <1>2, <1>3, <1>4, <1>5, <1>6, <1>7 DEF TableSeen

LEMMA TableSound ==
  ASSUME NEW m, NEW n \in Memory, NEW R, Sound(m, R), NEW r \in R, NEW i \in UserIndex,
         ~ Has(m, r, i), NEW f, NEW g, TableAdded(m, n, R, r, i, f, g),
         NEW s \in R, \A j \in Index : g[j] # NotPresent => Reaches(m, s, g[j].frame)
  PROVE  Sound(n, R)
<1>1. /\ m \in Memory /\ R \subseteq Frame /\ R \subseteq m.used /\ f \in Frame /\ f \notin m.used
      /\ n.used = m.used \cup {f} /\ f \notin R
  BY RootsAreFrames DEF TableAdded
<1>s. TableSeen(m, n, R, r, i, f, g)
  BY TableView
<1>2. /\ \A q \in R : \A k : Has(m, q, k) =>
           n.map[q][k] = m.map[q][k] /\ \A j \in Index : Leaf(n, q, k, j) = Leaf(m, q, k, j)
      /\ \A q \in R : \A k : Has(n, q, k) <=> Has(m, q, k) \/ (q = r /\ k = i)
      /\ n.map[r][i].frame = f /\ n.map[r][i].writable
  BY <1>1, <1>s, EntryIs DEF TableAdded, TableSeen
<1>3. /\ \A j : Leaf(n, r, i, j) = g[j]
      /\ \A q \in R : \A k, j : HasLeaf(n, q, k, j) <=>
           HasLeaf(m, q, k, j) \/ (q = r /\ k = i /\ j \in Index /\ g[j] # NotPresent)
  BY <1>s DEF TableSeen
<1>4. /\ \A q \in R : \A x : Reaches(m, q, x) => Reaches(n, q, x)
      /\ \A q \in R : \A x : TableOf(n, q, x) <=> TableOf(m, q, x) \/ (q = r /\ x = f)
  BY <1>s DEF TableSeen
<1>5. TablesOK(n, R)
  <2>1. ASSUME NEW q \in R, NEW k \in UserIndex, Has(n, q, k)
        PROVE  n.map[q][k].writable /\ n.map[q][k].frame \in n.used \ R
    <3>1. CASE Has(m, q, k)
      BY <1>1, <1>2, <3>1, BehindEntry
    <3>2. CASE q = r /\ k = i
      BY <1>1, <1>2, <3>2
    <3>. QED BY <1>2, <2>1, <3>1, <3>2
  <2>2. ASSUME NEW q \in R, NEW p \in R, NEW k \in UserIndex, NEW l \in UserIndex,
               Has(n, q, k), Has(n, p, l), n.map[q][k].frame = n.map[p][l].frame
        PROVE  q = p /\ k = l
    <3>1. CASE Has(m, q, k) /\ Has(m, p, l)
      BY <1>2, <2>2, <3>1 DEF Sound, TablesOK
    <3>2. CASE q = r /\ k = i /\ Has(m, p, l)
      <4>1. m.map[p][l].frame \in m.used
        BY <3>2, BehindEntry
      <4>. QED BY <1>1, <1>2, <2>2, <3>2, <4>1
    <3>3. CASE Has(m, q, k) /\ p = r /\ l = i
      <4>1. m.map[q][k].frame \in m.used
        BY <3>3, BehindEntry
      <4>. QED BY <1>1, <1>2, <2>2, <3>3, <4>1
    <3>. QED BY <1>2, <2>2, <3>1, <3>2, <3>3
  <2>. QED BY <2>1, <2>2 DEF TablesOK
<1>6. LeavesOK(n, R)
  <2> SUFFICES ASSUME NEW q \in R, NEW k \in UserIndex, NEW j \in Index, HasLeaf(n, q, k, j)
               PROVE  /\ Leaf(n, q, k, j).frame \in n.used \ R
                      /\ \A p \in R : ~ TableOf(n, p, Leaf(n, q, k, j).frame)
    BY DEF LeavesOK
  <2>1. \E p \in R : Reaches(m, p, Leaf(n, q, k, j).frame)
    <3>1. CASE HasLeaf(m, q, k, j)
      <4>1. Leaf(n, q, k, j) = Leaf(m, q, k, j)
        BY <1>2, <3>1 DEF HasLeaf
      <4>. QED BY <3>1, <4>1 DEF Reaches
    <3>2. CASE q = r /\ k = i /\ g[j] # NotPresent
      BY <1>3, <3>2
    <3>. QED BY <1>3, <3>1, <3>2
  <2>2. /\ Leaf(n, q, k, j).frame \in m.used /\ Leaf(n, q, k, j).frame \notin R
        /\ \A p \in R : ~ TableOf(m, p, Leaf(n, q, k, j).frame)
    BY <2>1, ReachedIs
  <2>. QED BY <1>1, <1>4, <2>2
<1>7. Covered(n, R)
  <2> SUFFICES ASSUME NEW x \in n.used
               PROVE  x \in R \/ \E q \in R : TableOf(n, q, x) \/ Reaches(n, q, x)
    BY DEF Covered
  <2>1. CASE x = f
    BY <1>4, <2>1
  <2>2. CASE x \in m.used
    <3>1. x \in R \/ \E q \in R : TableOf(m, q, x) \/ Reaches(m, q, x)
      BY <2>2 DEF Sound, Covered
    <3>. QED BY <1>4, <3>1
  <2>. QED BY <1>1, <2>1, <2>2
<1>. QED BY <1>1, <1>5, <1>6, <1>7 DEF Sound

-----------------------------------------------------------------------------
(* A new page f, written to the entry j of the table behind the entry i of *)
(* the root r.                                                             *)
LeafAdded(m, n, R, r, i, j, f, w) ==
  /\ f \in Frame /\ f \notin m.used /\ n.used = m.used \cup {f}
  /\ n.map[m.map[r][i].frame][j] = Entry(f, w)
  /\ \A q \in R, k \in UserIndex : n.map[q][k] = m.map[q][k]
  /\ \A l \in Index : l = j \/ n.map[m.map[r][i].frame][l] = m.map[m.map[r][i].frame][l]
  /\ \A x \in Frame : x \in R \/ x = m.map[r][i].frame \/ x = f \/ n.map[x] = m.map[x]
  /\ \A x \in Frame : x = f \/ n.data[x] = m.data[x]

LeafSeen(m, n, R, r, i, j, f, w) ==
  /\ \A q \in R : \A k : Has(n, q, k) <=> Has(m, q, k)
  /\ \A q \in R : \A k : Has(m, q, k) =>
       /\ n.map[q][k] = m.map[q][k]
       /\ \A l \in Index : (q = r /\ k = i /\ l = j) \/ Leaf(n, q, k, l) = Leaf(m, q, k, l)
  /\ Leaf(n, r, i, j) = Entry(f, w) /\ HasLeaf(n, r, i, j)
  /\ \A q \in R : \A k, l :
       (q = r /\ k = i /\ l = j) \/ (HasLeaf(n, q, k, l) <=> HasLeaf(m, q, k, l))
  /\ \A q \in R : \A x : TableOf(n, q, x) <=> TableOf(m, q, x)
  /\ \A q \in R : \A x : Reaches(n, q, x) => Reaches(m, q, x) \/ (q = r /\ x = f)
  /\ \A q \in R : \A x : Reaches(m, q, x) =>
       \/ Reaches(n, q, x)
       \/ q = r /\ HasLeaf(m, r, i, j) /\ x = Leaf(m, r, i, j).frame
  /\ Reaches(n, r, f)

LEMMA LeafView ==
  ASSUME NEW m, NEW n, NEW R, Sound(m, R), NEW r \in R, NEW i, Has(m, r, i), NEW j \in Index,
         NEW f, NEW w \in BOOLEAN, LeafAdded(m, n, R, r, i, j, f, w)
  PROVE  LeafSeen(m, n, R, r, i, j, f, w)
<1>1. Entry(f, w) # NotPresent /\ Entry(f, w).frame = f
  BY EntryIs DEF LeafAdded
<1>2. ASSUME NEW q \in R, NEW k
      PROVE  Has(n, q, k) <=> Has(m, q, k)
  BY DEF LeafAdded, Has
<1>3. ASSUME NEW q \in R, NEW k, Has(m, q, k)
      PROVE  /\ n.map[q][k] = m.map[q][k]
             /\ \A l \in Index : (q = r /\ k = i /\ l = j) \/ Leaf(n, q, k, l) = Leaf(m, q, k, l)
  <2>1. /\ k \in UserIndex /\ m.map[q][k].frame \in Frame /\ m.map[q][k].frame \in m.used
        /\ m.map[q][k].frame \notin R
    BY <1>3, BehindEntry
  <2>2. n.map[q][k] = m.map[q][k]
    BY <2>1 DEF LeafAdded
  <2>3. CASE q = r /\ k = i
    BY <2>2, <2>3 DEF LeafAdded, Leaf
  <2>4. CASE ~ (q = r /\ k = i)
    <3>1. m.map[q][k].frame # m.map[r][i].frame
      <4>1. i \in UserIndex
        BY DEF Has
      <4>. QED BY <1>3, <2>1, <2>4, <4>1 DEF Sound, TablesOK
    <3>2. n.map[m.map[q][k].frame] = m.map[m.map[q][k].frame]
      BY <2>1, <3>1 DEF LeafAdded
    <3>. QED BY <2>2, <3>2 DEF Leaf
  <2>. QED BY <2>3, <2>4
<1>4. Leaf(n, r, i, j) = Entry(f, w)
  <2>1. n.map[r][i] = m.map[r][i]
    BY <1>3
  <2>. QED BY <2>1 DEF LeafAdded, Leaf
<1>5. HasLeaf(n, r, i, j)
  BY <1>1, <1>2, <1>4 DEF HasLeaf
<1>6. ASSUME NEW q \in R, NEW k, NEW l, ~ (q = r /\ k = i /\ l = j)
      PROVE  HasLeaf(n, q, k, l) <=> HasLeaf(m, q, k, l)
  BY <1>2, <1>3, <1>6 DEF HasLeaf
<1>7. ASSUME NEW q \in R, NEW x
      PROVE  TableOf(n, q, x) <=> TableOf(m, q, x)
  BY <1>2, <1>3 DEF TableOf
<1>8. Reaches(n, r, f)
  <2>1. i \in UserIndex
    BY DEF Has
  <2>. QED BY <1>1, <1>4, <1>5, <2>1 DEF Reaches
<1>9. ASSUME NEW q \in R, NEW x, Reaches(n, q, x)
      PROVE  Reaches(m, q, x) \/ (q = r /\ x = f)
  <2>1. PICK k \in UserIndex, l \in Index : HasLeaf(n, q, k, l) /\ Leaf(n, q, k, l).frame = x
    BY <1>9 DEF Reaches
  <2>2. CASE q = r /\ k = i /\ l = j
    BY <1>1, <1>4, <2>1, <2>2
  <2>3. CASE ~ (q = r /\ k = i /\ l = j)
    <3>1. HasLeaf(m, q, k, l)
      BY <1>6, <2>1, <2>3
    <3>2. Leaf(n, q, k, l) = Leaf(m, q, k, l)
      BY <1>3, <2>3, <3>1 DEF HasLeaf
    <3>. QED BY <2>1, <3>1, <3>2 DEF Reaches
  <2>. QED BY <2>2, <2>3
<1>10. ASSUME NEW q \in R, NEW x, Reaches(m, q, x)
       PROVE  Reaches(n, q, x) \/ (q = r /\ HasLeaf(m, r, i, j) /\ x = Leaf(m, r, i, j).frame)
  <2>1. PICK k \in UserIndex, l \in Index : HasLeaf(m, q, k, l) /\ Leaf(m, q, k, l).frame = x
    BY <1>10 DEF Reaches
  <2>2. CASE q = r /\ k = i /\ l = j
    BY <2>1, <2>2
  <2>3. CASE ~ (q = r /\ k = i /\ l = j)
    <3>1. HasLeaf(n, q, k, l)
      BY <1>6, <2>1, <2>3
    <3>2. Leaf(n, q, k, l) = Leaf(m, q, k, l)
      BY <1>3, <2>1, <2>3 DEF HasLeaf
    <3>. QED BY <2>1, <3>1, <3>2 DEF Reaches
  <2>. QED BY <2>2, <2>3
<1>. QED BY <1>2, <1>3, <1>4, <1>5, <1>6, <1>7, <1>8, <1>9, <1>10 DEF LeafSeen

LEMMA LeafSound ==
  ASSUME NEW m, NEW n \in Memory, NEW R, Sound(m, R), NEW r \in R, NEW i, Has(m, r, i),
         NEW j \in Index, NEW f, NEW w \in BOOLEAN, LeafAdded(m, n, R, r, i, j, f, w),
         HasLeaf(m, r, i, j) => \E s \in R : s # r /\ Reaches(m, s, Leaf(m, r, i, j).frame)
  PROVE  Sound(n, R)
<1>1. /\ m \in Memory /\ R \subseteq Frame /\ R \subseteq m.used /\ f \in Frame /\ f \notin m.used
      /\ n.used = m.used \cup {f} /\ f \notin R
  BY RootsAreFrames DEF LeafAdded
<1>2. LeafSeen(m, n, R, r, i, j, f, w)
  BY LeafView
<1>3. /\ \A q \in R : \A k : Has(n, q, k) <=> Has(m, q, k)
      /\ \A q \in R : \A k : Has(m, q, k) => n.map[q][k] = m.map[q][k]
      /\ \A q \in R : \A x : TableOf(n, q, x) <=> TableOf(m, q, x)
  BY <1>2 DEF LeafSeen
<1>4. /\ \A q \in R : \A x : Reaches(n, q, x) => Reaches(m, q, x) \/ (q = r /\ x = f)
      /\ \A q \in R : \A x : Reaches(m, q, x) =>
           \/ Reaches(n, q, x)
           \/ q = r /\ HasLeaf(m, r, i, j) /\ x = Leaf(m, r, i, j).frame
      /\ Reaches(n, r, f)
  BY <1>2 DEF LeafSeen
<1>5. TablesOK(n, R)
  <2>1. ASSUME NEW q \in R, NEW k \in UserIndex, Has(n, q, k)
        PROVE  n.map[q][k].writable /\ n.map[q][k].frame \in n.used \ R
    <3>1. Has(m, q, k) /\ n.map[q][k] = m.map[q][k]
      BY <1>3, <2>1
    <3>. QED BY <1>1, <3>1, BehindEntry
  <2>2. ASSUME NEW q \in R, NEW p \in R, NEW k \in UserIndex, NEW l \in UserIndex,
               Has(n, q, k), Has(n, p, l), n.map[q][k].frame = n.map[p][l].frame
        PROVE  q = p /\ k = l
    <3>1. Has(m, q, k) /\ n.map[q][k] = m.map[q][k] /\ Has(m, p, l) /\ n.map[p][l] = m.map[p][l]
      BY <1>3, <2>2
    <3>. QED BY <2>2, <3>1 DEF Sound, TablesOK
  <2>. QED BY <2>1, <2>2 DEF TablesOK
<1>6. LeavesOK(n, R)
  <2> SUFFICES ASSUME NEW q \in R, NEW k \in UserIndex, NEW l \in Index, HasLeaf(n, q, k, l)
               PROVE  /\ Leaf(n, q, k, l).frame \in n.used \ R
                      /\ \A p \in R : ~ TableOf(n, p, Leaf(n, q, k, l).frame)
    BY DEF LeavesOK
  <2>1. PICK x : x = Leaf(n, q, k, l).frame
    OBVIOUS
  <2>2. Reaches(n, q, x)
    BY <2>1 DEF Reaches
  <2>3. CASE Reaches(m, q, x)
    <3>1. x \in m.used /\ x \notin R /\ \A p \in R : ~ TableOf(m, p, x)
      BY <2>3, ReachedIs
    <3>. QED BY <1>1, <1>3, <2>1, <3>1
  <2>4. CASE x = f
    <3>1. \A p \in R : ~ TableOf(m, p, f)
      BY <1>1, TableIs
    <3>. QED BY <1>1, <1>3, <2>1, <2>4, <3>1
  <2>. QED BY <1>4, <2>2, <2>3, <2>4
<1>7. Covered(n, R)
  <2> SUFFICES ASSUME NEW x \in n.used
               PROVE  x \in R \/ \E q \in R : TableOf(n, q, x) \/ Reaches(n, q, x)
    BY DEF Covered
  <2>1. CASE x = f
    BY <1>4, <2>1
  <2>2. CASE x \in m.used
    <3>1. x \in R \/ \E q \in R : TableOf(m, q, x) \/ Reaches(m, q, x)
      BY <2>2 DEF Sound, Covered
    <3>2. ASSUME NEW q \in R, Reaches(m, q, x) PROVE \E p \in R : Reaches(n, p, x)
      BY <1>4, <3>2
    <3>. QED BY <1>3, <3>1, <3>2
  <2>. QED BY <1>1, <2>1, <2>2
<1>. QED BY <1>1, <1>5, <1>6, <1>7 DEF Sound

-----------------------------------------------------------------------------
(* Whose roots are whose.                                                  *)
LEMMA RootFacts ==
  ASSUME NEW c, NEW b, NEW l, Owned(c, b, l)
  PROVE  /\ \A t \in Task : /\ c[t] # KernelMap => c[t] \in RootsIn(c, b, t)
                            /\ b[t] # KernelMap => b[t] \in RootsIn(c, b, t)
                            /\ c[t] # KernelMap => b[t] # KernelMap
         /\ \A t \in Task : \A r \in RootsIn(c, b, t) :
              r \in RootSet(c, b, l) /\ r \in {c[t], b[t]} /\ r # KernelMap /\ r \notin l
         /\ \A t, u \in Task : \A r : r \in RootsIn(c, b, t) /\ r \in RootsIn(c, b, u) => t = u
         /\ \A r \in RootSet(c, b, l) : r \in l \/ \E t \in Task : r \in RootsIn(c, b, t)
         /\ RootSet(c, b, l) \subseteq Frame /\ l \subseteq RootSet(c, b, l)
<1>1. \A t \in Task : /\ c[t] # KernelMap => c[t] \in RootsIn(c, b, t)
                      /\ b[t] # KernelMap => b[t] \in RootsIn(c, b, t)
                      /\ RootsIn(c, b, t) \subseteq Frame
  BY DEF RootsIn, Owned
<1>2. \A t \in Task : \A r \in RootsIn(c, b, t) :
        r \in RootSet(c, b, l) /\ r \in {c[t], b[t]} /\ r # KernelMap
  BY DEF RootsIn, RootSet
<1>3. \A t \in Task : \A r \in RootsIn(c, b, t) : r \notin l
  BY DEF Owned
<1>4. ASSUME NEW t \in Task, NEW u \in Task, NEW r, r \in RootsIn(c, b, t), r \in RootsIn(c, b, u)
      PROVE  t = u
  <2>1. t # u => RootsIn(c, b, t) \cap RootsIn(c, b, u) = {}
    BY DEF Owned
  <2>. QED BY <1>4, <2>1
<1>5. \A r \in RootSet(c, b, l) : r \in l \/ \E t \in Task : r \in RootsIn(c, b, t)
  BY DEF RootSet
<1>6. RootSet(c, b, l) \subseteq Frame /\ l \subseteq RootSet(c, b, l)
  BY <1>1 DEF RootSet, Owned
<1>7. \A t \in Task : c[t] # KernelMap => b[t] # KernelMap
  BY DEF Owned
<1>. QED BY <1>1, <1>2, <1>3, <1>4, <1>5, <1>6, <1>7

(* Leaves are separate after a step that gives the root r of t a new page  *)
(* or one of the root s of t.                                              *)
LEMMA SeparateKept ==
  ASSUME NEW m, NEW n, NEW c, NEW b, NEW l, Owned(c, b, l), NEW R, R = RootSet(c, b, l),
         Sound(m, R), Separate(m, R, c, b), NEW t \in Task,
         NEW r \in RootsIn(c, b, t), NEW s \in RootsIn(c, b, t),
         \A q \in R : \A x : Reaches(n, q, x) =>
           \/ Reaches(m, q, x)
           \/ q = r /\ (x \notin m.used \/ Reaches(m, s, x))
  PROVE  Separate(n, R, c, b)
<1>1. r \in R /\ s \in R
  BY RootFacts
<1>2. \A u \in Task : r \in RootsIn(c, b, u) <=> s \in RootsIn(c, b, u)
  BY RootFacts
<1> SUFFICES ASSUME NEW p \in R, NEW q \in R, NEW x \in Frame, Reaches(n, p, x), Reaches(n, q, x)
             PROVE  \A u \in Task : p \in RootsIn(c, b, u) <=> q \in RootsIn(c, b, u)
  BY DEF Separate
<1>3. CASE x \notin m.used
  <2>1. \A o \in R : ~ Reaches(m, o, x)
    BY <1>3, ReachedIs
  <2>2. p = r /\ q = r
    BY <1>1, <2>1
  <2>. QED BY <2>2
<1>4. CASE x \in m.used
  <2>1. ASSUME NEW o \in R, Reaches(n, o, x)
        PROVE  \E a \in R : Reaches(m, a, x) /\ \A u \in Task :
                 a \in RootsIn(c, b, u) <=> o \in RootsIn(c, b, u)
    <3>1. CASE Reaches(m, o, x)
      BY <3>1
    <3>2. CASE o = r /\ Reaches(m, s, x)
      BY <1>1, <1>2, <3>2
    <3>. QED BY <1>4, <2>1, <3>1, <3>2
  <2>2. PICK a \in R : Reaches(m, a, x) /\ \A u \in Task :
          a \in RootsIn(c, b, u) <=> p \in RootsIn(c, b, u)
    BY <2>1
  <2>3. PICK d \in R : Reaches(m, d, x) /\ \A u \in Task :
          d \in RootsIn(c, b, u) <=> q \in RootsIn(c, b, u)
    BY <2>1
  <2>4. \A u \in Task : a \in RootsIn(c, b, u) <=> d \in RootsIn(c, b, u)
    BY <2>2, <2>3 DEF Separate
  <2>. QED BY <2>2, <2>3, <2>4
<1>. QED BY <1>3, <1>4

(* A program is as it was when the leaves of its roots and what is in them *)
(* are as they were.                                                       *)
SameLeaves(m, n, q) ==
  \A k, j : /\ HasLeaf(n, q, k, j) <=> HasLeaf(m, q, k, j)
            /\ HasLeaf(m, q, k, j) => Leaf(n, q, k, j) = Leaf(m, q, k, j)

LEMMA SameReach ==
  ASSUME NEW m, NEW n, NEW q, SameLeaves(m, n, q)
  PROVE  \A x : Reaches(n, q, x) <=> Reaches(m, q, x)
BY DEF SameLeaves, Reaches

LEMMA ProgramKept ==
  ASSUME NEW m, NEW n, NEW c, NEW b, NEW l, Owned(c, b, l), NEW t \in Task,
         Program(m, c, b, t), \A q \in RootsIn(c, b, t) : SameLeaves(m, n, q),
         \A q \in RootsIn(c, b, t) : \A f \in Frame :
           Reaches(m, q, f) => n.data[f] \in {m.data[f], t}
  PROVE  Program(n, c, b, t)
<1>1. \A q \in RootsIn(c, b, t) : \A x : Reaches(n, q, x) <=> Reaches(m, q, x)
  BY SameReach
<1>2. /\ c[t] # KernelMap => c[t] \in RootsIn(c, b, t) /\ b[t] # KernelMap
      /\ b[t] # KernelMap => b[t] \in RootsIn(c, b, t)
  BY RootFacts
<1>3. ASSUME b[t] # KernelMap, NEW i \in UserIndex, NEW j \in Index, HasLeaf(n, b[t], i, j)
      PROVE  ~ Leaf(n, b[t], i, j).writable /\ ElfAt(i, j)
  <2>1. HasLeaf(m, b[t], i, j) /\ Leaf(n, b[t], i, j) = Leaf(m, b[t], i, j)
    BY <1>2, <1>3 DEF SameLeaves
  <2>. QED BY <1>3, <2>1 DEF Program
<1>4. ASSUME c[t] # KernelMap, NEW i \in UserIndex, NEW j \in Index, HasLeaf(n, c[t], i, j)
      PROVE  IF Leaf(n, c[t], i, j).writable
             THEN c[t] # b[t] /\ ~ Reaches(n, b[t], Leaf(n, c[t], i, j).frame)
             ELSE ElfAt(i, j) /\ Reaches(n, b[t], Leaf(n, c[t], i, j).frame)
  <2>1. HasLeaf(m, c[t], i, j) /\ Leaf(n, c[t], i, j) = Leaf(m, c[t], i, j)
    BY <1>2, <1>4 DEF SameLeaves
  <2>2. IF Leaf(m, c[t], i, j).writable
        THEN c[t] # b[t] /\ ~ Reaches(m, b[t], Leaf(m, c[t], i, j).frame)
        ELSE ElfAt(i, j) /\ Reaches(m, b[t], Leaf(m, c[t], i, j).frame)
    BY <1>4, <2>1 DEF Program
  <2>. QED BY <1>1, <1>2, <1>4, <2>1, <2>2
<1>5. ASSUME NEW r \in RootsIn(c, b, t), NEW f \in Frame, Reaches(n, r, f)
      PROVE  n.data[f] \in {Zero, Image, t}
  <2>1. Reaches(m, r, f)
    BY <1>1, <1>5
  <2>2. m.data[f] \in {Zero, Image, t}
    BY <2>1 DEF Program
  <2>. QED BY <2>1, <2>2
<1>. QED BY <1>3, <1>4, <1>5 DEF Program

-----------------------------------------------------------------------------
(* The address spaces after a new, empty table.                            *)
LEMMA SpacesTable ==
  ASSUME NEW m, NEW n \in Memory, NEW c, NEW b, NEW l, Owned(c, b, l), Spaces(m, c, b, l),
         NEW t \in Task, c[t] # KernelMap, NEW i \in UserIndex, ~ Has(m, c[t], i),
         NEW f, TableAdded(m, n, RootSet(c, b, l), c[t], i, f, EmptyMap)
  PROVE  Spaces(n, c, b, l)
<1>1. PICK R : R = RootSet(c, b, l)
  OBVIOUS
<1>2. PICK r : r = c[t]
  OBVIOUS
<1>3. r \in R /\ r \in RootsIn(c, b, t)
  BY <1>1, <1>2, RootFacts
<1>4. Sound(m, R) /\ Separate(m, R, c, b) /\ \A u \in Task : Program(m, c, b, u)
  BY <1>1 DEF Spaces
<1>5. TableAdded(m, n, R, r, i, f, EmptyMap) /\ ~ Has(m, r, i)
  BY <1>1, <1>2
<1>6. TableSeen(m, n, R, r, i, f, EmptyMap)
  BY <1>3, <1>4, <1>5, TableView
<1>7. \A j \in Index : EmptyMap[j] = NotPresent
  BY EntryIs
<1>8. Sound(n, R)
  BY <1>3, <1>4, <1>5, <1>7, TableSound
<1>9. \A q \in R : SameLeaves(m, n, q)
  <2> SUFFICES ASSUME NEW q \in R, NEW k, NEW j
               PROVE  /\ HasLeaf(n, q, k, j) <=> HasLeaf(m, q, k, j)
                      /\ HasLeaf(m, q, k, j) => Leaf(n, q, k, j) = Leaf(m, q, k, j)
    BY DEF SameLeaves
  <2>1. HasLeaf(n, q, k, j) <=> HasLeaf(m, q, k, j)
    BY <1>6, <1>7 DEF TableSeen
  <2>2. HasLeaf(m, q, k, j) => Has(m, q, k) /\ j \in Index
    BY DEF HasLeaf
  <2>. QED BY <1>6, <2>1, <2>2 DEF TableSeen
<1>10. Separate(n, R, c, b)
  <2>1. \A q \in R : \A x : Reaches(n, q, x) => Reaches(m, q, x)
    BY <1>9, SameReach
  <2>. QED BY <1>1, <1>3, <1>4, <2>1, SeparateKept
<1>11. ASSUME NEW u \in Task PROVE Program(n, c, b, u)
  <2>1. \A q \in RootsIn(c, b, u) : q \in R /\ SameLeaves(m, n, q)
    BY <1>1, <1>9, RootFacts
  <2>2. \A q \in RootsIn(c, b, u) : \A x \in Frame : Reaches(m, q, x) => n.data[x] \in {m.data[x], u}
    <3> SUFFICES ASSUME NEW q \in RootsIn(c, b, u), NEW x \in Frame, Reaches(m, q, x)
                 PROVE  n.data[x] = m.data[x]
      OBVIOUS
    <3>1. x \in m.used
      BY <1>4, <2>1, ReachedIs
    <3>. QED BY <1>5, <3>1 DEF TableAdded
  <2>. QED BY <1>4, <2>1, <2>2, ProgramKept
<1>. QED BY <1>1, <1>8, <1>10, <1>11 DEF Spaces

(* After a new table with the pages of the image behind it, read-only.     *)
LEMMA SpacesCopy ==
  ASSUME NEW m, NEW n \in Memory, NEW c, NEW b, NEW l, Owned(c, b, l), Spaces(m, c, b, l),
         NEW t \in Task, c[t] # KernelMap, c[t] # b[t], NEW i \in UserIndex, ~ Has(m, c[t], i),
         NEW f, NEW g, TableAdded(m, n, RootSet(c, b, l), c[t], i, f, g),
         \A j \in Index : g[j] # NotPresent =>
           HasLeaf(m, b[t], i, j) /\ g[j] = Entry(Leaf(m, b[t], i, j).frame, FALSE)
  PROVE  Spaces(n, c, b, l)
<1>1. PICK R : R = RootSet(c, b, l)
  OBVIOUS
<1>2. PICK r : r = c[t]
  OBVIOUS
<1>i. PICK s : s = b[t]
  OBVIOUS
<1>3. r \in R /\ r \in RootsIn(c, b, t) /\ s \in R /\ s \in RootsIn(c, b, t) /\ r # s
  BY <1>1, <1>2, <1>i, RootFacts
<1>4. Sound(m, R) /\ Separate(m, R, c, b) /\ \A u \in Task : Program(m, c, b, u)
  BY <1>1 DEF Spaces
<1>5. TableAdded(m, n, R, r, i, f, g) /\ ~ Has(m, r, i)
  BY <1>1, <1>2
<1>6. TableSeen(m, n, R, r, i, f, g)
  BY <1>3, <1>4, <1>5, TableView
<1>7. ASSUME NEW j \in Index, g[j] # NotPresent
      PROVE  /\ HasLeaf(m, s, i, j) /\ g[j].frame = Leaf(m, s, i, j).frame
             /\ ~ g[j].writable /\ Reaches(m, s, g[j].frame) /\ ElfAt(i, j)
  <2>1. HasLeaf(m, s, i, j) /\ g[j] = Entry(Leaf(m, s, i, j).frame, FALSE)
    BY <1>i, <1>7
  <2>2. Leaf(m, s, i, j).frame \in Frame /\ Reaches(m, s, Leaf(m, s, i, j).frame)
    BY <1>3, <1>4, <2>1, BehindLeaf
  <2>3. g[j].frame = Leaf(m, s, i, j).frame /\ ~ g[j].writable
    <3>1. PICK x : x = Leaf(m, s, i, j).frame
      OBVIOUS
    <3>2. Entry(x, FALSE).frame = x /\ Entry(x, FALSE).writable = FALSE
      BY DEF Entry
    <3>. QED BY <2>1, <3>1, <3>2
  <2>4. ElfAt(i, j)
    <3>1. s # KernelMap
      BY <1>3, RootFacts
    <3>. QED BY <1>4, <1>i, <2>1, <3>1 DEF Program
  <2>. QED BY <2>1, <2>2, <2>3, <2>4
<1>8. Sound(n, R)
  BY <1>3, <1>4, <1>5, <1>7, TableSound
<1>9. \A q \in R : \A x : Reaches(n, q, x) => Reaches(m, q, x) \/ (q = r /\ Reaches(m, s, x))
  BY <1>6, <1>7 DEF TableSeen
<1>10. Separate(n, R, c, b)
  BY <1>1, <1>3, <1>4, <1>9, SeparateKept
<1>11. \A q \in R : q # r => SameLeaves(m, n, q)
  <2> SUFFICES ASSUME NEW q \in R, q # r, NEW k, NEW j
               PROVE  /\ HasLeaf(n, q, k, j) <=> HasLeaf(m, q, k, j)
                      /\ HasLeaf(m, q, k, j) => Leaf(n, q, k, j) = Leaf(m, q, k, j)
    BY DEF SameLeaves
  <2>1. HasLeaf(n, q, k, j) <=> HasLeaf(m, q, k, j)
    BY <1>6 DEF TableSeen
  <2>2. HasLeaf(m, q, k, j) => Has(m, q, k) /\ j \in Index
    BY DEF HasLeaf
  <2>. QED BY <1>6, <2>1, <2>2 DEF TableSeen
<1>12. \A q \in R : \A x \in Frame : Reaches(m, q, x) => n.data[x] = m.data[x]
  <2> SUFFICES ASSUME NEW q \in R, NEW x \in Frame, Reaches(m, q, x)
               PROVE  n.data[x] = m.data[x]
    OBVIOUS
  <2>1. x \in m.used
    BY <1>4, ReachedIs
  <2>. QED BY <1>5, <2>1 DEF TableAdded
<1>13. ASSUME NEW u \in Task, u # t PROVE Program(n, c, b, u)
  <2>1. \A q \in RootsIn(c, b, u) : q \in R /\ q # r
    BY <1>1, <1>3, <1>13, RootFacts
  <2>2. /\ \A q \in RootsIn(c, b, u) : SameLeaves(m, n, q)
        /\ \A q \in RootsIn(c, b, u) : \A x \in Frame : Reaches(m, q, x) => n.data[x] \in {m.data[x], u}
    BY <1>11, <1>12, <2>1
  <2>. QED BY <1>4, <2>2, ProgramKept
<1>14. Program(n, c, b, t)
  <2>1. SameLeaves(m, n, s)
    BY <1>3, <1>11
  <2>2. \A x : Reaches(n, s, x) <=> Reaches(m, s, x)
    BY <2>1, SameReach
  <2>3. Program(m, c, b, t)
    BY <1>4
  <2>4. r # KernelMap /\ s # KernelMap
    BY <1>3, RootFacts
  <2>5. ASSUME NEW k \in UserIndex, NEW j \in Index, HasLeaf(n, s, k, j)
        PROVE  ~ Leaf(n, s, k, j).writable /\ ElfAt(k, j)
    <3>1. HasLeaf(m, s, k, j) /\ Leaf(n, s, k, j) = Leaf(m, s, k, j)
      BY <2>1, <2>5 DEF SameLeaves
    <3>. QED BY <1>i, <2>3, <2>4, <3>1 DEF Program
  <2>6. ASSUME NEW k \in UserIndex, NEW j \in Index, HasLeaf(n, r, k, j)
        PROVE  IF Leaf(n, r, k, j).writable
               THEN r # s /\ ~ Reaches(n, s, Leaf(n, r, k, j).frame)
               ELSE ElfAt(k, j) /\ Reaches(n, s, Leaf(n, r, k, j).frame)
    <3>1. CASE HasLeaf(m, r, k, j)
      <4>1. Leaf(n, r, k, j) = Leaf(m, r, k, j)
        BY <1>3, <1>6, <3>1 DEF TableSeen, HasLeaf
      <4>2. IF Leaf(m, r, k, j).writable
            THEN r # s /\ ~ Reaches(m, s, Leaf(m, r, k, j).frame)
            ELSE ElfAt(k, j) /\ Reaches(m, s, Leaf(m, r, k, j).frame)
        BY <1>2, <1>i, <2>3, <2>4, <3>1 DEF Program
      <4>. QED BY <2>2, <4>1, <4>2
    <3>2. CASE k = i /\ g[j] # NotPresent
      <4>1. Leaf(n, r, k, j) = g[j]
        BY <1>6, <3>2 DEF TableSeen
      <4>. QED BY <1>7, <2>2, <3>2, <4>1
    <3>. QED BY <1>3, <1>6, <2>6, <3>1, <3>2 DEF TableSeen
  <2>7. ASSUME NEW q \in RootsIn(c, b, t), NEW x \in Frame, Reaches(n, q, x)
        PROVE  n.data[x] \in {Zero, Image, t}
    <3>1. \E a \in RootsIn(c, b, t) : a \in R /\ Reaches(m, a, x)
      BY <1>1, <1>3, <1>9, <2>7, RootFacts
    <3>2. m.data[x] \in {Zero, Image, t}
      BY <2>3, <3>1 DEF Program
    <3>. QED BY <1>12, <3>1, <3>2
  <2>. QED BY <1>2, <1>i, <2>5, <2>6, <2>7 DEF Program
<1>. QED BY <1>1, <1>8, <1>10, <1>13, <1>14 DEF Spaces

(* After a new page of the program: private and writable, or a page of the *)
(* image that is being loaded.                                             *)
LEMMA SpacesLeaf ==
  ASSUME NEW m, NEW n \in Memory, NEW c, NEW b, NEW l, Owned(c, b, l), Spaces(m, c, b, l),
         NEW t \in Task, c[t] # KernelMap, NEW i, Has(m, c[t], i), NEW j \in Index,
         NEW f, NEW w \in BOOLEAN, LeafAdded(m, n, RootSet(c, b, l), c[t], i, j, f, w),
         w => c[t] # b[t], ~ w => c[t] = b[t] /\ ElfAt(i, j),
         HasLeaf(m, c[t], i, j) => w /\ ~ Leaf(m, c[t], i, j).writable,
         n.data[f] \in {Zero, Image, t}
  PROVE  Spaces(n, c, b, l)
<1>1. PICK R : R = RootSet(c, b, l)
  OBVIOUS
<1>2. PICK r : r = c[t]
  OBVIOUS
<1>i. PICK s : s = b[t]
  OBVIOUS
<1>3. r \in R /\ r \in RootsIn(c, b, t) /\ s \in R /\ s \in RootsIn(c, b, t) /\ (w => r # s)
  BY <1>1, <1>2, <1>i, RootFacts
<1>4. Sound(m, R) /\ Separate(m, R, c, b) /\ \A u \in Task : Program(m, c, b, u)
  BY <1>1 DEF Spaces
<1>5. LeafAdded(m, n, R, r, i, j, f, w) /\ Has(m, r, i) /\ i \in UserIndex
  BY <1>1, <1>2 DEF Has
<1>6. LeafSeen(m, n, R, r, i, j, f, w)
  BY <1>3, <1>4, <1>5, LeafView
<1>7. HasLeaf(m, r, i, j) => w /\ Reaches(m, s, Leaf(m, r, i, j).frame)
  BY <1>2, <1>i, <1>4, <1>5 DEF Program
<1>8. Sound(n, R)
  BY <1>3, <1>4, <1>5, <1>7, LeafSound
<1>9. /\ \A q \in R : \A x : Reaches(n, q, x) => Reaches(m, q, x) \/ (q = r /\ x = f)
      /\ f \notin m.used /\ f \in Frame
  BY <1>5, <1>6 DEF LeafSeen, LeafAdded
<1>10. Separate(n, R, c, b)
  BY <1>1, <1>3, <1>4, <1>9, SeparateKept
<1>11. \A q \in R : q # r => SameLeaves(m, n, q)
  <2> SUFFICES ASSUME NEW q \in R, q # r, NEW k, NEW d
               PROVE  /\ HasLeaf(n, q, k, d) <=> HasLeaf(m, q, k, d)
                      /\ HasLeaf(m, q, k, d) => Leaf(n, q, k, d) = Leaf(m, q, k, d)
    BY DEF SameLeaves
  <2>1. HasLeaf(n, q, k, d) <=> HasLeaf(m, q, k, d)
    BY <1>6 DEF LeafSeen
  <2>2. HasLeaf(m, q, k, d) => Has(m, q, k) /\ d \in Index
    BY DEF HasLeaf
  <2>. QED BY <1>6, <2>1, <2>2 DEF LeafSeen
<1>12. \A q \in R : \A x \in Frame : Reaches(m, q, x) => n.data[x] = m.data[x]
  <2> SUFFICES ASSUME NEW q \in R, NEW x \in Frame, Reaches(m, q, x)
               PROVE  n.data[x] = m.data[x]
    OBVIOUS
  <2>1. x \in m.used
    BY <1>4, ReachedIs
  <2>. QED BY <1>5, <2>1 DEF LeafAdded
<1>13. ASSUME NEW u \in Task, u # t PROVE Program(n, c, b, u)
  <2>1. \A q \in RootsIn(c, b, u) : q \in R /\ q # r
    BY <1>1, <1>3, <1>13, RootFacts
  <2>2. /\ \A q \in RootsIn(c, b, u) : SameLeaves(m, n, q)
        /\ \A q \in RootsIn(c, b, u) : \A x \in Frame : Reaches(m, q, x) => n.data[x] \in {m.data[x], u}
    BY <1>11, <1>12, <2>1
  <2>. QED BY <1>4, <2>2, ProgramKept
<1>14. Program(n, c, b, t)
  <2>3. Program(m, c, b, t)
    BY <1>4
  <2>4. r # KernelMap /\ s # KernelMap
    BY <1>3, RootFacts
  <2>1. ASSUME NEW q \in R, NEW k \in UserIndex, NEW d \in Index, HasLeaf(n, q, k, d)
        PROVE  \/ HasLeaf(m, q, k, d) /\ Leaf(n, q, k, d) = Leaf(m, q, k, d)
               \/ q = r /\ k = i /\ d = j /\ Leaf(n, q, k, d) = Entry(f, w)
    <3>1. CASE q = r /\ k = i /\ d = j
      BY <1>6, <3>1 DEF LeafSeen
    <3>2. CASE ~ (q = r /\ k = i /\ d = j)
      <4>1. HasLeaf(m, q, k, d)
        BY <1>6, <2>1, <3>2 DEF LeafSeen
      <4>. QED BY <1>6, <3>2, <4>1 DEF LeafSeen, HasLeaf
    <3>. QED BY <3>1, <3>2
  <2>2. Entry(f, w).frame = f /\ Entry(f, w).writable = w
    BY <1>9, EntryIs
  <2>5. ASSUME NEW k \in UserIndex, NEW d \in Index, HasLeaf(n, s, k, d)
        PROVE  ~ Leaf(n, s, k, d).writable /\ ElfAt(k, d)
    <3>1. CASE HasLeaf(m, s, k, d) /\ Leaf(n, s, k, d) = Leaf(m, s, k, d)
      BY <1>i, <2>3, <2>4, <3>1 DEF Program
    <3>2. CASE s = r /\ k = i /\ d = j /\ Leaf(n, s, k, d) = Entry(f, w)
      BY <1>3, <2>2, <3>2
    <3>. QED BY <1>3, <2>1, <2>5, <3>1, <3>2
  <2>6. ASSUME NEW k \in UserIndex, NEW d \in Index, HasLeaf(n, r, k, d)
        PROVE  IF Leaf(n, r, k, d).writable
               THEN r # s /\ ~ Reaches(n, s, Leaf(n, r, k, d).frame)
               ELSE ElfAt(k, d) /\ Reaches(n, s, Leaf(n, r, k, d).frame)
    <3>1. CASE HasLeaf(m, r, k, d) /\ Leaf(n, r, k, d) = Leaf(m, r, k, d)
      <4>1. IF Leaf(m, r, k, d).writable
            THEN r # s /\ ~ Reaches(m, s, Leaf(m, r, k, d).frame)
            ELSE ElfAt(k, d) /\ Reaches(m, s, Leaf(m, r, k, d).frame)
        BY <1>2, <1>i, <2>3, <2>4, <3>1 DEF Program
      <4>2. CASE r = s
        <5>1. Reaches(n, s, Leaf(n, r, k, d).frame)
          BY <2>6, <4>2 DEF Reaches
        <5>. QED BY <3>1, <4>1, <4>2, <5>1
      <4>3. CASE r # s
        <5>1. \A x : Reaches(n, s, x) <=> Reaches(m, s, x)
          BY <1>3, <1>11, <4>3, SameReach
        <5>. QED BY <3>1, <4>1, <5>1
      <4>. QED BY <4>2, <4>3
    <3>2. CASE k = i /\ d = j /\ Leaf(n, r, k, d) = Entry(f, w)
      <4>1. CASE w
        <5>1. \A x : Reaches(n, s, x) <=> Reaches(m, s, x)
          BY <1>3, <1>11, <4>1, SameReach
        <5>2. ~ Reaches(m, s, f)
          BY <1>3, <1>4, <1>9, ReachedIs
        <5>. QED BY <1>3, <2>2, <3>2, <4>1, <5>1, <5>2
      <4>2. CASE ~ w
        <5>1. r = s /\ ElfAt(i, j)
          BY <1>2, <1>i, <4>2
        <5>2. Reaches(n, s, Leaf(n, r, k, d).frame)
          BY <2>6, <5>1 DEF Reaches
        <5>. QED BY <2>2, <3>2, <4>2, <5>1, <5>2
      <4>. QED BY <4>1, <4>2
    <3>. QED BY <1>3, <2>1, <2>6, <3>1, <3>2
  <2>7. ASSUME NEW q \in RootsIn(c, b, t), NEW x \in Frame, Reaches(n, q, x)
        PROVE  n.data[x] \in {Zero, Image, t}
    <3>1. q \in R
      BY <1>1, RootFacts
    <3>2. CASE x = f
      BY <3>2
    <3>3. CASE Reaches(m, q, x)
      BY <1>12, <2>3, <3>1, <3>3 DEF Program
    <3>. QED BY <1>9, <2>7, <3>1, <3>2, <3>3
  <2>. QED BY <1>2, <1>i, <2>5, <2>6, <2>7 DEF Program
<1>. QED BY <1>1, <1>8, <1>10, <1>13, <1>14 DEF Spaces

-----------------------------------------------------------------------------
(* After a step that leaves page maps alone and writes, on behalf of t, to *)
(* pages the program reaches.                                              *)
LEMMA SpacesData ==
  ASSUME NEW m, NEW n \in Memory, NEW c, NEW b, NEW l, Owned(c, b, l), Spaces(m, c, b, l),
         NEW t \in Task, n.used = m.used, n.map = m.map,
         \A x \in Frame : n.data[x] # m.data[x] => /\ c[t] # KernelMap /\ Reaches(m, c[t], x)
                                                   /\ n.data[x] \in {Image, t}
  PROVE  Spaces(n, c, b, l)
<1>1. PICK R : R = RootSet(c, b, l)
  OBVIOUS
<1>2. Sound(m, R) /\ Separate(m, R, c, b) /\ \A u \in Task : Program(m, c, b, u)
  BY <1>1 DEF Spaces
<1>3. \A q, k : Has(n, q, k) <=> Has(m, q, k)
  BY DEF Has
<1>4. \A q, k, j : Leaf(n, q, k, j) = Leaf(m, q, k, j)
  BY DEF Leaf
<1>5. \A q, k, j : HasLeaf(n, q, k, j) <=> HasLeaf(m, q, k, j)
  BY <1>3, <1>4 DEF HasLeaf
<1>6. \A q, x : Reaches(n, q, x) <=> Reaches(m, q, x)
  BY <1>4, <1>5 DEF Reaches
<1>7. \A q, x : TableOf(n, q, x) <=> TableOf(m, q, x)
  BY <1>3 DEF TableOf
<1>8. Sound(n, R)
  <2>1. TablesOK(n, R)
    BY <1>2, <1>3 DEF Sound, TablesOK
  <2>2. LeavesOK(n, R)
    BY <1>2, <1>4, <1>5, <1>7 DEF Sound, LeavesOK
  <2>3. Covered(n, R)
    BY <1>2, <1>6, <1>7 DEF Sound, Covered
  <2>. QED BY <1>2, <2>1, <2>2, <2>3 DEF Sound
<1>9. Separate(n, R, c, b)
  BY <1>2, <1>6 DEF Separate
<1>10. ASSUME NEW u \in Task PROVE Program(n, c, b, u)
  <2>1. \A q \in RootsIn(c, b, u) : SameLeaves(m, n, q)
    BY <1>4, <1>5 DEF SameLeaves
  <2>2. ASSUME b[u] # KernelMap, NEW k \in UserIndex, NEW j \in Index, HasLeaf(n, b[u], k, j)
        PROVE  ~ Leaf(n, b[u], k, j).writable /\ ElfAt(k, j)
    BY <1>2, <1>4, <1>5, <2>2 DEF Program
  <2>3. ASSUME c[u] # KernelMap, NEW k \in UserIndex, NEW j \in Index, HasLeaf(n, c[u], k, j)
        PROVE  IF Leaf(n, c[u], k, j).writable
               THEN c[u] # b[u] /\ ~ Reaches(n, b[u], Leaf(n, c[u], k, j).frame)
               ELSE ElfAt(k, j) /\ Reaches(n, b[u], Leaf(n, c[u], k, j).frame)
    BY <1>2, <1>4, <1>5, <1>6, <2>3 DEF Program
  <2>4. ASSUME NEW q \in RootsIn(c, b, u), NEW x \in Frame, Reaches(n, q, x)
        PROVE  n.data[x] \in {Zero, Image, u}
    <3>1. Reaches(m, q, x) /\ m.data[x] \in {Zero, Image, u}
      BY <1>2, <1>6, <2>4 DEF Program
    <3>2. CASE n.data[x] = m.data[x]
      BY <3>1, <3>2
    <3>3. CASE n.data[x] # m.data[x]
      <4>1. c[t] # KernelMap /\ Reaches(m, c[t], x) /\ n.data[x] \in {Image, t}
        BY <3>3
      <4>2. c[t] \in R /\ c[t] \in RootsIn(c, b, t) /\ q \in R
        BY <1>1, <4>1, RootFacts
      <4>3. c[t] \in RootsIn(c, b, u)
        BY <1>2, <3>1, <4>1, <4>2 DEF Separate
      <4>4. t = u
        BY <4>2, <4>3, RootFacts
      <4>. QED BY <4>1, <4>4
    <3>. QED BY <3>2, <3>3
  <2>. QED BY <2>2, <2>3, <2>4 DEF Program
<1>. QED BY <1>1, <1>8, <1>9, <1>10 DEF Spaces

-----------------------------------------------------------------------------
(* SetNewPageMap.                                                          *)
EntrySet(m, n, x, i, f, w) ==
  /\ f \in Frame /\ f \notin m.used /\ f # x /\ n.used = m.used \cup {f}
  /\ n.map[f] = EmptyMap /\ n.map[x][i] = Entry(f, w)
  /\ \A k \in Index : k = i \/ n.map[x][k] = m.map[x][k]
  /\ \A y \in Frame : y = x \/ y = f \/ n.map[y] = m.map[y]
  /\ \A y \in Frame : y = f \/ n.data[y] = m.data[y]
  /\ n.data[f] = Zero

LEMMA NewEntry ==
  ASSUME NEW m \in Memory, NEW x \in Frame, x \in m.used, NEW i \in Index,
         NEW f \in Frame, f \notin m.used, NEW w \in BOOLEAN,
         NEW n, n = SetNewPageMap(m, x, i, f, w)
  PROVE  n \in Memory /\ EntrySet(m, n, x, i, f, w)
<1>1. PICK m2 : m2 = NewPageMap(m, f)
  OBVIOUS
<1>2. PICK e \in EntryType : e = Entry(f, w)
  BY EntryIs
<1>3. n = [m2 EXCEPT !.map[x][i] = e]
  BY <1>1, <1>2 DEF SetNewPageMap
<1>4. /\ m2 \in Memory /\ m2.used = m.used \cup {f}
      /\ m2.map = [m.map EXCEPT ![f] = EmptyMap]
      /\ m2.data = [m.data EXCEPT ![f] = Zero]
  BY <1>1, NewPageMapIs
<1>5. /\ m2 = [used |-> m2.used, map |-> m2.map, data |-> m2.data]
      /\ m2.used \in SUBSET Frame /\ m2.map \in [Frame \cup {KernelMap} -> MapType]
      /\ m2.data \in [Frame -> {Zero, Image, Kernel} \cup Task]
  BY <1>4 DEF Memory
<1>6. PICK mp : mp = [m2.map EXCEPT ![x] = [m2.map[x] EXCEPT ![i] = e]]
  OBVIOUS
<1>7. n = [used |-> m2.used, map |-> mp, data |-> m2.data]
  BY <1>3, <1>5, <1>6
<1>8. m2.map[x] \in [Index -> EntryType]
  BY <1>5 DEF MapType
<1>9. [m2.map[x] EXCEPT ![i] = e] \in MapType
  BY <1>8 DEF MapType
<1>10. mp \in [Frame \cup {KernelMap} -> MapType]
  BY <1>5, <1>6, <1>9
<1>11. n \in Memory
  BY <1>5, <1>7, <1>10 DEF Memory
<1>12. n.used = m.used \cup {f} /\ n.map = mp /\ n.data = [m.data EXCEPT ![f] = Zero]
  BY <1>4, <1>7
<1>13. f # x
  OBVIOUS
<1>14. m.map \in [Frame \cup {KernelMap} -> MapType] /\ m.data \in [Frame -> {Zero, Image, Kernel} \cup Task]
  BY DEF Memory
<1>15. m2.map[x] = m.map[x] /\ m2.map[f] = EmptyMap /\ \A y \in Frame : y = f \/ m2.map[y] = m.map[y]
  BY <1>4, <1>13, <1>14
<1>16. mp[x] = [m2.map[x] EXCEPT ![i] = e] /\ \A y \in Frame : y = x \/ mp[y] = m2.map[y]
  BY <1>5, <1>6
<1>17. mp[x][i] = e /\ \A k \in Index : k = i \/ mp[x][k] = m2.map[x][k]
  BY <1>8, <1>16
<1>18. n.data[f] = Zero /\ \A y \in Frame : y = f \/ n.data[y] = m.data[y]
  BY <1>12, <1>14
<1>19. EntrySet(m, n, x, i, f, w)
  BY <1>2, <1>12, <1>13, <1>15, <1>16, <1>17, <1>18 DEF EntrySet
<1>. QED BY <1>11, <1>19

(* The roots other than r have tables behind the same entries.             *)
OthersKept(m, n, R, r) == \A q \in R : q # r => \A k : Has(n, q, k) <=> Has(m, q, k)

LEMMA KeptTrans ==
  ASSUME NEW m, NEW n, NEW o, NEW R, NEW r, OthersKept(m, n, R, r), OthersKept(n, o, R, r)
  PROVE  OthersKept(m, o, R, r)
BY DEF OthersKept

LEMMA KeptSame ==
  ASSUME NEW m, NEW n, NEW R, NEW r, n.map = m.map
  PROVE  OthersKept(m, n, R, r)
BY DEF OthersKept, Has

(* A table for a page.                                                     *)
LEMMA SetupUpper ==
  ASSUME NEW m, NEW c, NEW b, NEW l, Owned(c, b, l), Spaces(m, c, b, l),
         NEW t \in Task, c[t] # KernelMap, NEW i \in UserIndex, ~ Has(m, c[t], i),
         NEW f \in Frame, f \notin m.used, NEW n, n = SetNewPageMap(m, c[t], i, f, TRUE)
  PROVE  /\ n \in Memory /\ Spaces(n, c, b, l)
         /\ Has(n, c[t], i) /\ \A j : ~ HasLeaf(n, c[t], i, j)
         /\ OthersKept(m, n, RootSet(c, b, l), c[t])
<1>1. PICK R : R = RootSet(c, b, l)
  OBVIOUS
<1>2. PICK r : r = c[t]
  OBVIOUS
<1>3. r \in R /\ r \in Frame
  BY <1>1, <1>2, RootFacts
<1>4. Sound(m, R) /\ ~ Has(m, r, i)
  BY <1>1, <1>2 DEF Spaces
<1>5. m \in Memory /\ r \in m.used /\ i \in Index
  BY <1>3, <1>4, RootsAreFrames, Halves
<1>6. n = SetNewPageMap(m, r, i, f, TRUE)
  BY <1>2
<1>7. n \in Memory /\ EntrySet(m, n, r, i, f, TRUE)
  BY <1>3, <1>5, <1>6, NewEntry
<1>8. TableAdded(m, n, R, r, i, f, EmptyMap)
  <2>1. R \subseteq m.used /\ R \subseteq Frame
    BY <1>4, RootsAreFrames
  <2>2. \A q \in R, k \in UserIndex : (q = r /\ k = i) \/ n.map[q][k] = m.map[q][k]
    <3> SUFFICES ASSUME NEW q \in R, NEW k \in UserIndex, ~ (q = r /\ k = i)
                 PROVE  n.map[q][k] = m.map[q][k]
      OBVIOUS
    <3>1. q \in Frame /\ q # f /\ k \in Index
      BY <2>1, Halves
    <3>. QED BY <1>7, <3>1 DEF EntrySet
  <2>. QED BY <1>3, <1>7, <2>2 DEF EntrySet, TableAdded
<1>9. TableSeen(m, n, R, r, i, f, EmptyMap)
  BY <1>3, <1>4, <1>8, TableView
<1>10. Spaces(n, c, b, l)
  BY <1>1, <1>2, <1>4, <1>7, <1>8, SpacesTable
<1>11. Has(n, r, i)
  BY <1>3, <1>9 DEF TableSeen
<1>12. ASSUME NEW j PROVE ~ HasLeaf(n, r, i, j)
  <2>1. j \in Index => EmptyMap[j] = NotPresent
    BY EntryIs
  <2>2. Leaf(n, r, i, j) = EmptyMap[j]
    BY <1>9 DEF TableSeen
  <2>. QED BY <2>1, <2>2 DEF HasLeaf
<1>13. OthersKept(m, n, R, r)
  BY <1>9 DEF OthersKept, TableSeen
<1>. QED BY <1>1, <1>2, <1>7, <1>10, <1>11, <1>12, <1>13

(* The leaf of a page.                                                     *)
LEMMA SetupLeaf ==
  ASSUME NEW m, NEW c, NEW b, NEW l, Owned(c, b, l), Spaces(m, c, b, l),
         NEW t \in Task, c[t] # KernelMap, NEW i, Has(m, c[t], i), NEW j \in Index,
         ~ HasLeaf(m, c[t], i, j), NEW f \in Frame, f \notin m.used,
         NEW w \in BOOLEAN, w => c[t] # b[t], ~ w => c[t] = b[t] /\ ElfAt(i, j),
         NEW n, n = SetNewPageMap(m, m.map[c[t]][i].frame, j, f, w)
  PROVE  /\ n \in Memory /\ Spaces(n, c, b, l) /\ HasLeaf(n, c[t], i, j)
         /\ OthersKept(m, n, RootSet(c, b, l), c[t])
<1>1. PICK R : R = RootSet(c, b, l)
  OBVIOUS
<1>2. PICK r : r = c[t]
  OBVIOUS
<1>3. r \in R /\ r \in Frame
  BY <1>1, <1>2, RootFacts
<1>4. Sound(m, R) /\ Has(m, r, i) /\ ~ HasLeaf(m, r, i, j)
  BY <1>1, <1>2 DEF Spaces
<1>5. PICK x : x = m.map[r][i].frame
  OBVIOUS
<1>6. m \in Memory /\ x \in m.used /\ x \in Frame /\ x \notin R /\ i \in UserIndex
  BY <1>3, <1>4, <1>5, RootsAreFrames, BehindEntry
<1>7. n = SetNewPageMap(m, x, j, f, w)
  BY <1>2, <1>5
<1>8. n \in Memory /\ EntrySet(m, n, x, j, f, w)
  BY <1>6, <1>7, NewEntry
<1>9. LeafAdded(m, n, R, r, i, j, f, w)
  <2>1. R \subseteq m.used /\ R \subseteq Frame
    BY <1>4, RootsAreFrames
  <2>2. \A q \in R, k \in UserIndex : n.map[q][k] = m.map[q][k]
    BY <1>6, <1>8, <2>1 DEF EntrySet
  <2>. QED BY <1>5, <1>8, <2>2 DEF EntrySet, LeafAdded
<1>10. LeafSeen(m, n, R, r, i, j, f, w)
  BY <1>3, <1>4, <1>9, LeafView
<1>11. Spaces(n, c, b, l)
  <2>1. n.data[f] \in {Zero, Image, t}
    BY <1>8 DEF EntrySet
  <2>2. LeafAdded(m, n, RootSet(c, b, l), c[t], i, j, f, w) /\ ~ HasLeaf(m, c[t], i, j)
    BY <1>1, <1>2, <1>4, <1>9
  <2>. QED BY <1>8, <2>1, <2>2, SpacesLeaf
<1>12. HasLeaf(n, r, i, j)
  BY <1>3, <1>10 DEF LeafSeen
<1>13. OthersKept(m, n, R, r)
  BY <1>10 DEF OthersKept, LeafSeen
<1>. QED BY <1>1, <1>2, <1>8, <1>11, <1>12, <1>13

(* What the hardware sees of a page of the user half.                      *)
LEMMA MappedIs ==
  ASSUME NEW m, NEW r, NEW p \in UserPage
  PROVE  /\ Mapped(m, r, p) <=> HasLeaf(m, r, Upper(p), Lower(p))
         /\ LeafOf(m, r, p) = Leaf(m, r, Upper(p), Lower(p))
         /\ Present(m, r, Upper(p)) <=> Has(m, r, Upper(p))
<1>1. Upper(p) \in UserIndex /\ Lower(p) \in Index
  BY PageAt
<1>. QED BY <1>1 DEF Mapped, HasLeaf, Has, Present, LeafOf, Leaf

(* One frame of SetupPageMap: the table of the page, or the page.          *)
LEMMA SetupPageSpaces ==
  ASSUME NEW m, NEW c, NEW b, NEW l, Owned(c, b, l), Spaces(m, c, b, l),
         NEW t \in Task, c[t] # KernelMap, NEW p \in UserPage, ~ Mapped(m, c[t], p),
         NEW f \in Frame, f \notin m.used, NEW w \in BOOLEAN,
         w => c[t] # b[t], ~ w => c[t] = b[t] /\ p < DPagingBegin,
         NEW n, n = SetupPageMap(m, c[t], p, f, w)
  PROVE  /\ n \in Memory /\ Spaces(n, c, b, l)
         /\ Present(n, c[t], Upper(p)) /\ (Mapped(n, c[t], p) <=> Present(m, c[t], Upper(p)))
         /\ OthersKept(m, n, RootSet(c, b, l), c[t])
<1>1. PICK i \in UserIndex : i = Upper(p)
  BY PageAt
<1>2. PICK j \in Index : j = Lower(p)
  BY PageAt
<1>3. ~ HasLeaf(m, c[t], i, j) /\ (Present(m, c[t], Upper(p)) <=> Has(m, c[t], i))
  BY <1>1, <1>2, MappedIs
<1>4. CASE Has(m, c[t], i)
  <2>1. n = SetNewPageMap(m, m.map[c[t]][i].frame, j, f, w)
    BY <1>1, <1>2, <1>3, <1>4 DEF SetupPageMap
  <2>2. ~ w => c[t] = b[t] /\ ElfAt(i, j)
    <3>1. p < DPagingBegin => p \in ElfPage..(DPagingBegin - 1)
      BY Layout DEF UserPage
    <3>. QED BY <1>1, <1>2, <3>1 DEF ElfAt
  <2>3. /\ n \in Memory /\ Spaces(n, c, b, l) /\ HasLeaf(n, c[t], i, j)
        /\ OthersKept(m, n, RootSet(c, b, l), c[t])
    BY <1>3, <1>4, <2>1, <2>2, SetupLeaf
  <2>4. Has(n, c[t], i)
    BY <2>3 DEF HasLeaf
  <2>. QED BY <1>1, <1>2, <1>3, <1>4, <2>3, <2>4, MappedIs
<1>5. CASE ~ Has(m, c[t], i)
  <2>1. n = SetNewPageMap(m, c[t], i, f, TRUE)
    BY <1>1, <1>2, <1>3, <1>5 DEF SetupPageMap
  <2>2. /\ n \in Memory /\ Spaces(n, c, b, l)
        /\ Has(n, c[t], i) /\ ~ HasLeaf(n, c[t], i, j)
        /\ OthersKept(m, n, RootSet(c, b, l), c[t])
    BY <1>5, <2>1, SetupUpper
  <2>. QED BY <1>1, <1>2, <1>3, <1>5, <2>2, MappedIs
<1>. QED BY <1>4, <1>5

(* SetupPageMaps for one page in the page fault handler.                   *)
LEMMA DemandPageSpaces ==
  ASSUME NEW m, NEW c, NEW b, NEW l, Owned(c, b, l), Spaces(m, c, b, l),
         NEW t \in Task, c[t] # KernelMap, c[t] # b[t], NEW p \in UserPage, ~ Mapped(m, c[t], p),
         NEW r, r = SetupDemandPage(m, c[t], p)
  PROVE  /\ Spaces(r.mem, c, b, l) /\ OthersKept(m, r.mem, RootSet(c, b, l), c[t])
         /\ r.ok => Mapped(r.mem, c[t], p)
<1>1. PICK m2 : m2 = IF Present(m, c[t], Upper(p)) THEN m
                     ELSE SetupPageMap(m, c[t], p, NewFrame(m), TRUE)
  OBVIOUS
<1>2. r = IF ~ Present(m, c[t], Upper(p)) /\ FreeFrames(m) = {} THEN Result(m, FALSE)
          ELSE IF FreeFrames(m2) = {} THEN Result(m2, FALSE)
          ELSE Result(SetupPageMap(m2, c[t], p, NewFrame(m2), TRUE), TRUE)
  BY <1>1 DEF SetupDemandPage
<1>3. /\ m \in Memory /\ OthersKept(m, m, RootSet(c, b, l), c[t])
      /\ \A x, y : Result(x, y).mem = x /\ Result(x, y).ok = y
  BY KeptSame DEF Spaces, Sound, Result
<1>4. CASE ~ Present(m, c[t], Upper(p)) /\ FreeFrames(m) = {}
  <2>1. r = Result(m, FALSE)
    BY <1>2, <1>4
  <2>2. r.mem = m /\ ~ r.ok
    BY <2>1 DEF Result
  <2>. QED BY <1>3, <2>2
<1>5. CASE Present(m, c[t], Upper(p)) \/ FreeFrames(m) # {}
  <2>1. /\ m2 \in Memory /\ Spaces(m2, c, b, l) /\ OthersKept(m, m2, RootSet(c, b, l), c[t])
        /\ Present(m2, c[t], Upper(p)) /\ ~ Mapped(m2, c[t], p)
    <3>1. CASE Present(m, c[t], Upper(p))
      BY <1>1, <1>3, <3>1
    <3>2. CASE ~ Present(m, c[t], Upper(p))
      <4>1. PICK f : f = NewFrame(m)
        OBVIOUS
      <4>2. f \in Frame /\ f \notin m.used /\ m2 = SetupPageMap(m, c[t], p, f, TRUE)
        BY <1>1, <1>3, <1>5, <3>2, <4>1, NewFrameIs
      <4>. QED BY <3>2, <4>2, SetupPageSpaces
    <3>. QED BY <3>1, <3>2
  <2>2. CASE FreeFrames(m2) = {}
    <3>1. r = Result(m2, FALSE)
      BY <1>2, <1>5, <2>2
    <3>2. r.mem = m2 /\ ~ r.ok
      BY <3>1 DEF Result
    <3>. QED BY <2>1, <3>2
  <2>3. CASE FreeFrames(m2) # {}
    <3>1. PICK f : f = NewFrame(m2)
      OBVIOUS
    <3>2. PICK n : n = SetupPageMap(m2, c[t], p, f, TRUE)
      OBVIOUS
    <3>3. f \in Frame /\ f \notin m2.used /\ r.mem = n
      BY <1>2, <1>3, <1>5, <2>1, <2>3, <3>1, <3>2, NewFrameIs
    <3>4. /\ Spaces(n, c, b, l) /\ Mapped(n, c[t], p)
          /\ OthersKept(m2, n, RootSet(c, b, l), c[t])
      BY <2>1, <3>2, <3>3, SetupPageSpaces
    <3>5. OthersKept(m, n, RootSet(c, b, l), c[t])
      BY <2>1, <3>4, KeptTrans
    <3>. QED BY <3>3, <3>4, <3>5
  <2>. QED BY <2>2, <2>3
<1>. QED BY <1>4, <1>5

-----------------------------------------------------------------------------
(* CopyPageMaps.                                                           *)
LEMMA ReadOnlyIs ==
  ASSUME NEW map \in MapType
  PROVE  /\ ReadOnly(map) \in MapType
         /\ \A j \in Index : ReadOnly(map)[j] # NotPresent =>
              map[j] # NotPresent /\ ReadOnly(map)[j] = Entry(map[j].frame, FALSE)
<1>1. \A j \in Index : map[j] \in EntryType
  BY DEF MapType
<1>2. \A j \in Index : ReadOnly(map)[j] = IF map[j] = NotPresent THEN NotPresent
                                          ELSE Entry(map[j].frame, FALSE)
  BY DEF ReadOnly
<1>3. \A j \in Index : map[j] # NotPresent => Entry(map[j].frame, FALSE) \in EntryType
  BY <1>1, EntryIs
<1>4. \A j \in Index : ReadOnly(map)[j] \in EntryType
  BY <1>2, <1>3, EntryIs
<1>5. ReadOnly(map) = [j \in Index |-> ReadOnly(map)[j]]
  BY DEF ReadOnly
<1>6. ReadOnly(map) \in MapType
  BY <1>4, <1>5 DEF MapType
<1>. QED BY <1>2, <1>6

LEMMA CopyPageMapSpaces ==
  ASSUME NEW m, NEW c, NEW b, NEW l, Owned(c, b, l), Spaces(m, c, b, l),
         NEW t \in Task, c[t] # KernelMap, c[t] # b[t], NEW i \in UserIndex, ~ Has(m, c[t], i),
         Has(m, b[t], i), NEW f \in Frame, f \notin m.used,
         NEW n, n = CopyPageMap(m, c[t], b[t], i, f)
  PROVE  n \in Memory /\ Spaces(n, c, b, l) /\ OthersKept(m, n, RootSet(c, b, l), c[t])
<1>1. PICK R : R = RootSet(c, b, l)
  OBVIOUS
<1>2. PICK r : r = c[t]
  OBVIOUS
<1>3. PICK s : s = b[t]
  OBVIOUS
<1>4. r \in R /\ r \in Frame /\ s \in R /\ s \in Frame /\ r # s
  BY <1>1, <1>2, <1>3, RootFacts
<1>5. Sound(m, R) /\ m \in Memory /\ r \in m.used /\ s \in m.used
  BY <1>1, <1>4, RootsAreFrames DEF Spaces
<1>6. PICK m2 : m2 = NewPageMap(m, f)
  OBVIOUS
<1>8. PICK x : x = m.map[s][i].frame
  OBVIOUS
<1>9. PICK g : g = ReadOnly(m.map[x])
  OBVIOUS
<1>10. PICK e : e = Entry(f, m.map[s][i].writable)
  OBVIOUS
<1>11. n = [m2 EXCEPT !.map[r][i] = e, !.map[f] = g]
  BY <1>2, <1>3, <1>6, <1>8, <1>9, <1>10 DEF CopyPageMap
<1>12. /\ m2 \in Memory /\ m2.used = m.used \cup {f}
       /\ m2.map = [m.map EXCEPT ![f] = EmptyMap]
       /\ m2.data = [m.data EXCEPT ![f] = Zero]
  BY <1>5, <1>6, NewPageMapIs
<1>13. Has(m, s, i) /\ m.map[s][i] # NotPresent
  BY <1>3 DEF Has
<1>14. x \in Frame /\ m.map[s][i].writable = TRUE
  <2>1. m.map[s][i].frame \in Frame /\ m.map[s][i].writable /\ m.map[s][i] \in EntryType
    BY <1>4, <1>5, <1>13, BehindEntry, MapEntry, Halves
  <2>2. m.map[s][i].writable \in BOOLEAN
    BY <1>13, <2>1, EntryIs
  <2>. QED BY <1>8, <2>1, <2>2
<1>15. f \in Frame /\ f \notin m.used /\ f # r /\ i \in Index
  BY <1>5, Halves
<1>16. e = Entry(f, TRUE) /\ e \in EntryType
  BY <1>10, <1>14, <1>15, EntryIs
<1>17. m.map[x] \in MapType
  BY <1>5, <1>14 DEF Memory
<1>18. g \in MapType
  BY <1>9, <1>17, ReadOnlyIs
<1>19. /\ m2 = [used |-> m2.used, map |-> m2.map, data |-> m2.data]
      /\ m2.used \in SUBSET Frame /\ m2.map \in [Frame \cup {KernelMap} -> MapType]
      /\ m2.data \in [Frame -> {Zero, Image, Kernel} \cup Task]
      /\ m2.map[r] \in [Index -> EntryType]
  BY <1>4, <1>12 DEF Memory, MapType
<1>20. PICK mp : mp = [m2.map EXCEPT ![r] = [m2.map[r] EXCEPT ![i] = e], ![f] = g]
  OBVIOUS
<1>21. n = [used |-> m2.used, map |-> mp, data |-> m2.data]
  <2>1. n = [m2 EXCEPT !.map[r][i] = e, !.map[f] = g]
    BY <1>11
  <2>. QED BY <1>19, <1>20, <2>1
<1>22. [m2.map[r] EXCEPT ![i] = e] \in MapType
  BY <1>15, <1>16, <1>19 DEF MapType
<1>23. mp \in [Frame \cup {KernelMap} -> MapType]
  BY <1>15, <1>18, <1>19, <1>20, <1>22
<1>24. n \in Memory
  BY <1>19, <1>21, <1>23 DEF Memory
<1>25. /\ mp[f] = g /\ mp[r] = [m2.map[r] EXCEPT ![i] = e]
       /\ \A y \in Frame : y = r \/ y = f \/ mp[y] = m2.map[y]
  BY <1>4, <1>15, <1>19, <1>20
<1>26. mp[r][i] = e /\ \A k \in Index : k = i \/ mp[r][k] = m2.map[r][k]
  BY <1>15, <1>19, <1>25
<1>27. /\ m.map \in [Frame \cup {KernelMap} -> MapType]
       /\ m.data \in [Frame -> {Zero, Image, Kernel} \cup Task]
  BY <1>5 DEF Memory
<1>28. /\ \A y \in Frame : y = f \/ m2.map[y] = m.map[y]
       /\ \A y \in Frame : y = f \/ m2.data[y] = m.data[y]
       /\ m2.used = m.used \cup {f}
  BY <1>12, <1>15, <1>27
<1>29. TableAdded(m, n, R, r, i, f, g)
  <2>1. n.used = m.used \cup {f} /\ n.map = mp /\ n.data = m2.data
    BY <1>21, <1>28
  <2>2. R \subseteq m.used /\ R \subseteq Frame
    BY <1>5, RootsAreFrames
  <2>3. \A q \in R, k \in UserIndex : (q = r /\ k = i) \/ mp[q][k] = m.map[q][k]
    <3> SUFFICES ASSUME NEW q \in R, NEW k \in UserIndex, ~ (q = r /\ k = i)
                 PROVE  mp[q][k] = m.map[q][k]
      OBVIOUS
    <3>1. q \in Frame /\ q # f /\ k \in Index
      BY <1>15, <2>2, Halves
    <3>2. CASE q = r
      BY <1>26, <1>28, <3>1, <3>2
    <3>3. CASE q # r
      BY <1>25, <1>28, <3>1, <3>3
    <3>. QED BY <3>2, <3>3
  <2>4. \A y \in Frame : y \in R \/ y = f \/ mp[y] = m.map[y]
    BY <1>4, <1>25, <1>28
  <2>. QED BY <1>15, <1>16, <1>25, <1>26, <1>28, <2>1, <2>3, <2>4 DEF TableAdded
<1>30. ASSUME NEW j \in Index, g[j] # NotPresent
       PROVE  HasLeaf(m, s, i, j) /\ g[j] = Entry(Leaf(m, s, i, j).frame, FALSE)
  <2>1. m.map[x][j] # NotPresent /\ g[j] = Entry(m.map[x][j].frame, FALSE)
    BY <1>9, <1>17, <1>30, ReadOnlyIs
  <2>2. Leaf(m, s, i, j) = m.map[x][j]
    BY <1>8 DEF Leaf
  <2>. QED BY <1>13, <2>1, <2>2 DEF HasLeaf
<1>31. Spaces(n, c, b, l)
  <2>1. TableAdded(m, n, RootSet(c, b, l), c[t], i, f, g)
    BY <1>1, <1>2, <1>29
  <2>2. \A j \in Index : g[j] # NotPresent =>
          HasLeaf(m, b[t], i, j) /\ g[j] = Entry(Leaf(m, b[t], i, j).frame, FALSE)
    BY <1>3, <1>30
  <2>. QED BY ZenonT(60), <1>24, <2>1, <2>2, SpacesCopy
<1>32. OthersKept(m, n, R, r)
  <2>1. TableSeen(m, n, R, r, i, f, g)
    BY <1>2, <1>4, <1>5, <1>29, TableView
  <2>. QED BY <1>4, <2>1 DEF TableSeen, OthersKept
<1>. QED BY <1>1, <1>2, <1>24, <1>31, <1>32

-----------------------------------------------------------------------------
(* CopyOnePage.                                                            *)
LEMMA CopyOnePageSpaces ==
  ASSUME NEW m, NEW c, NEW b, NEW l, Owned(c, b, l), Spaces(m, c, b, l),
         NEW t \in Task, c[t] # KernelMap, c[t] # b[t], NEW p \in UserPage,
         HasLeaf(m, c[t], Upper(p), Lower(p)), ~ Leaf(m, c[t], Upper(p), Lower(p)).writable,
         NEW o, o = CopyOnePage(m, c[t], p)
  PROVE  /\ Spaces(o.mem, c, b, l) /\ OthersKept(m, o.mem, RootSet(c, b, l), c[t])
         /\ o.ok => HasLeaf(o.mem, c[t], Upper(p), Lower(p))
<1>1. PICK R : R = RootSet(c, b, l)
  OBVIOUS
<1>2. PICK r : r = c[t]
  OBVIOUS
<1>3. r \in R /\ r \in Frame
  BY <1>1, <1>2, RootFacts
<1>4. Sound(m, R) /\ m \in Memory /\ Program(m, c, b, t)
  BY <1>1, RootsAreFrames DEF Spaces
<1>5. PICK i \in UserIndex : i = Upper(p)
  BY PageAt
<1>6. PICK j \in Index : j = Lower(p)
  BY PageAt
<1>7. Has(m, r, i) /\ HasLeaf(m, r, i, j) /\ ~ Leaf(m, r, i, j).writable
  BY <1>2, <1>5, <1>6 DEF HasLeaf
<1>8. PICK x : x = m.map[r][i].frame
  OBVIOUS
<1>9. x \in Frame /\ x \in m.used /\ x \notin R
  BY <1>3, <1>4, <1>7, <1>8, BehindEntry
<1>10. PICK y \in Frame : y = Leaf(m, r, i, j).frame
  BY <1>3, <1>4, <1>7, BehindLeaf
<1>11. m.data[y] \in {Zero, Image, t}
  <2>1. Reaches(m, r, y) /\ r \in RootsIn(c, b, t)
    BY <1>2, <1>3, <1>4, <1>7, <1>10, BehindLeaf, RootFacts
  <2>. QED BY <1>4, <2>1 DEF Program
<1>12. PICK f : f = NewFrame(m)
  OBVIOUS
<1>13. PICK m2 : m2 = NewPageMap(m, f)
  OBVIOUS
<1>14. PICK e : e = Entry(f, TRUE)
  OBVIOUS
<1>15. PICK n : n = [m2 EXCEPT !.data[f] = m.data[y], !.map[x][j] = e]
  OBVIOUS
<1>17. o = IF FreeFrames(m) = {} THEN Result(m, FALSE) ELSE Result(n, TRUE)
  <2>1. LeafOf(m, c[t], p) = Leaf(m, r, i, j)
    BY <1>2, <1>5, <1>6 DEF LeafOf, Leaf
  <2>. QED BY <1>2, <1>5, <1>6, <1>8, <1>10, <1>12, <1>13, <1>14, <1>15, <2>1 DEF CopyOnePage
<1>20. CASE FreeFrames(m) = {}
  <2>1. o = Result(m, FALSE)
    BY <1>17, <1>20
  <2>2. o.mem = m /\ ~ o.ok
    BY <2>1 DEF Result
  <2>3. OthersKept(m, m, RootSet(c, b, l), c[t])
    BY DEF OthersKept
  <2>. QED BY <2>2, <2>3
<1>21. CASE FreeFrames(m) # {}
  <2>1. f \in Frame /\ f \notin m.used /\ f # x
    BY <1>4, <1>9, <1>12, <1>21, NewFrameIs
  <2>0. /\ m2 \in Memory /\ m2.used = m.used \cup {f}
        /\ m2.map = [m.map EXCEPT ![f] = EmptyMap]
        /\ m2.data = [m.data EXCEPT ![f] = Zero]
    BY <1>4, <1>13, <2>1, NewPageMapIs
  <2>2. e \in EntryType
    BY <1>14, <2>1, EntryIs
  <2>3. /\ m2 = [used |-> m2.used, map |-> m2.map, data |-> m2.data]
        /\ m2.used \in SUBSET Frame /\ m2.map \in [Frame \cup {KernelMap} -> MapType]
        /\ m2.data \in [Frame -> {Zero, Image, Kernel} \cup Task]
        /\ m2.map[x] \in [Index -> EntryType]
    BY <1>9, <2>0 DEF Memory, MapType
  <2>4. PICK mp : mp = [m2.map EXCEPT ![x] = [m2.map[x] EXCEPT ![j] = e]]
    OBVIOUS
  <2>5. PICK dt : dt = [m2.data EXCEPT ![f] = m.data[y]]
    OBVIOUS
  <2>6. n = [used |-> m2.used, map |-> mp, data |-> dt]
    <3>1. n = [m2 EXCEPT !.data[f] = m.data[y], !.map[x][j] = e]
      BY <1>15
    <3>. QED BY <2>3, <2>4, <2>5, <3>1
  <2>7. [m2.map[x] EXCEPT ![j] = e] \in MapType
    BY <2>2, <2>3 DEF MapType
  <2>8. mp \in [Frame \cup {KernelMap} -> MapType]
    BY <1>9, <2>3, <2>4, <2>7
  <2>9. dt \in [Frame -> {Zero, Image, Kernel} \cup Task]
    BY <1>11, <2>1, <2>3, <2>5
  <2>10. n \in Memory
    BY <2>3, <2>6, <2>8, <2>9 DEF Memory
  <2>11. /\ mp[x] = [m2.map[x] EXCEPT ![j] = e]
         /\ \A z \in Frame : z = x \/ mp[z] = m2.map[z]
    BY <1>9, <2>3, <2>4
  <2>12. mp[x][j] = e /\ \A k \in Index : k = j \/ mp[x][k] = m2.map[x][k]
    BY <2>3, <2>11
  <2>13. m.map \in [Frame \cup {KernelMap} -> MapType] /\ m.data \in [Frame -> {Zero, Image, Kernel} \cup Task]
    BY <1>4 DEF Memory
  <2>14. /\ \A z \in Frame : z = f \/ m2.map[z] = m.map[z]
         /\ \A z \in Frame : z = f \/ m2.data[z] = m.data[z]
    BY <2>0, <2>1, <2>13
  <2>15. dt[f] = m.data[y] /\ \A z \in Frame : z = f \/ dt[z] = m.data[z]
    BY <2>1, <2>3, <2>5, <2>14
  <2>16. LeafAdded(m, n, R, r, i, j, f, TRUE)
    <3>1. n.used = m.used \cup {f} /\ n.map = mp /\ n.data = dt
      BY <2>0, <2>6
    <3>2. R \subseteq m.used /\ R \subseteq Frame
      BY <1>4, RootsAreFrames
    <3>3. \A q \in R, k \in UserIndex : mp[q][k] = m.map[q][k]
      BY <1>9, <2>1, <2>11, <2>14, <3>2
    <3>4. \A k \in Index : k = j \/ mp[x][k] = m.map[x][k]
      BY <1>9, <2>1, <2>12, <2>14
    <3>5. \A z \in Frame : z \in R \/ z = x \/ z = f \/ mp[z] = m.map[z]
      BY <2>11, <2>14
    <3>. QED BY <1>8, <1>14, <2>1, <2>12, <2>15, <3>1, <3>3, <3>4, <3>5 DEF LeafAdded
  <2>17. n.data[f] \in {Zero, Image, t}
    BY <1>11, <2>6, <2>15
  <2>18. Spaces(n, c, b, l)
    <3>1. /\ LeafAdded(m, n, RootSet(c, b, l), c[t], i, j, f, TRUE) /\ Has(m, c[t], i)
          /\ ~ Leaf(m, c[t], i, j).writable
      BY <1>1, <1>2, <1>7, <2>16
    <3>. QED BY <2>10, <2>17, <3>1, SpacesLeaf
  <2>19. HasLeaf(n, r, i, j) /\ OthersKept(m, n, R, r)
    <3>1. LeafSeen(m, n, R, r, i, j, f, TRUE)
      BY <1>3, <1>4, <1>7, <2>16, LeafView
    <3>. QED BY <3>1 DEF LeafSeen, OthersKept
  <2>20. o = Result(n, TRUE)
    BY <1>17, <1>21
  <2>21. o.mem = n
    BY <2>20 DEF Result
  <2>. QED BY <1>1, <1>2, <1>5, <1>6, <2>18, <2>19, <2>21
<1>. QED BY <1>20, <1>21

-----------------------------------------------------------------------------
(* CleanPageMaps.                                                          *)
Freed(m, r, x) ==
  \/ TableOf(m, r, x)
  \/ \E i \in UserIndex, j \in Index :
       HasLeaf(m, r, i, j) /\ Leaf(m, r, i, j).writable /\ Leaf(m, r, i, j).frame = x

LEMMA CleanIs ==
  ASSUME NEW m, NEW R, Sound(m, R), NEW r \in R, NEW n, n = CleanPageMaps(m, r)
  PROVE  /\ n \in Memory /\ n.data = m.data
         /\ \A x : x \in n.used <=> x \in m.used /\ ~ Freed(m, r, x)
         /\ \A i \in UserIndex : n.map[r][i] = NotPresent
         /\ \A x \in Frame : x = r \/ TableOf(m, r, x) \/ n.map[x] = m.map[x]
<1> DEFINE upper  == {i \in UserIndex : Present(m, r, i)}
           tables == {m.map[r][i].frame : i \in upper}
           leaves == UNION {{m.map[x][j] : j \in Index} : x \in tables}
           freed  == {e.frame : e \in {l \in leaves : l.writable}}
                       \cup {m.map[r][i].frame : i \in {k \in upper : m.map[r][k].writable}}
           mp == [f \in DOMAIN m.map |->
                    CASE f = r -> [i \in Index |-> IF i \in UserIndex THEN NotPresent
                                                   ELSE m.map[r][i]]
                      [] f \in tables -> EmptyMap
                      [] OTHER -> m.map[f]]
<1>1. n = [m EXCEPT !.used = @ \ freed, !.map = mp]
  BY DEF CleanPageMaps
<1>2. /\ m \in Memory /\ r \in Frame /\ R \subseteq m.used
      /\ m = [used |-> m.used, map |-> m.map, data |-> m.data]
      /\ m.used \in SUBSET Frame /\ m.map \in [Frame \cup {KernelMap} -> MapType]
      /\ m.data \in [Frame -> {Zero, Image, Kernel} \cup Task]
      /\ m.map[r] \in [Index -> EntryType]
  <2>1. m \in Memory /\ r \in Frame /\ R \subseteq m.used
    BY RootsAreFrames
  <2>2. /\ m = [used |-> m.used, map |-> m.map, data |-> m.data]
        /\ m.used \in SUBSET Frame /\ m.map \in [Frame \cup {KernelMap} -> MapType]
        /\ m.data \in [Frame -> {Zero, Image, Kernel} \cup Task]
    BY <2>1 DEF Memory
  <2>3. m.map[r] \in [Index -> EntryType]
    BY <2>1, <2>2 DEF MapType
  <2>. QED BY <2>1, <2>2, <2>3
<1>3. \A i : i \in upper <=> Has(m, r, i)
  BY DEF Has, Present
<1>4. \A x : x \in tables <=> TableOf(m, r, x)
  BY DEF Has, Present, TableOf
<1>5. ASSUME NEW x PROVE x \in freed <=> Freed(m, r, x)
  <2>1. ASSUME NEW e \in leaves, e.writable, e.frame = x PROVE Freed(m, r, x)
    <3>1. PICK y \in tables : e \in {m.map[y][j] : j \in Index}
      BY <2>1
    <3>2. PICK j \in Index : e = m.map[y][j]
      BY <3>1
    <3>3. PICK i \in UserIndex : Has(m, r, i) /\ m.map[r][i].frame = y
      BY <1>4, <3>1 DEF TableOf
    <3>4. e = Leaf(m, r, i, j)
      BY <3>2, <3>3 DEF Leaf
    <3>5. e # NotPresent
      BY <2>1, EntryIs
    <3>. QED BY <2>1, <3>3, <3>4, <3>5 DEF Freed, HasLeaf
  <2>2. ASSUME NEW i \in upper, m.map[r][i].frame = x PROVE Freed(m, r, x)
    BY <2>2 DEF Freed, TableOf, Has, Present
  <2>3. ASSUME TableOf(m, r, x) PROVE x \in freed
    <3>1. PICK i \in UserIndex : Has(m, r, i) /\ m.map[r][i].frame = x
      BY <2>3 DEF TableOf
    <3>2. m.map[r][i].writable /\ i \in upper
      BY <1>3, <3>1, BehindEntry
    <3>. QED BY <3>1, <3>2
  <2>4. ASSUME NEW i \in UserIndex, NEW j \in Index, HasLeaf(m, r, i, j),
               Leaf(m, r, i, j).writable, Leaf(m, r, i, j).frame = x
        PROVE  x \in freed
    <3>1. Has(m, r, i)
      BY <2>4 DEF HasLeaf
    <3>2. PICK y : y = m.map[r][i].frame
      OBVIOUS
    <3>3. y \in tables
      BY <1>3, <3>1, <3>2
    <3>4. m.map[y][j] \in leaves
      BY <3>3
    <3>5. m.map[y][j] = Leaf(m, r, i, j)
      BY <3>2 DEF Leaf
    <3>. QED BY <2>4, <3>4, <3>5
  <2>5. ASSUME x \in freed PROVE Freed(m, r, x)
    <3>1. \/ \E e \in leaves : e.writable /\ e.frame = x
          \/ \E i \in upper : m.map[r][i].frame = x
      BY <2>5
    <3>. QED BY <2>1, <2>2, <3>1
  <2>. QED BY <2>3, <2>4, <2>5 DEF Freed
<1>6. n = [used |-> m.used \ freed, map |-> mp, data |-> m.data]
  <2> HIDE DEF freed, mp
  <2>. QED BY <1>1, <1>2
<1>7. EmptyMap \in MapType /\ NotPresent \in EntryType
  BY EntryIs
<1>8. [i \in Index |-> IF i \in UserIndex THEN NotPresent ELSE m.map[r][i]] \in MapType
  BY <1>2, <1>7 DEF MapType
<1>9. DOMAIN m.map = Frame \cup {KernelMap}
  BY <1>2
<1>10. mp[r] = [i \in Index |-> IF i \in UserIndex THEN NotPresent ELSE m.map[r][i]]
  <2>1. r \in DOMAIN m.map
    BY <1>2, <1>9
  <2>2. r \notin tables
    BY <1>4, TableIs
  <2> HIDE DEF tables
  <2>. QED BY <2>1, <2>2
<1>11. ASSUME NEW x \in Frame \cup {KernelMap}, x # r PROVE mp[x] = IF x \in tables THEN EmptyMap ELSE m.map[x]
  <2> HIDE DEF tables
  <2>. QED BY <1>9, <1>11
<1>12. mp \in [Frame \cup {KernelMap} -> MapType]
  <2>1. ASSUME NEW x \in Frame \cup {KernelMap} PROVE mp[x] \in MapType
    <3>1. CASE x = r
      BY <1>8, <1>10, <3>1
    <3>2. CASE x # r
      <4>1. mp[x] = IF x \in tables THEN EmptyMap ELSE m.map[x]
        BY <1>11, <3>2
      <4> HIDE DEF mp, tables
      <4>. QED BY <1>2, <1>7, <4>1
    <3>. QED BY <3>1, <3>2
  <2>2. mp = [x \in Frame \cup {KernelMap} |-> mp[x]]
    BY <1>9
  <2> HIDE DEF mp
  <2>. QED BY <2>1, <2>2
<1>13. \A i \in UserIndex : mp[r][i] = NotPresent
  <2>1. UserIndex \subseteq Index
    BY Halves
  <2> HIDE DEF mp
  <2>. QED BY <1>10, <2>1
<1>14. \A x \in Frame : x = r \/ TableOf(m, r, x) \/ mp[x] = m.map[x]
  <2> HIDE DEF mp, tables
  <2>. QED BY <1>4, <1>11
<1> HIDE DEF mp, freed, tables, upper, leaves
<1>15. n \in Memory
  <2>1. m.used \ freed \in SUBSET Frame
    BY <1>2
  <2>. QED BY <1>2, <1>6, <1>12, <2>1 DEF Memory
<1>16. n.used = m.used \ freed /\ n.map = mp /\ n.data = m.data
  BY <1>6
<1>. QED BY <1>5, <1>13, <1>14, <1>15, <1>16

LEMMA CleanSpaces ==
  ASSUME NEW m, NEW c, NEW b, NEW l, Owned(c, b, l), Spaces(m, c, b, l),
         NEW t \in Task, c[t] # KernelMap, c[t] # b[t], NEW n, n = CleanPageMaps(m, c[t])
  PROVE  /\ n \in Memory /\ Spaces(n, c, b, l) /\ OthersKept(m, n, RootSet(c, b, l), c[t])
         /\ \A i \in UserIndex : ~ Has(n, c[t], i)
<1>1. PICK R : R = RootSet(c, b, l)
  OBVIOUS
<1>2. PICK r : r = c[t]
  OBVIOUS
<1>3. PICK s : s = b[t]
  OBVIOUS
<1>4. /\ r \in R /\ r \in RootsIn(c, b, t) /\ s \in R /\ s \in RootsIn(c, b, t) /\ r # s
      /\ r # KernelMap /\ s # KernelMap
  BY <1>1, <1>2, <1>3, RootFacts
<1>5. Sound(m, R) /\ Separate(m, R, c, b) /\ \A u \in Task : Program(m, c, b, u)
  BY <1>1 DEF Spaces
<1>6. R \subseteq m.used /\ R \subseteq Frame
  BY <1>5, RootsAreFrames
<1>7. n = CleanPageMaps(m, r)
  BY <1>2
<1>8. n \in Memory /\ n.data = m.data
  BY <1>4, <1>5, <1>7, CleanIs
<1>9. \A x : x \in n.used <=> x \in m.used /\ ~ Freed(m, r, x)
  BY <1>4, <1>5, <1>7, CleanIs
<1>10. /\ \A i \in UserIndex : n.map[r][i] = NotPresent
       /\ \A x \in Frame : x = r \/ TableOf(m, r, x) \/ n.map[x] = m.map[x]
  BY <1>4, <1>5, <1>7, CleanIs
<1>11. \A i : ~ Has(n, r, i)
  BY <1>10 DEF Has
<1>12. \A j, k, x : ~ HasLeaf(n, r, k, j) /\ ~ TableOf(n, r, x) /\ ~ Reaches(n, r, x)
  BY <1>11 DEF HasLeaf, TableOf, Reaches
<1>13. ASSUME NEW q \in R, q # r
       PROVE  /\ n.map[q] = m.map[q]
              /\ \A k : Has(m, q, k) => n.map[m.map[q][k].frame] = m.map[m.map[q][k].frame]
  <2>1. ~ TableOf(m, r, q)
    BY <1>4, <1>5, TableIs
  <2>2. n.map[q] = m.map[q]
    BY <1>6, <1>10, <1>13, <2>1
  <2>3. ASSUME NEW k, Has(m, q, k) PROVE n.map[m.map[q][k].frame] = m.map[m.map[q][k].frame]
    <3>1. /\ m.map[q][k].frame \in Frame /\ m.map[q][k].frame # r /\ k \in UserIndex
      BY <1>4, <1>5, <2>3, BehindEntry
    <3>2. ~ TableOf(m, r, m.map[q][k].frame)
      <4>1. \A i \in UserIndex : Has(m, r, i) => m.map[r][i].frame # m.map[q][k].frame
        BY <1>4, <1>5, <1>13, <2>3, <3>1 DEF Sound, TablesOK
      <4>. QED BY <4>1 DEF TableOf
    <3>. QED BY <1>10, <3>1, <3>2
  <2>. QED BY <2>2, <2>3
<1>14. \A q \in R : q # r => \A k : Has(n, q, k) <=> Has(m, q, k)
  BY <1>13 DEF Has
<1>15. \A q \in R : q # r => SameLeaves(m, n, q)
  <2> SUFFICES ASSUME NEW q \in R, q # r, NEW k, NEW j
               PROVE  /\ HasLeaf(n, q, k, j) <=> HasLeaf(m, q, k, j)
                      /\ HasLeaf(m, q, k, j) => Leaf(n, q, k, j) = Leaf(m, q, k, j)
    BY DEF SameLeaves
  <2>1. Has(m, q, k) => Leaf(n, q, k, j) = Leaf(m, q, k, j)
    BY <1>13 DEF Leaf
  <2>. QED BY <1>14, <2>1 DEF HasLeaf
<1>16. \A q \in R : \A x : Reaches(n, q, x) <=> q # r /\ Reaches(m, q, x)
  BY <1>12, <1>15, SameReach
<1>17. \A q \in R : \A x : TableOf(n, q, x) <=> q # r /\ TableOf(m, q, x)
  <2>1. \A q \in R : q # r => \A x : TableOf(n, q, x) <=> TableOf(m, q, x)
    BY <1>13, <1>14 DEF TableOf
  <2>. QED BY <1>12, <2>1
<1>18. ASSUME NEW x, Freed(m, r, x)
       PROVE  /\ x \notin R
              /\ \A q \in R : q # r => ~ TableOf(m, q, x) /\ ~ Reaches(m, q, x)
  <2>1. CASE TableOf(m, r, x)
    <3>1. x \notin R
      BY <1>4, <1>5, <2>1, TableIs
    <3>2. \A q \in R : ~ Reaches(m, q, x)
      BY <1>4, <1>5, <2>1, ReachedIs
    <3>3. \A q \in R : TableOf(m, q, x) => q = r
      BY <1>4, <1>5, <2>1 DEF TableOf, Sound, TablesOK
    <3>. QED BY <3>1, <3>2, <3>3
  <2>2. CASE ~ TableOf(m, r, x)
    <3>1. PICK i \in UserIndex, j \in Index :
            HasLeaf(m, r, i, j) /\ Leaf(m, r, i, j).writable /\ Leaf(m, r, i, j).frame = x
      BY <1>18, <2>2 DEF Freed
    <3>2. Reaches(m, r, x)
      BY <3>1 DEF Reaches
    <3>3. x \notin R /\ x \in Frame /\ \A q \in R : ~ TableOf(m, q, x)
      BY <1>4, <1>5, <3>2, ReachedIs
    <3>4. ~ Reaches(m, s, x)
      BY <1>2, <1>3, <1>4, <1>5, <3>1 DEF Program
    <3>5. ASSUME NEW q \in R, q # r PROVE ~ Reaches(m, q, x)
      <4>1. SUFFICES ASSUME Reaches(m, q, x) PROVE FALSE
        OBVIOUS
      <4>2. q \in RootsIn(c, b, t)
        BY <1>4, <1>5, <3>2, <3>3, <4>1 DEF Separate
      <4>3. q = s
        BY <1>2, <1>3, <3>5, <4>2 DEF RootsIn
      <4>. QED BY <3>4, <4>1, <4>3
    <3>. QED BY <3>3, <3>5
  <2>. QED BY <2>1, <2>2
<1>19. Sound(n, R)
  <2>1. R \subseteq n.used
    BY <1>6, <1>9, <1>18
  <2>2. TablesOK(n, R)
    <3>1. ASSUME NEW q \in R, NEW k \in UserIndex, Has(n, q, k)
          PROVE  n.map[q][k].writable /\ n.map[q][k].frame \in n.used \ R
      <4>1. q # r /\ Has(m, q, k) /\ n.map[q][k] = m.map[q][k]
        BY <1>11, <1>13, <1>14, <3>1
      <4>2. m.map[q][k].writable /\ m.map[q][k].frame \in m.used /\ m.map[q][k].frame \notin R
        BY <1>5, <4>1, BehindEntry
      <4>3. TableOf(m, q, m.map[q][k].frame)
        BY <4>1 DEF TableOf
      <4>4. ~ Freed(m, r, m.map[q][k].frame)
        BY <1>18, <4>1, <4>3
      <4>. QED BY <1>9, <4>1, <4>2, <4>4
    <3>2. ASSUME NEW q \in R, NEW p \in R, NEW k \in UserIndex, NEW i \in UserIndex,
                 Has(n, q, k), Has(n, p, i), n.map[q][k].frame = n.map[p][i].frame
          PROVE  q = p /\ k = i
      <4>1. /\ Has(m, q, k) /\ n.map[q][k] = m.map[q][k]
            /\ Has(m, p, i) /\ n.map[p][i] = m.map[p][i]
        BY <1>11, <1>13, <1>14, <3>2
      <4>. QED BY <1>5, <3>2, <4>1 DEF Sound, TablesOK
    <3>. QED BY <3>1, <3>2 DEF TablesOK
  <2>3. LeavesOK(n, R)
    <3> SUFFICES ASSUME NEW q \in R, NEW k \in UserIndex, NEW j \in Index, HasLeaf(n, q, k, j)
                 PROVE  /\ Leaf(n, q, k, j).frame \in n.used \ R
                        /\ \A p \in R : ~ TableOf(n, p, Leaf(n, q, k, j).frame)
      BY DEF LeavesOK
    <3>1. PICK x : x = Leaf(n, q, k, j).frame
      OBVIOUS
    <3>2. Reaches(n, q, x)
      BY <3>1 DEF Reaches
    <3>3. q # r /\ Reaches(m, q, x)
      BY <1>16, <3>2
    <3>4. x \in m.used /\ x \notin R /\ \A p \in R : ~ TableOf(m, p, x)
      BY <1>5, <3>3, ReachedIs
    <3>5. ~ Freed(m, r, x)
      BY <1>18, <3>3
    <3>. QED BY <1>9, <1>17, <3>1, <3>4, <3>5
  <2>4. Covered(n, R)
    <3> SUFFICES ASSUME NEW x \in n.used
                 PROVE  x \in R \/ \E q \in R : TableOf(n, q, x) \/ Reaches(n, q, x)
      BY DEF Covered
    <3>1. x \in m.used /\ ~ Freed(m, r, x)
      BY <1>9
    <3>2. x \in R \/ \E q \in R : TableOf(m, q, x) \/ Reaches(m, q, x)
      BY <1>5, <3>1 DEF Sound, Covered
    <3>3. ~ TableOf(m, r, x)
      BY <3>1 DEF Freed
    <3>4. Reaches(m, r, x) => Reaches(m, s, x)
      <4>1. SUFFICES ASSUME Reaches(m, r, x) PROVE Reaches(m, s, x)
        OBVIOUS
      <4>2. PICK i \in UserIndex, j \in Index : HasLeaf(m, r, i, j) /\ Leaf(m, r, i, j).frame = x
        BY <4>1 DEF Reaches
      <4>3. ~ Leaf(m, r, i, j).writable
        BY <3>1, <4>2 DEF Freed
      <4>. QED BY <1>2, <1>3, <1>4, <1>5, <4>2, <4>3 DEF Program
    <3>. QED BY <1>4, <1>16, <1>17, <3>2, <3>3, <3>4
  <2>. QED BY <1>8, <2>1, <2>2, <2>3, <2>4 DEF Sound
<1>20. Separate(n, R, c, b)
  BY <1>1, <1>4, <1>5, <1>16, SeparateKept
<1>21. ASSUME NEW u \in Task, u # t PROVE Program(n, c, b, u)
  <2>1. \A q \in RootsIn(c, b, u) : q \in R /\ q # r
    BY <1>1, <1>4, <1>21, RootFacts
  <2>2. /\ \A q \in RootsIn(c, b, u) : SameLeaves(m, n, q)
        /\ \A q \in RootsIn(c, b, u) : \A x \in Frame : Reaches(m, q, x) => n.data[x] \in {m.data[x], u}
    BY <1>8, <1>15, <2>1
  <2>. QED BY <1>5, <2>2, ProgramKept
<1>22. Program(n, c, b, t)
  <2>1. ASSUME NEW k \in UserIndex, NEW j \in Index, HasLeaf(n, s, k, j)
        PROVE  ~ Leaf(n, s, k, j).writable /\ ElfAt(k, j)
    <3>1. HasLeaf(m, s, k, j) /\ Leaf(n, s, k, j) = Leaf(m, s, k, j)
      BY <1>4, <1>15, <2>1 DEF SameLeaves
    <3>. QED BY <1>3, <1>4, <1>5, <3>1 DEF Program
  <2>2. ASSUME NEW q \in RootsIn(c, b, t), NEW x \in Frame, Reaches(n, q, x)
        PROVE  n.data[x] \in {Zero, Image, t}
    <3>1. q \in R
      BY <1>1, RootFacts
    <3>2. Reaches(m, q, x)
      BY <1>16, <2>2, <3>1
    <3>. QED BY <1>5, <1>8, <3>2 DEF Program
  <2>. QED BY <1>2, <1>3, <1>12, <2>1, <2>2 DEF Program
<1>23. OthersKept(m, n, R, r)
  BY <1>14 DEF OthersKept
<1>. QED BY <1>1, <1>2, <1>8, <1>11, <1>19, <1>20, <1>21, <1>22, <1>23 DEF Spaces

-----------------------------------------------------------------------------
(* A new page map f becomes a root of t.                                   *)
RootAdded(m, n, f) ==
  /\ n \in Memory /\ f \in Frame /\ f \notin m.used /\ n.used = m.used \cup {f}
  /\ \A i \in UserIndex : n.map[f][i] = NotPresent
  /\ \A x \in Frame : x = f \/ n.map[x] = m.map[x]
  /\ \A x \in Frame : x = f \/ n.data[x] = m.data[x]

RootGiven(c, b, t, f, c2, b2) ==
  /\ c2 \in [Task -> Frame \cup {KernelMap}] /\ b2 \in [Task -> Frame \cup {KernelMap}]
  /\ \A u \in Task : u # t => c2[u] = c[u] /\ b2[u] = b[u]
  /\ c2[t] = f
  /\ \/ c[t] = KernelMap /\ b[t] = KernelMap /\ b2[t] = f
     \/ b[t] # KernelMap /\ c[t] = b[t] /\ b2[t] = b[t]

(* The page maps after a new one without entries: the others are as before. *)
LEMMA RootSound ==
  ASSUME NEW m, NEW n, NEW R, Sound(m, R), NEW f, RootAdded(m, n, f)
  PROVE  /\ f \notin R /\ f # KernelMap /\ Sound(n, R \cup {f}) /\ \A i : ~ Has(n, f, i)
         /\ \A q \in R : SameLeaves(m, n, q)
         /\ \A q \in R : \A k : Has(n, q, k) <=> Has(m, q, k)
         /\ \A q \in R \cup {f} : \A x : Reaches(n, q, x) <=> q \in R /\ Reaches(m, q, x)
         /\ \A q \in R : \A x \in Frame : Reaches(m, q, x) => n.data[x] = m.data[x]
<1> USE DEF RootAdded
<1>2. PICK Q : Q = R \cup {f}
  OBVIOUS
<1>4. R \subseteq m.used /\ R \subseteq Frame /\ m.used \subseteq Frame
  BY RootsAreFrames
<1>5. f \notin R /\ f # KernelMap
  BY <1>4, EntryIs
<1>10. \A i : ~ Has(n, f, i)
  BY DEF Has
<1>11. \A k, j, x : ~ HasLeaf(n, f, k, j) /\ ~ TableOf(n, f, x) /\ ~ Reaches(n, f, x)
  BY <1>10 DEF HasLeaf, TableOf, Reaches
<1>12. ASSUME NEW q \in R
       PROVE  /\ n.map[q] = m.map[q]
              /\ \A k : Has(m, q, k) => n.map[m.map[q][k].frame] = m.map[m.map[q][k].frame]
  <2>1. n.map[q] = m.map[q]
    BY <1>4, <1>5
  <2>2. ASSUME NEW k, Has(m, q, k) PROVE n.map[m.map[q][k].frame] = m.map[m.map[q][k].frame]
    <3>1. m.map[q][k].frame \in Frame /\ m.map[q][k].frame # f
      BY <2>2, BehindEntry
    <3>. QED BY <3>1
  <2>. QED BY <2>1, <2>2
<1>13. \A q \in R : \A k : Has(n, q, k) <=> Has(m, q, k)
  BY <1>12 DEF Has
<1>14. \A q \in R : SameLeaves(m, n, q)
  <2> SUFFICES ASSUME NEW q \in R, NEW k, NEW j
               PROVE  /\ HasLeaf(n, q, k, j) <=> HasLeaf(m, q, k, j)
                      /\ HasLeaf(m, q, k, j) => Leaf(n, q, k, j) = Leaf(m, q, k, j)
    BY DEF SameLeaves
  <2>1. Has(m, q, k) => Leaf(n, q, k, j) = Leaf(m, q, k, j)
    BY <1>12 DEF Leaf
  <2>. QED BY <1>13, <2>1 DEF HasLeaf
<1>15. \A q \in Q : \A x : Reaches(n, q, x) <=> q \in R /\ Reaches(m, q, x)
  BY <1>2, <1>5, <1>11, <1>14, SameReach
<1>16. \A q \in Q : \A x : TableOf(n, q, x) <=> q \in R /\ TableOf(m, q, x)
  <2>1. \A q \in R : \A x : TableOf(n, q, x) <=> TableOf(m, q, x)
    BY <1>12, <1>13 DEF TableOf
  <2>. QED BY <1>2, <1>5, <1>11, <2>1
<1>17. Sound(n, Q)
  <2>1. Q \subseteq n.used
    BY <1>2, <1>4
  <2>2. TablesOK(n, Q)
    <3>1. ASSUME NEW q \in Q, NEW k \in UserIndex, Has(n, q, k)
          PROVE  n.map[q][k].writable /\ n.map[q][k].frame \in n.used \ Q
      <4>1. q \in R /\ Has(m, q, k) /\ n.map[q][k] = m.map[q][k]
        BY <1>2, <1>10, <1>12, <1>13, <3>1
      <4>. QED BY <1>2, <4>1, BehindEntry
    <3>2. ASSUME NEW q \in Q, NEW p \in Q, NEW k \in UserIndex, NEW i \in UserIndex,
                 Has(n, q, k), Has(n, p, i), n.map[q][k].frame = n.map[p][i].frame
          PROVE  q = p /\ k = i
      <4>1. /\ q \in R /\ Has(m, q, k) /\ n.map[q][k] = m.map[q][k]
            /\ p \in R /\ Has(m, p, i) /\ n.map[p][i] = m.map[p][i]
        BY <1>2, <1>10, <1>12, <1>13, <3>2
      <4>. QED BY <3>2, <4>1 DEF Sound, TablesOK
    <3>. QED BY <3>1, <3>2 DEF TablesOK
  <2>3. LeavesOK(n, Q)
    <3> SUFFICES ASSUME NEW q \in Q, NEW k \in UserIndex, NEW j \in Index, HasLeaf(n, q, k, j)
                 PROVE  /\ Leaf(n, q, k, j).frame \in n.used \ Q
                        /\ \A p \in Q : ~ TableOf(n, p, Leaf(n, q, k, j).frame)
      BY DEF LeavesOK
    <3>1. PICK x : x = Leaf(n, q, k, j).frame
      OBVIOUS
    <3>2. Reaches(n, q, x)
      BY <3>1 DEF Reaches
    <3>3. q \in R /\ Reaches(m, q, x)
      BY <1>15, <3>2
    <3>4. x \in m.used /\ x \notin R /\ \A p \in R : ~ TableOf(m, p, x)
      BY <3>3, ReachedIs
    <3>. QED BY <1>2, <1>16, <3>1, <3>4
  <2>4. Covered(n, Q)
    <3> SUFFICES ASSUME NEW x \in n.used
                 PROVE  x \in Q \/ \E q \in Q : TableOf(n, q, x) \/ Reaches(n, q, x)
      BY DEF Covered
    <3>1. CASE x = f
      BY <1>2, <3>1
    <3>2. CASE x \in m.used
      <4>1. x \in R \/ \E q \in R : TableOf(m, q, x) \/ Reaches(m, q, x)
        BY <3>2 DEF Sound, Covered
      <4>. QED BY <1>2, <1>15, <1>16, <4>1
    <3>. QED BY <3>1, <3>2
  <2>. QED BY <2>1, <2>2, <2>3, <2>4 DEF Sound
<1>19. \A q \in R : \A x \in Frame : Reaches(m, q, x) => n.data[x] = m.data[x]
  BY ReachedIs
<1>. QED BY <1>2, <1>5, <1>10, <1>13, <1>14, <1>15, <1>17, <1>19

LEMMA RootPrograms ==
  ASSUME NEW m, NEW n, NEW c, NEW b, NEW l, Owned(c, b, l), Spaces(m, c, b, l), NEW f,
         RootAdded(m, n, f)
  PROVE  \A u \in Task : Program(n, c, b, u)
<1>1. PICK R : R = RootSet(c, b, l)
  OBVIOUS
<1>2. Sound(m, R) /\ \A u \in Task : Program(m, c, b, u)
  BY <1>1 DEF Spaces
<1>3. /\ \A q \in R : SameLeaves(m, n, q)
      /\ \A q \in R : \A x \in Frame : Reaches(m, q, x) => n.data[x] = m.data[x]
  BY <1>2, RootSound
<1> SUFFICES ASSUME NEW u \in Task PROVE Program(n, c, b, u)
  OBVIOUS
<1>4. \A q \in RootsIn(c, b, u) : q \in R
  BY <1>1, RootFacts
<1>5. /\ \A q \in RootsIn(c, b, u) : SameLeaves(m, n, q)
      /\ \A q \in RootsIn(c, b, u) : \A x \in Frame : Reaches(m, q, x) => n.data[x] \in {m.data[x], u}
  BY <1>3, <1>4
<1>. QED BY <1>2, <1>5, ProgramKept

LEMMA NewRoot ==
  ASSUME NEW m, NEW n, NEW c, NEW b, NEW l, Owned(c, b, l), Spaces(m, c, b, l),
         NEW t \in Task, NEW f, RootAdded(m, n, f), NEW c2, NEW b2, RootGiven(c, b, t, f, c2, b2)
  PROVE  /\ Owned(c2, b2, l) /\ Spaces(n, c2, b2, l) /\ OthersKept(m, n, RootSet(c, b, l), f)
         /\ f \notin RootSet(c, b, l) /\ \A i : ~ Has(n, f, i)
<1>1. PICK R : R = RootSet(c, b, l)
  OBVIOUS
<1>2. PICK Q : Q = RootSet(c2, b2, l)
  OBVIOUS
<1>3. Sound(m, R) /\ Separate(m, R, c, b)
  BY <1>1 DEF Spaces
<1>5. /\ f \notin R /\ f # KernelMap /\ Sound(n, R \cup {f}) /\ \A i : ~ Has(n, f, i)
      /\ \A q \in R : \A k : Has(n, q, k) <=> Has(m, q, k)
      /\ \A q \in R \cup {f} : \A x : Reaches(n, q, x) <=> q \in R /\ Reaches(m, q, x)
  BY <1>3, RootSound
<1> USE DEF RootGiven
<1>6. \A u \in Task : u # t => RootsIn(c2, b2, u) = RootsIn(c, b, u)
  BY DEF RootsIn
<1>7. RootsIn(c2, b2, t) = RootsIn(c, b, t) \cup {f}
  BY <1>5 DEF RootsIn
<1>8. Q = R \cup {f}
  BY <1>1, <1>2, <1>6, <1>7 DEF RootSet
<1>9. Owned(c2, b2, l)
  <2>1. \A u \in Task : RootsIn(c, b, u) \subseteq R /\ l \subseteq R /\ l \subseteq Frame
    BY <1>1, RootFacts DEF Owned
  <2>2. \A u \in Task : c2[u] # KernelMap => b2[u] # KernelMap
    <3>1. ASSUME NEW u \in Task, u # t, c2[u] # KernelMap PROVE b2[u] # KernelMap
      BY <3>1 DEF Owned
    <3>2. b2[t] # KernelMap
      BY <1>5
    <3>. QED BY <3>1, <3>2
  <2>3. ASSUME NEW u \in Task, NEW v \in Task, u # v
        PROVE  RootsIn(c2, b2, u) \cap RootsIn(c2, b2, v) = {}
    <3>1. RootsIn(c, b, u) \cap RootsIn(c, b, v) = {}
      BY <2>3 DEF Owned
    <3>2. CASE u # t /\ v # t
      BY <1>6, <3>1, <3>2
    <3>3. CASE u = t
      BY <1>5, <1>6, <1>7, <2>1, <2>3, <3>1, <3>3
    <3>4. CASE v = t
      BY <1>5, <1>6, <1>7, <2>1, <2>3, <3>1, <3>4
    <3>. QED BY <3>2, <3>3, <3>4
  <2>4. ASSUME NEW u \in Task PROVE RootsIn(c2, b2, u) \cap l = {}
    <3>1. RootsIn(c, b, u) \cap l = {}
      BY DEF Owned
    <3>2. CASE u = t
      BY <1>5, <1>7, <2>1, <3>1, <3>2
    <3>3. CASE u # t
      BY <1>6, <3>1, <3>3
    <3>. QED BY <3>2, <3>3
  <2>. QED BY <2>1, <2>2, <2>3, <2>4 DEF Owned
<1>11. \A k, j, x : ~ HasLeaf(n, f, k, j) /\ ~ Reaches(n, f, x)
  BY <1>5 DEF HasLeaf, Reaches
<1>18. Separate(n, Q, c2, b2)
  <2> SUFFICES ASSUME NEW p \in Q, NEW q \in Q, NEW x \in Frame, Reaches(n, p, x), Reaches(n, q, x),
                      NEW u \in Task
               PROVE  p \in RootsIn(c2, b2, u) <=> q \in RootsIn(c2, b2, u)
    BY DEF Separate
  <2>1. p \in R /\ q \in R /\ Reaches(m, p, x) /\ Reaches(m, q, x)
    BY <1>5, <1>8
  <2>2. p \in RootsIn(c, b, u) <=> q \in RootsIn(c, b, u)
    BY <1>3, <2>1 DEF Separate
  <2>3. CASE u = t
    BY <1>5, <1>7, <2>1, <2>2, <2>3
  <2>4. CASE u # t
    BY <1>6, <2>2, <2>4
  <2>. QED BY <2>3, <2>4
<1>20. \A u \in Task : Program(n, c, b, u)
  BY RootPrograms
<1>21. ASSUME NEW u \in Task, u # t PROVE Program(n, c2, b2, u)
  <2>1. c2[u] = c[u] /\ b2[u] = b[u] /\ RootsIn(c2, b2, u) = RootsIn(c, b, u) /\ Program(n, c, b, u)
    BY <1>6, <1>20, <1>21
  <2>. QED BY <2>1 DEF Program
<1>22. Program(n, c2, b2, t)
  <2>1. ASSUME b2[t] # f, NEW k \in UserIndex, NEW j \in Index, HasLeaf(n, b2[t], k, j)
        PROVE  ~ Leaf(n, b2[t], k, j).writable /\ ElfAt(k, j)
    <3>1. b2[t] = b[t] /\ b[t] # KernelMap
      BY <2>1
    <3>. QED BY <1>20, <2>1, <3>1 DEF Program
  <2>2. ASSUME NEW q \in RootsIn(c2, b2, t), NEW x \in Frame, Reaches(n, q, x)
        PROVE  n.data[x] \in {Zero, Image, t}
    <3>1. q \in RootsIn(c, b, t)
      BY <1>7, <1>11, <2>2
    <3>. QED BY <1>20, <2>2, <3>1 DEF Program
  <2>. QED BY <1>11, <2>1, <2>2 DEF Program
<1>23. OthersKept(m, n, R, f)
  BY <1>5 DEF OthersKept
<1>. QED BY <1>1, <1>2, <1>5, <1>8, <1>9, <1>18, <1>21, <1>22, <1>23 DEF Spaces

(* A new page map, or a page without entries, that no task gets.           *)
LEMMA LeakRoot ==
  ASSUME NEW m, NEW n, NEW c, NEW b, NEW l, Owned(c, b, l), Spaces(m, c, b, l),
         NEW f, RootAdded(m, n, f), NEW l2, l2 = l \cup {f}
  PROVE  /\ Owned(c, b, l2) /\ Spaces(n, c, b, l2) /\ OthersKept(m, n, RootSet(c, b, l), f)
         /\ f \notin RootSet(c, b, l)
<1>1. PICK R : R = RootSet(c, b, l)
  OBVIOUS
<1>3. Sound(m, R) /\ Separate(m, R, c, b)
  BY <1>1 DEF Spaces
<1>5. /\ f \notin R /\ Sound(n, R \cup {f})
      /\ \A q \in R : \A k : Has(n, q, k) <=> Has(m, q, k)
      /\ \A q \in R \cup {f} : \A x : Reaches(n, q, x) <=> q \in R /\ Reaches(m, q, x)
  BY <1>3, RootSound
<1>6. RootSet(c, b, l2) = R \cup {f}
  BY <1>1 DEF RootSet
<1>7. f \in Frame
  BY DEF RootAdded
<1>8. Owned(c, b, l2)
  <2>1. \A u \in Task : RootsIn(c, b, u) \subseteq R /\ RootsIn(c, b, u) \cap l = {}
    BY <1>1, RootFacts DEF Owned
  <2>2. \A u \in Task : RootsIn(c, b, u) \cap l2 = {}
    BY <1>5, <2>1
  <2>. QED BY <1>7, <2>2 DEF Owned
<1>9. Separate(n, R \cup {f}, c, b)
  BY <1>3, <1>5 DEF Separate
<1>10. \A u \in Task : Program(n, c, b, u)
  BY RootPrograms
<1>11. OthersKept(m, n, R, f)
  BY <1>5 DEF OthersKept
<1>. QED BY <1>1, <1>5, <1>6, <1>8, <1>9, <1>10, <1>11 DEF Spaces

-----------------------------------------------------------------------------
(* t gives up its page maps; no task refers to them any more.              *)
Dropped(c, b, t, c2, b2) ==
  /\ c2 \in [Task -> Frame \cup {KernelMap}] /\ b2 \in [Task -> Frame \cup {KernelMap}]
  /\ \A u \in Task : u # t => c2[u] = c[u] /\ b2[u] = b[u]
  /\ c2[t] = KernelMap /\ b2[t] = KernelMap

LEMMA DropIs ==
  ASSUME NEW c, NEW b, NEW l, Owned(c, b, l), NEW t \in Task, NEW c2, NEW b2, Dropped(c, b, t, c2, b2)
  PROVE  /\ RootsIn(c2, b2, t) = {}
         /\ \A u \in Task : u # t => RootsIn(c2, b2, u) = RootsIn(c, b, u)
         /\ \A k : k \subseteq RootsIn(c, b, t) => Owned(c2, b2, l \cup k)
<1>1. RootsIn(c2, b2, t) = {}
  BY DEF RootsIn, Dropped
<1>2. \A u \in Task : u # t => RootsIn(c2, b2, u) = RootsIn(c, b, u)
  BY DEF RootsIn, Dropped
<1>3. ASSUME NEW k, k \subseteq RootsIn(c, b, t) PROVE Owned(c2, b2, l \cup k)
  <2>1. RootsIn(c, b, t) \subseteq Frame /\ l \subseteq Frame
    BY RootFacts DEF Owned
  <2>2. l \cup k \subseteq Frame
    BY <1>3, <2>1
  <2>3. \A u \in Task : c2[u] # KernelMap => b2[u] # KernelMap
    BY DEF Owned, Dropped
  <2>4. ASSUME NEW u \in Task, NEW v \in Task, u # v
        PROVE  RootsIn(c2, b2, u) \cap RootsIn(c2, b2, v) = {}
    <3>1. RootsIn(c, b, u) \cap RootsIn(c, b, v) = {}
      BY <2>4 DEF Owned
    <3>. QED BY <1>1, <1>2, <3>1
  <2>5. ASSUME NEW u \in Task PROVE RootsIn(c2, b2, u) \cap (l \cup k) = {}
    <3>1. RootsIn(c, b, u) \cap l = {}
      BY DEF Owned
    <3>2. CASE u = t
      BY <1>1, <3>2
    <3>3. CASE u # t
      <4>1. RootsIn(c, b, u) \cap RootsIn(c, b, t) = {}
        BY <3>3 DEF Owned
      <4>. QED BY <1>2, <1>3, <3>1, <3>3, <4>1
    <3>. QED BY <3>2, <3>3
  <2>. QED BY <2>2, <2>3, <2>4, <2>5 DEF Owned, Dropped
<1>. QED BY <1>1, <1>2, <1>3

LEMMA DropProgram ==
  ASSUME NEW m, NEW c, NEW b, NEW l, Owned(c, b, l), NEW t \in Task, NEW c2, NEW b2,
         Dropped(c, b, t, c2, b2), \A u \in Task : Program(m, c, b, u)
  PROVE  \A u \in Task : Program(m, c2, b2, u)
<1>1. RootsIn(c2, b2, t) = {} /\ \A u \in Task : u # t => RootsIn(c2, b2, u) = RootsIn(c, b, u)
  BY DropIs
<1>2. Program(m, c2, b2, t)
  BY <1>1 DEF Program, Dropped
<1>3. ASSUME NEW u \in Task, u # t PROVE Program(m, c2, b2, u)
  <2>1. /\ c2[u] = c[u] /\ b2[u] = b[u] /\ RootsIn(c2, b2, u) = RootsIn(c, b, u)
        /\ Program(m, c, b, u)
    BY <1>1, <1>3 DEF Dropped
  <2>. QED BY <2>1 DEF Program
<1>. QED BY <1>2, <1>3

(* Abandon: the page maps stay allocated, with what is behind them.        *)
LEMMA DropRoots ==
  ASSUME NEW m, NEW c, NEW b, NEW l, Owned(c, b, l), Spaces(m, c, b, l), NEW t \in Task,
         NEW c2, NEW b2, Dropped(c, b, t, c2, b2), NEW l2, l2 = l \cup RootsIn(c, b, t)
  PROVE  Owned(c2, b2, l2) /\ Spaces(m, c2, b2, l2)
<1>1. PICK R : R = RootSet(c, b, l)
  OBVIOUS
<1>2. Sound(m, R) /\ Separate(m, R, c, b) /\ \A u \in Task : Program(m, c, b, u)
  BY <1>1 DEF Spaces
<1>3. RootsIn(c2, b2, t) = {} /\ \A u \in Task : u # t => RootsIn(c2, b2, u) = RootsIn(c, b, u)
  BY DropIs
<1>4. Owned(c2, b2, l2)
  BY DropIs
<1>5. R = RootSet(c2, b2, l2)
  BY <1>1, <1>3 DEF RootSet
<1>6. Separate(m, R, c2, b2)
  <2> SUFFICES ASSUME NEW p \in R, NEW q \in R, NEW x \in Frame, Reaches(m, p, x), Reaches(m, q, x),
                      NEW u \in Task
               PROVE  p \in RootsIn(c2, b2, u) <=> q \in RootsIn(c2, b2, u)
    BY DEF Separate
  <2>1. p \in RootsIn(c, b, u) <=> q \in RootsIn(c, b, u)
    BY <1>2 DEF Separate
  <2>. QED BY <1>3, <2>1
<1>7. \A u \in Task : Program(m, c2, b2, u)
  BY <1>2, DropProgram
<1>. QED BY <1>2, <1>4, <1>5, <1>6, <1>7 DEF Spaces

(* FreePML4: the cleaned page map of t is freed.                           *)
LEMMA FreeRoot ==
  ASSUME NEW m, NEW c, NEW b, NEW l, Owned(c, b, l), Spaces(m, c, b, l), NEW t \in Task,
         c[t] # KernelMap, c[t] # b[t], \A i \in UserIndex : ~ Has(m, c[t], i),
         NEW n \in Memory, n.used = m.used \ {c[t]}, n.map = m.map, n.data = m.data,
         NEW c2, NEW b2, Dropped(c, b, t, c2, b2), NEW l2, l2 = l \cup {b[t]}
  PROVE  Owned(c2, b2, l2) /\ Spaces(n, c2, b2, l2)
<1>1. PICK R : R = RootSet(c, b, l)
  OBVIOUS
<1>2. PICK r : r = c[t]
  OBVIOUS
<1>3. Sound(m, R) /\ Separate(m, R, c, b) /\ \A u \in Task : Program(m, c, b, u)
  BY <1>1 DEF Spaces
<1>4. RootsIn(c2, b2, t) = {} /\ \A u \in Task : u # t => RootsIn(c2, b2, u) = RootsIn(c, b, u)
  BY DropIs
<1>5. b[t] \in RootsIn(c, b, t) /\ r \in RootsIn(c, b, t) /\ r \in R /\ b[t] \in R
  BY <1>1, <1>2, RootFacts
<1>6. Owned(c2, b2, l2)
  <2>1. PICK k : k = {b[t]}
    OBVIOUS
  <2>2. k \subseteq RootsIn(c, b, t)
    BY <1>5, <2>1
  <2>3. \A d : d \subseteq RootsIn(c, b, t) => Owned(c2, b2, l \cup d)
    BY DropIs
  <2>4. Owned(c2, b2, l \cup k)
    BY <2>2, <2>3
  <2>. QED BY <2>1, <2>4
<1>7. PICK Q : Q = RootSet(c2, b2, l2)
  OBVIOUS
<1>8. Q = R \ {r}
  <2>1. ASSUME NEW q \in Q PROVE q \in R /\ q # r
    <3>1. CASE q \in l \/ q = b[t]
      BY <1>1, <1>2, <1>5, <3>1, RootFacts
    <3>2. CASE q \notin l /\ q # b[t]
      <4>1. q \notin l2
        BY <3>2
      <4>2. PICK u \in Task : q \in RootsIn(c2, b2, u)
        BY <1>7, <4>1 DEF RootSet
      <4>3. u # t /\ q \in RootsIn(c, b, u)
        BY <1>4, <4>2
      <4>. QED BY <1>1, <1>5, <4>3, RootFacts
    <3>. QED BY <3>1, <3>2
  <2>2. ASSUME NEW q \in R, q # r PROVE q \in Q
    <3>1. CASE q \in l
      BY <1>7, <3>1 DEF RootSet
    <3>2. CASE q \notin l
      <4>1. PICK u \in Task : q \in RootsIn(c, b, u)
        BY <1>1, <3>2, RootFacts
      <4>2. CASE u = t
        <5>1. q = b[t]
          BY <1>2, <2>2, <4>1, <4>2 DEF RootsIn
        <5>. QED BY <1>7, <5>1 DEF RootSet
      <4>3. CASE u # t
        BY <1>4, <1>7, <4>1, <4>3 DEF RootSet
      <4>. QED BY <4>2, <4>3
    <3>. QED BY <3>1, <3>2
  <2>. QED BY <2>1, <2>2
<1>9. \A q, k : Has(n, q, k) <=> Has(m, q, k)
  BY DEF Has
<1>10. \A q, k, j : Leaf(n, q, k, j) = Leaf(m, q, k, j)
  BY DEF Leaf
<1>11. \A q, k, j : HasLeaf(n, q, k, j) <=> HasLeaf(m, q, k, j)
  BY <1>9, <1>10 DEF HasLeaf
<1>12. \A q, x : Reaches(n, q, x) <=> Reaches(m, q, x)
  BY <1>10, <1>11 DEF Reaches
<1>13. \A q, x : TableOf(n, q, x) <=> TableOf(m, q, x)
  BY <1>9 DEF TableOf
<1>14. \A x : ~ TableOf(m, r, x) /\ ~ Reaches(m, r, x)
  BY <1>2 DEF TableOf, Reaches, HasLeaf
<1>15. n.used = m.used \ {r}
  BY <1>2
<1>16. Sound(n, Q)
  <2>1. Q \subseteq n.used
    BY <1>3, <1>8, <1>15 DEF Sound
  <2>2. TablesOK(n, Q)
    <3>1. ASSUME NEW q \in Q, NEW k \in UserIndex, Has(n, q, k)
          PROVE  n.map[q][k].writable /\ n.map[q][k].frame \in n.used \ Q
      <4>1. q \in R /\ Has(m, q, k)
        BY <1>8, <1>9, <3>1
      <4>2. m.map[q][k].writable /\ m.map[q][k].frame \in m.used /\ m.map[q][k].frame \notin R
        BY <1>3, <4>1, BehindEntry
      <4>. QED BY <1>5, <1>8, <1>15, <4>2
    <3>2. ASSUME NEW q \in Q, NEW p \in Q, NEW k \in UserIndex, NEW i \in UserIndex,
                 Has(n, q, k), Has(n, p, i), n.map[q][k].frame = n.map[p][i].frame
          PROVE  q = p /\ k = i
      <4>1. q \in R /\ Has(m, q, k) /\ p \in R /\ Has(m, p, i)
        BY <1>8, <1>9, <3>2
      <4>. QED BY <1>3, <3>2, <4>1 DEF Sound, TablesOK
    <3>. QED BY <3>1, <3>2 DEF TablesOK
  <2>3. LeavesOK(n, Q)
    <3> SUFFICES ASSUME NEW q \in Q, NEW k \in UserIndex, NEW j \in Index, HasLeaf(n, q, k, j)
                 PROVE  /\ Leaf(n, q, k, j).frame \in n.used \ Q
                        /\ \A p \in Q : ~ TableOf(n, p, Leaf(n, q, k, j).frame)
      BY DEF LeavesOK
    <3>1. PICK x : x = Leaf(m, q, k, j).frame
      OBVIOUS
    <3>2. q \in R /\ HasLeaf(m, q, k, j) /\ Leaf(n, q, k, j).frame = x
      BY <1>8, <1>10, <1>11, <3>1
    <3>3. x \in m.used /\ x \notin R /\ \A p \in R : ~ TableOf(m, p, x)
      BY <1>3, <3>1, <3>2, BehindLeaf
    <3>. QED BY <1>5, <1>8, <1>13, <1>15, <3>2, <3>3
  <2>4. Covered(n, Q)
    <3> SUFFICES ASSUME NEW x \in n.used
                 PROVE  x \in Q \/ \E q \in Q : TableOf(n, q, x) \/ Reaches(n, q, x)
      BY DEF Covered
    <3>1. x \in m.used /\ x # r
      BY <1>15
    <3>2. x \in R \/ \E q \in R : TableOf(m, q, x) \/ Reaches(m, q, x)
      BY <1>3, <3>1 DEF Sound, Covered
    <3>. QED BY <1>8, <1>12, <1>13, <1>14, <3>1, <3>2
  <2>. QED BY <2>1, <2>2, <2>3, <2>4 DEF Sound
<1>17. Separate(n, Q, c2, b2)
  <2> SUFFICES ASSUME NEW p \in Q, NEW q \in Q, NEW x \in Frame, Reaches(n, p, x), Reaches(n, q, x),
                      NEW u \in Task
               PROVE  p \in RootsIn(c2, b2, u) <=> q \in RootsIn(c2, b2, u)
    BY DEF Separate
  <2>1. p \in R /\ q \in R /\ Reaches(m, p, x) /\ Reaches(m, q, x)
    BY <1>8, <1>12
  <2>2. p \in RootsIn(c, b, u) <=> q \in RootsIn(c, b, u)
    BY <1>3, <2>1 DEF Separate
  <2>. QED BY <1>4, <2>2
<1>18. \A u \in Task : Program(n, c, b, u)
  <2> SUFFICES ASSUME NEW u \in Task PROVE Program(n, c, b, u)
    OBVIOUS
  <2>1. \A q \in RootsIn(c, b, u) : SameLeaves(m, n, q)
    BY <1>10, <1>11 DEF SameLeaves
  <2>. QED BY <1>3, <2>1, ProgramKept
<1>19. \A u \in Task : Program(n, c2, b2, u)
  BY <1>18, DropProgram
<1>. QED BY <1>6, <1>7, <1>16, <1>17, <1>19 DEF Spaces

-----------------------------------------------------------------------------
(* The steps.                                                              *)
Labels == {"new", "load", "pml4", "copy", "args", "stack", "user", "again", "clean", "free", "done",
           "halt"}

(* What a step of t leaves to prove: the address spaces, and where t is.   *)
LEMMA StepInv ==
  ASSUME IInv, NEW t \in Task, NEW a \in Labels, pc' = [pc EXCEPT ![t] = a], FoundType',
         Owned(cr3', temp', lost'), Spaces(mem', cr3', temp', lost'),
         \A u \in Task : u # t => cr3'[u] = cr3[u] /\ temp'[u] = temp[u],
         NEW r, r = cr3[t] \/ r \notin RootSet(cr3, temp, lost),
         OthersKept(mem, mem', RootSet(cr3, temp, lost), r), At(t)'
  PROVE  IInv'
<1>1. PcType'
  BY DEF IInv, PcType, Labels
<1>2. ASSUME NEW u \in Task, u # t PROVE At(u)'
  <2>1. pc'[u] = pc[u] /\ cr3'[u] = cr3[u] /\ temp'[u] = temp[u] /\ At(u) /\ Owned(cr3, temp, lost)
    BY <1>2 DEF IInv, PcType
  <2>2. cr3[u] # KernelMap => \A i \in UserIndex : Has(mem', cr3[u], i) <=> Has(mem, cr3[u], i)
    <3>1. SUFFICES ASSUME cr3[u] # KernelMap PROVE cr3[u] \in RootSet(cr3, temp, lost) /\ cr3[u] # r
      BY DEF OthersKept
    <3>2. cr3[u] \in RootsIn(cr3, temp, u)
      BY <2>1, <3>1, RootFacts
    <3>3. cr3[u] \in RootSet(cr3, temp, lost)
      BY <2>1, <3>2, RootFacts
    <3>4. cr3[u] # cr3[t]
      <4>1. SUFFICES ASSUME cr3[u] = cr3[t] PROVE FALSE
        OBVIOUS
      <4>2. cr3[t] \in RootsIn(cr3, temp, t)
        BY <2>1, <3>1, <4>1, RootFacts
      <4>. QED BY <1>2, <2>1, <3>2, <4>1, <4>2, RootFacts
    <3>. QED BY <3>3, <3>4
  <2>. QED BY <2>1, <2>2 DEF At
<1>. QED BY <1>1, <1>2 DEF IInv

LEMMA SameInv ==
  ASSUME IInv, UNCHANGED <<mem, cr3, temp, pc, lost>>, FoundType'
  PROVE  IInv'
<1>1. /\ PcType' = PcType /\ Owned(cr3, temp, lost)' = Owned(cr3, temp, lost)
      /\ Spaces(mem, cr3, temp, lost)' = Spaces(mem, cr3, temp, lost)
      /\ \A t \in Task : At(t)' = At(t)
  BY DEF PcType, At
<1>. QED BY <1>1 DEF IInv

LEMMA IInvFacts ==
  ASSUME IInv
  PROVE  /\ Owned(cr3, temp, lost) /\ Spaces(mem, cr3, temp, lost) /\ mem \in Memory
         /\ Sound(mem, RootSet(cr3, temp, lost))
         /\ \A t \in Task : At(t) /\ pc[t] \in Labels
         /\ pc \in [Task -> Labels] /\ found \in [Task -> Frame \cup {NoFrame}]
         /\ cr3 \in [Task -> Frame \cup {KernelMap}] /\ temp \in [Task -> Frame \cup {KernelMap}]
         /\ KernelMap \notin RootSet(cr3, temp, lost)
         /\ (UNCHANGED found => FoundType')
<1>1. Owned(cr3, temp, lost) /\ Spaces(mem, cr3, temp, lost) /\ PcType /\ \A t \in Task : At(t)
  BY DEF IInv
<1>2. pc \in [Task -> Labels]
  BY <1>1 DEF PcType, Labels
<1>3. Sound(mem, RootSet(cr3, temp, lost)) /\ mem \in Memory
  BY <1>1 DEF Spaces, Sound
<1>4. KernelMap \notin RootSet(cr3, temp, lost)
  BY <1>1, RootFacts, EntryIs
<1>5. found \in [Task -> Frame \cup {NoFrame}] /\ (UNCHANGED found => FoundType')
  BY DEF IInv, FoundType
<1>. QED BY <1>1, <1>2, <1>3, <1>4, <1>5 DEF Owned

LEMMA AbandonInv ==
  ASSUME IInv, NEW t \in Task, Abandon(t, {cr3[t], temp[t]}), FoundType',
         Spaces(mem', cr3, temp, lost), OthersKept(mem, mem', RootSet(cr3, temp, lost), cr3[t])
  PROVE  IInv'
<1>1. /\ Owned(cr3, temp, lost) /\ cr3 \in [Task -> Frame \cup {KernelMap}]
      /\ temp \in [Task -> Frame \cup {KernelMap}] /\ pc \in [Task -> Labels]
  BY IInvFacts
<1>2. /\ pc' = [pc EXCEPT ![t] = "done"] /\ lost' = lost \cup RootsIn(cr3, temp, t)
      /\ cr3' = [cr3 EXCEPT ![t] = KernelMap] /\ temp' = [temp EXCEPT ![t] = KernelMap]
  BY DEF Abandon, Goto, RootsIn
<1>3. Dropped(cr3, temp, t, cr3', temp')
  BY <1>1, <1>2 DEF Dropped
<1>4. Owned(cr3', temp', lost') /\ Spaces(mem', cr3', temp', lost')
  BY <1>1, <1>2, <1>3, DropRoots
<1>5. At(t)'
  BY <1>1, <1>2 DEF At
<1>6. \A u \in Task : u # t => cr3'[u] = cr3[u] /\ temp'[u] = temp[u]
  BY <1>3 DEF Dropped
<1>7. "done" \in Labels
  BY DEF Labels
<1>. QED BY <1>2, <1>4, <1>5, <1>6, <1>7, StepInv

(* A step of t that keeps its page maps.                                   *)
LEMMA StayInv ==
  ASSUME IInv, NEW t \in Task, NEW a \in Labels, pc' = [pc EXCEPT ![t] = a], FoundType',
         UNCHANGED <<cr3, temp, lost>>, Spaces(mem', cr3, temp, lost),
         OthersKept(mem, mem', RootSet(cr3, temp, lost), cr3[t]), At(t)'
  PROVE  IInv'
<1>1. Owned(cr3', temp', lost') /\ Spaces(mem', cr3', temp', lost')
  BY IInvFacts
<1>. QED BY <1>1, StepInv

(* A program that has its two page maps and goes on.                       *)
LEMMA RunInv ==
  ASSUME IInv, NEW t \in Task, pc[t] \notin {"new", "done", "load", "pml4"},
         NEW a \in {"copy", "args", "stack", "user", "clean", "halt"}, pc' = [pc EXCEPT ![t] = a],
         FoundType', UNCHANGED <<cr3, temp, lost>>, Spaces(mem', cr3, temp, lost),
         OthersKept(mem, mem', RootSet(cr3, temp, lost), cr3[t])
  PROVE  IInv'
<1>1. cr3[t] # KernelMap /\ temp[t] # KernelMap /\ cr3[t] # temp[t]
  BY IInvFacts DEF At
<1>2. pc'[t] = a
  BY IInvFacts
<1>3. At(t)'
  BY <1>1, <1>2 DEF At
<1>4. a \in Labels
  BY DEF Labels
<1>. QED BY <1>3, <1>4, StayInv

LEMMA GoesOn ==
  ASSUME IInv, NEW t \in Task, UNCHANGED pc
  PROVE  pc' = [pc EXCEPT ![t] = pc[t]] /\ pc'[t] = pc[t]
<1>1. pc \in [Task -> Labels]
  BY IInvFacts
<1>. QED BY <1>1

(* Allocate has marked a frame that was free.                              *)
LEMMA MarkIs ==
  ASSUME IInv, NEW t \in Task, NEW label, MarkFrame(t, label), Intact'
  PROVE  pc[t] = label /\ found[t] \in Frame /\ found[t] \notin mem.used /\ FoundType'
<1>1. found \in [Task -> Frame \cup {NoFrame}]
  BY IInvFacts
<1>2. pc[t] = label /\ found[t] # NoFrame /\ found' = [found EXCEPT ![t] = NoFrame]
  BY DEF MarkFrame, Ready
<1>3. found[t] \notin mem.used
  BY DEF MarkFrame, Intact
<1>. QED BY <1>1, <1>2, <1>3 DEF FoundType

LEMMA FindFrameInv ==
  ASSUME IInv, NEW t \in Task, FindFrame(t)
  PROVE  IInv'
<1>1. mem \in Memory /\ found \in [Task -> Frame \cup {NoFrame}] /\ Spaces(mem, cr3, temp, lost)
  BY IInvFacts
<1>2. UNCHANGED mem
  BY DEF FindFrame
<1>3. CASE FreeFrames(mem) = {}
  <2>1. Abandon(t, {cr3[t], temp[t]}) /\ FoundType'
    BY <1>3, IInvFacts DEF FindFrame
  <2>2. OthersKept(mem, mem', RootSet(cr3, temp, lost), cr3[t]) /\ Spaces(mem', cr3, temp, lost)
    BY <1>1, <1>2, KeptSame
  <2>. QED BY <2>1, <2>2, AbandonInv
<1>4. CASE FreeFrames(mem) # {}
  <2>1. found' = [found EXCEPT ![t] = NewFrame(mem)] /\ UNCHANGED <<cr3, temp, pc, lost>>
    BY <1>4 DEF FindFrame
  <2>2. NewFrame(mem) \in Frame
    BY <1>1, <1>4, NewFrameIs
  <2>3. FoundType'
    BY <1>1, <2>1, <2>2 DEF FoundType
  <2>. QED BY <1>2, <2>1, <2>3, SameInv
<1>. QED BY <1>3, <1>4

LEMMA SetupPML4Is ==
  ASSUME IInv, NEW t \in Task, found[t] \in Frame, found[t] \notin mem.used, mem' = SetupPML4(t)
  PROVE  RootAdded(mem, mem', found[t])
<1>1. mem \in Memory /\ cr3[t] \in Frame \cup {KernelMap}
  BY IInvFacts
<1>2. PICK f \in Frame : f = found[t] /\ f \notin mem.used
  OBVIOUS
<1>4. PICK m2 : m2 = NewPageMap(mem, f)
  OBVIOUS
<1>5. PICK g : g = [i \in Index |-> IF i \in UserIndex THEN NotPresent ELSE mem.map[cr3[t]][i]]
  OBVIOUS
<1>6. mem' = [m2 EXCEPT !.map[f] = g]
  BY <1>2, <1>4, <1>5 DEF SetupPML4
<1>9. /\ m2 \in Memory
      /\ m2.used = mem.used \cup {f}
      /\ m2.map = [mem.map EXCEPT ![f] = EmptyMap]
      /\ m2.data = [mem.data EXCEPT ![f] = Zero]
  BY <1>1, <1>2, <1>4, NewPageMapIs
<1>10. mem.map[cr3[t]] \in [Index -> EntryType] /\ NotPresent \in EntryType
  BY <1>1, EntryIs DEF Memory, MapType
<1>11. g \in MapType
  BY <1>5, <1>10 DEF MapType
<1>12. /\ m2 = [used |-> m2.used, map |-> m2.map, data |-> m2.data]
       /\ m2.used \in SUBSET Frame /\ m2.map \in [Frame \cup {KernelMap} -> MapType]
       /\ m2.data \in [Frame -> {Zero, Image, Kernel} \cup Task]
  BY <1>9 DEF Memory
<1>13. PICK mp : mp = [m2.map EXCEPT ![f] = g]
  OBVIOUS
<1>14. mem' = [used |-> m2.used, map |-> mp, data |-> m2.data]
  BY <1>6, <1>12, <1>13
<1>15. mp \in [Frame \cup {KernelMap} -> MapType]
  BY <1>11, <1>12, <1>13
<1>16. mem' \in Memory
  BY <1>12, <1>14, <1>15 DEF Memory
<1>17. mem'.used = mem.used \cup {f} /\ mem'.map = mp /\ mem'.data = m2.data
  BY <1>9, <1>14
<1>18. mp[f] = g /\ \A x \in Frame : x = f \/ mp[x] = m2.map[x]
  BY <1>12, <1>13
<1>19. \A i \in UserIndex : g[i] = NotPresent
  BY <1>5, Halves
<1>20. mem.map \in [Frame \cup {KernelMap} -> MapType] /\ mem.data \in [Frame -> {Zero, Image, Kernel} \cup Task]
  BY <1>1 DEF Memory
<1>21. /\ \A x \in Frame : x = f \/ m2.map[x] = mem.map[x]
       /\ \A x \in Frame : x = f \/ m2.data[x] = mem.data[x]
  BY <1>9, <1>20
<1>22. /\ \A i \in UserIndex : mem'.map[f][i] = NotPresent
       /\ \A x \in Frame : x = f \/ mem'.map[x] = mem.map[x]
       /\ \A x \in Frame : x = f \/ mem'.data[x] = mem.data[x]
  BY <1>17, <1>18, <1>19, <1>21
<1>. QED BY <1>2, <1>16, <1>17, <1>22 DEF RootAdded

LEMMA SetupTempPML4Inv ==
  ASSUME IInv, NEW t \in Task, SetupTempPML4(t), Intact'
  PROVE  IInv'
<1>1. pc[t] = "new" /\ found[t] \in Frame /\ found[t] \notin mem.used /\ FoundType'
  BY MarkIs DEF SetupTempPML4
<1>2. /\ mem \in Memory /\ Owned(cr3, temp, lost) /\ Spaces(mem, cr3, temp, lost) /\ At(t)
      /\ cr3 \in [Task -> Frame \cup {KernelMap}] /\ temp \in [Task -> Frame \cup {KernelMap}]
      /\ pc \in [Task -> Labels]
  BY IInvFacts
<1>3. PICK f \in Frame : f = found[t]
  BY <1>1
<1>4. RootAdded(mem, mem', f)
  BY <1>1, <1>3, SetupPML4Is DEF SetupTempPML4
<1>5. cr3[t] = KernelMap /\ temp[t] = KernelMap
  BY <1>1, <1>2 DEF At
<1>6. CASE /\ cr3' = [cr3 EXCEPT ![t] = f] /\ temp' = [temp EXCEPT ![t] = f]
           /\ Goto(t, "load") /\ UNCHANGED <<dpEnd, lost>>
  <2>1. pc' = [pc EXCEPT ![t] = "load"] /\ lost' = lost
    BY <1>6 DEF Goto
  <2>2. f # KernelMap /\ cr3'[t] = f /\ temp'[t] = f /\ pc'[t] = "load"
    BY <1>2, <1>6, <2>1, EntryIs
  <2>3. /\ cr3' \in [Task -> Frame \cup {KernelMap}] /\ temp' \in [Task -> Frame \cup {KernelMap}]
        /\ \A u \in Task : u # t => cr3'[u] = cr3[u] /\ temp'[u] = temp[u]
    BY <1>2, <1>6
  <2>4. RootGiven(cr3, temp, t, f, cr3', temp')
    BY <1>5, <2>2, <2>3 DEF RootGiven
  <2>5. /\ Owned(cr3', temp', lost) /\ Spaces(mem', cr3', temp', lost)
        /\ OthersKept(mem, mem', RootSet(cr3, temp, lost), f) /\ f \notin RootSet(cr3, temp, lost)
    BY <1>2, <1>4, <2>4, NewRoot
  <2>6. At(t)'
    BY <2>2 DEF At
  <2>7. "load" \in Labels
    BY DEF Labels
  <2>. QED BY <1>1, <2>1, <2>3, <2>5, <2>6, <2>7, StepInv
<1>7. CASE Abandon(t, {f})
  <2>1. /\ pc' = [pc EXCEPT ![t] = "done"] /\ lost' = lost \cup ({f} \ {KernelMap})
        /\ cr3' = [cr3 EXCEPT ![t] = KernelMap] /\ temp' = [temp EXCEPT ![t] = KernelMap]
    BY <1>7 DEF Abandon, Goto
  <2>2. cr3' = cr3 /\ temp' = temp /\ pc'[t] = "done" /\ lost' = lost \cup {f}
    BY <1>2, <1>5, <2>1, EntryIs
  <2>3. /\ Owned(cr3', temp', lost') /\ Spaces(mem', cr3', temp', lost')
        /\ OthersKept(mem, mem', RootSet(cr3, temp, lost), f) /\ f \notin RootSet(cr3, temp, lost)
    BY <1>2, <1>4, <2>2, LeakRoot
  <2>4. At(t)'
    BY <1>5, <2>2 DEF At
  <2>5. "done" \in Labels
    BY DEF Labels
  <2>. QED BY <1>1, <2>1, <2>2, <2>3, <2>4, <2>5, StepInv
<1>. QED BY <1>3, <1>6, <1>7 DEF SetupTempPML4

LEMMA SetupAppPML4Inv ==
  ASSUME IInv, NEW t \in Task, SetupAppPML4(t), Intact'
  PROVE  IInv'
<1>1. pc[t] = "pml4" /\ found[t] \in Frame /\ found[t] \notin mem.used /\ FoundType'
  BY MarkIs DEF SetupAppPML4
<1>2. /\ mem \in Memory /\ Owned(cr3, temp, lost) /\ Spaces(mem, cr3, temp, lost) /\ At(t)
      /\ cr3 \in [Task -> Frame \cup {KernelMap}] /\ temp \in [Task -> Frame \cup {KernelMap}]
      /\ pc \in [Task -> Labels]
  BY IInvFacts
<1>3. PICK f \in Frame : f = found[t]
  BY <1>1
<1>4. RootAdded(mem, mem', f)
  BY <1>1, <1>3, SetupPML4Is DEF SetupAppPML4
<1>5. cr3[t] # KernelMap /\ temp[t] = cr3[t]
  BY <1>1, <1>2 DEF At
<1>6. /\ cr3' = [cr3 EXCEPT ![t] = f] /\ temp' = temp /\ lost' = lost
      /\ pc' = [pc EXCEPT ![t] = "copy"]
  BY <1>3 DEF SetupAppPML4, Goto
<1>7. f # KernelMap /\ cr3'[t] = f /\ pc'[t] = "copy"
  BY <1>2, <1>6, EntryIs
<1>8. /\ cr3' \in [Task -> Frame \cup {KernelMap}] /\ temp' \in [Task -> Frame \cup {KernelMap}]
      /\ \A u \in Task : u # t => cr3'[u] = cr3[u] /\ temp'[u] = temp[u]
  BY <1>2, <1>6
<1>9. RootGiven(cr3, temp, t, f, cr3', temp')
  BY <1>5, <1>6, <1>7, <1>8 DEF RootGiven
<1>10. /\ Owned(cr3', temp', lost) /\ Spaces(mem', cr3', temp', lost)
       /\ OthersKept(mem, mem', RootSet(cr3, temp, lost), f) /\ f \notin RootSet(cr3, temp, lost)
  BY <1>2, <1>4, <1>9, NewRoot
<1>11. f # temp[t]
  BY <1>2, <1>5, <1>10, RootFacts
<1>12. At(t)'
  BY <1>5, <1>6, <1>7, <1>11 DEF At
<1>13. "copy" \in Labels
  BY DEF Labels
<1>. QED BY <1>1, <1>6, <1>8, <1>10, <1>12, <1>13, StepInv

LEMMA PagesAre ==
  /\ PagesAt("load") = ElfPage..(DPagingBegin - 1)
  /\ PagesAt("args") = {ArgsPage}
  /\ PagesAt("stack") = StackPage..(ArgsPage - 1)
  /\ \A p \in PagesAt("load") : p \in UserPage /\ p < DPagingBegin
<1>1. /\ PagesAt("load") = ElfPage..(DPagingBegin - 1) /\ PagesAt("args") = {ArgsPage}
      /\ PagesAt("stack") = StackPage..(ArgsPage - 1)
  BY DEF PagesAt
<1>2. \A p \in ElfPage..(DPagingBegin - 1) : p \in UserPage /\ p < DPagingBegin
  BY Layout DEF UserPage
<1>. QED BY <1>1, <1>2

LEMMA LoadELFInv ==
  ASSUME IInv, NEW t \in Task, LoadELF(t), Intact'
  PROVE  IInv'
<1>1. pc[t] = "load" /\ found[t] \in Frame /\ found[t] \notin mem.used /\ FoundType'
  BY MarkIs DEF LoadELF
<1>2. Owned(cr3, temp, lost) /\ Spaces(mem, cr3, temp, lost) /\ At(t) /\ pc \in [Task -> Labels]
  BY IInvFacts
<1>3. cr3[t] # KernelMap /\ temp[t] = cr3[t]
  BY <1>1, <1>2 DEF At
<1> DEFINE M(p) == SetupPageMap(mem, cr3[t], p, found[t], FALSE)
           F(m) == {LeafOf(m, cr3[t], q).frame : q \in PagesAt("load")}
           D(m) == [f \in Frame |-> IF f \in F(m) THEN Image ELSE m.data[f]]
<1>4. PICK p \in UserPage :
        /\ First(p, ToMap(t, mem))
        /\ IF ToMap(t, M(p)) # {} THEN mem' = M(p) /\ UNCHANGED pc
           ELSE mem' = [M(p) EXCEPT !.data = D(M(p))] /\ Goto(t, "pml4")
  BY DEF LoadELF
<1> HIDE DEF M, F, D
<1>5. PICK m2 : m2 = M(p)
  OBVIOUS
<1>6. p < DPagingBegin /\ ~ Mapped(mem, cr3[t], p)
  BY <1>1, <1>4, PagesAre DEF First, ToMap
<1>7. /\ m2 \in Memory /\ Spaces(m2, cr3, temp, lost)
      /\ OthersKept(mem, m2, RootSet(cr3, temp, lost), cr3[t])
  BY <1>1, <1>2, <1>3, <1>5, <1>6, SetupPageSpaces DEF M
<1>8. UNCHANGED <<cr3, temp, lost>>
  BY DEF LoadELF
<1>9. CASE ToMap(t, m2) # {}
  <2>1. mem' = m2 /\ UNCHANGED pc
    BY <1>4, <1>5, <1>9
  <2>2. pc' = [pc EXCEPT ![t] = "load"] /\ pc'[t] = "load"
    BY <1>1, <2>1, GoesOn
  <2>3. At(t)'
    BY <1>3, <1>8, <2>2 DEF At
  <2>4. "load" \in Labels
    BY DEF Labels
  <2>. QED BY <1>1, <1>7, <1>8, <2>1, <2>2, <2>3, <2>4, StayInv
<1>10. CASE ToMap(t, m2) = {}
  <2>1. PICK dt : dt = D(m2)
    OBVIOUS
  <2>2. mem' = [m2 EXCEPT !.data = dt] /\ pc' = [pc EXCEPT ![t] = "pml4"]
    BY <1>4, <1>5, <1>10, <2>1 DEF Goto
  <2>3. PICK fl : fl = F(m2)
    OBVIOUS
  <2>4. dt = [f \in Frame |-> IF f \in fl THEN Image ELSE m2.data[f]]
    BY <2>1, <2>3 DEF D
  <2>5. ASSUME NEW x \in fl PROVE Reaches(m2, cr3[t], x)
    <3>1. PICK q \in PagesAt("load") : x = LeafOf(m2, cr3[t], q).frame
      BY <2>3 DEF F
    <3>2. q \in UserPage /\ Mapped(m2, cr3[t], q)
      BY <1>1, <1>10, PagesAre DEF ToMap
    <3>3. Upper(q) \in UserIndex /\ Lower(q) \in Index
      BY <3>2, PageAt
    <3>4. /\ HasLeaf(m2, cr3[t], Upper(q), Lower(q))
          /\ LeafOf(m2, cr3[t], q) = Leaf(m2, cr3[t], Upper(q), Lower(q))
      BY <3>2, MappedIs
    <3>. QED BY <3>1, <3>3, <3>4 DEF Reaches
  <2>6. /\ m2 = [used |-> m2.used, map |-> m2.map, data |-> m2.data]
        /\ m2.used \in SUBSET Frame /\ m2.map \in [Frame \cup {KernelMap} -> MapType]
        /\ m2.data \in [Frame -> {Zero, Image, Kernel} \cup Task]
    BY <1>7 DEF Memory
  <2>7. mem' = [used |-> m2.used, map |-> m2.map, data |-> dt]
    BY <2>2, <2>6
  <2>8. dt \in [Frame -> {Zero, Image, Kernel} \cup Task]
    BY <2>4, <2>6
  <2>9. mem' \in Memory
    BY <2>6, <2>7, <2>8 DEF Memory
  <2>10. mem'.used = m2.used /\ mem'.map = m2.map /\ mem'.data = dt
    BY <2>7
  <2>11. \A x \in Frame : mem'.data[x] # m2.data[x] => x \in fl /\ mem'.data[x] = Image
    BY <2>4, <2>10
  <2>12. Spaces(mem', cr3, temp, lost)
    BY <1>2, <1>3, <1>7, <2>5, <2>9, <2>10, <2>11, SpacesData
  <2>13. OthersKept(mem, mem', RootSet(cr3, temp, lost), cr3[t])
    <3>1. OthersKept(m2, mem', RootSet(cr3, temp, lost), cr3[t])
      BY <2>10, KeptSame
    <3>. QED BY <1>7, <3>1, KeptTrans
  <2>14. At(t)'
    <3>1. pc'[t] = "pml4"
      BY <1>2, <2>2
    <3>. QED BY <1>3, <1>8, <3>1 DEF At
  <2>15. "pml4" \in Labels
    BY DEF Labels
  <2>. QED BY <1>1, <1>8, <2>2, <2>12, <2>13, <2>14, <2>15, StayInv
<1>. QED BY <1>9, <1>10

LEMMA CopyImageInv ==
  ASSUME IInv, NEW t \in Task, CopyImage(t), Intact'
  PROVE  IInv'
<1>1. pc[t] = "copy" /\ found[t] \in Frame /\ found[t] \notin mem.used /\ FoundType'
  BY MarkIs DEF CopyImage
<1>2. Owned(cr3, temp, lost) /\ Spaces(mem, cr3, temp, lost) /\ At(t)
  BY IInvFacts
<1>3. cr3[t] # KernelMap /\ temp[t] # KernelMap /\ cr3[t] # temp[t]
  BY <1>1, <1>2 DEF At
<1>4. PICK i \in UserIndex : /\ First(i, ToCopy(t, mem))
                             /\ mem' = CopyPageMap(mem, cr3[t], temp[t], i, found[t])
  BY DEF CopyImage
<1>5. Has(mem, temp[t], i) /\ ~ Has(mem, cr3[t], i)
  BY <1>4 DEF First, ToCopy, Has, Present
<1>6. Spaces(mem', cr3, temp, lost) /\ OthersKept(mem, mem', RootSet(cr3, temp, lost), cr3[t])
  BY <1>1, <1>2, <1>3, <1>4, <1>5, CopyPageMapSpaces
<1>7. UNCHANGED <<cr3, temp, lost>>
  BY DEF CopyImage
<1>8. pc' = [pc EXCEPT ![t] = "args"] \/ pc' = [pc EXCEPT ![t] = "copy"]
  BY <1>1, GoesOn DEF CopyImage, Goto
<1>. QED BY <1>1, <1>6, <1>7, <1>8, RunInv

(* A frame for a writable page of the program.                             *)
LEMMA MapFrameSpaces ==
  ASSUME IInv, NEW t \in Task, pc[t] \in {"args", "stack"}, found[t] \in Frame,
         found[t] \notin mem.used, MapFrame(t, TRUE)
  PROVE  Spaces(mem', cr3, temp, lost) /\ OthersKept(mem, mem', RootSet(cr3, temp, lost), cr3[t])
<1>1. Owned(cr3, temp, lost) /\ Spaces(mem, cr3, temp, lost) /\ At(t)
  BY IInvFacts
<1>2. cr3[t] # KernelMap /\ cr3[t] # temp[t]
  BY <1>1 DEF At
<1>3. PICK p \in UserPage : /\ First(p, ToMap(t, mem))
                            /\ mem' = SetupPageMap(mem, cr3[t], p, found[t], TRUE)
  BY DEF MapFrame
<1>4. ~ Mapped(mem, cr3[t], p)
  BY <1>3 DEF First, ToMap
<1>. QED BY <1>1, <1>2, <1>3, <1>4, SetupPageSpaces

LEMMA SetupArgsInv ==
  ASSUME IInv, NEW t \in Task, SetupArgs(t), Intact'
  PROVE  IInv'
<1>1. pc[t] = "args" /\ found[t] \in Frame /\ found[t] \notin mem.used /\ FoundType'
  BY MarkIs DEF SetupArgs
<1>2. Spaces(mem', cr3, temp, lost) /\ OthersKept(mem, mem', RootSet(cr3, temp, lost), cr3[t])
  BY <1>1, MapFrameSpaces DEF SetupArgs
<1>3. CASE Abandon(t, {cr3[t], temp[t]})
  BY <1>1, <1>2, <1>3, AbandonInv
<1>4. CASE ~ Abandon(t, {cr3[t], temp[t]})
  <2>1. (pc' = pc \/ pc' = [pc EXCEPT ![t] = "stack"]) /\ UNCHANGED <<cr3, temp, lost>>
    BY <1>4 DEF SetupArgs, Goto
  <2>2. pc' = [pc EXCEPT ![t] = "args"] \/ pc' = [pc EXCEPT ![t] = "stack"]
    BY <1>1, <2>1, GoesOn
  <2>. QED BY <1>1, <1>2, <2>1, <2>2, RunInv
<1>. QED BY <1>3, <1>4

LEMMA SetupStackInv ==
  ASSUME IInv, NEW t \in Task, SetupStack(t), Intact'
  PROVE  IInv'
<1>1. pc[t] = "stack" /\ found[t] \in Frame /\ found[t] \notin mem.used /\ FoundType'
  BY MarkIs DEF SetupStack
<1>2. Spaces(mem', cr3, temp, lost) /\ OthersKept(mem, mem', RootSet(cr3, temp, lost), cr3[t])
  BY <1>1, MapFrameSpaces DEF SetupStack
<1>3. pc' = [pc EXCEPT ![t] = "user"] \/ pc' = [pc EXCEPT ![t] = "stack"]
  BY <1>1, GoesOn DEF SetupStack, Goto
<1>4. UNCHANGED <<cr3, temp, lost>>
  BY DEF SetupStack
<1>. QED BY <1>1, <1>2, <1>3, <1>4, RunInv

-----------------------------------------------------------------------------
(* The program and its faults.                                             *)
LEMMA StoreSpaces ==
  ASSUME NEW m, NEW c, NEW b, NEW l, Owned(c, b, l), Spaces(m, c, b, l), NEW t \in Task,
         c[t] # KernelMap, NEW p \in UserPage, HasLeaf(m, c[t], Upper(p), Lower(p)),
         NEW x, x = LeafOf(m, c[t], p).frame, NEW n, n = [m EXCEPT !.data[x] = t]
  PROVE  n \in Memory /\ n.map = m.map /\ Spaces(n, c, b, l)
<1>1. Sound(m, RootSet(c, b, l)) /\ c[t] \in RootSet(c, b, l) /\ m \in Memory
  BY RootFacts DEF Spaces, Sound
<1>2. x = Leaf(m, c[t], Upper(p), Lower(p)).frame
  BY MappedIs
<1>3. x \in Frame /\ Reaches(m, c[t], x)
  BY <1>1, <1>2, BehindLeaf
<1>4. /\ m = [used |-> m.used, map |-> m.map, data |-> m.data]
      /\ m.used \in SUBSET Frame /\ m.map \in [Frame \cup {KernelMap} -> MapType]
      /\ m.data \in [Frame -> {Zero, Image, Kernel} \cup Task]
  BY <1>1 DEF Memory
<1>5. PICK dt : dt = [m.data EXCEPT ![x] = t]
  OBVIOUS
<1>6. n = [used |-> m.used, map |-> m.map, data |-> dt]
  BY <1>4, <1>5
<1>7. dt \in [Frame -> {Zero, Image, Kernel} \cup Task]
  BY <1>3, <1>4, <1>5
<1>8. n \in Memory
  BY <1>4, <1>6, <1>7 DEF Memory
<1>9. n.used = m.used /\ n.map = m.map /\ n.data = dt
  BY <1>6
<1>10. \A y \in Frame : n.data[y] # m.data[y] => y = x /\ n.data[y] = t
  BY <1>3, <1>4, <1>5, <1>9
<1>11. Spaces(n, c, b, l)
  <2>1. \A y \in Frame : n.data[y] # m.data[y] => /\ c[t] # KernelMap /\ Reaches(m, c[t], y)
                                                  /\ n.data[y] \in {Image, t}
    BY <1>3, <1>10
  <2>. QED BY <1>8, <1>9, <2>1, SpacesData
<1>. QED BY <1>8, <1>9, <1>11

LEMMA ResultIs ==
  ASSUME NEW m, NEW ok \in BOOLEAN
  PROVE  Result(m, ok).mem = m /\ Result(m, ok).ok = ok
BY DEF Result

LEMMA FaultSpaces ==
  ASSUME IInv, NEW t \in Task, pc[t] = "user", NEW p \in UserPage, NEW w \in BOOLEAN, NEW a \in BOOLEAN,
         ~ (Mapped(mem, cr3[t], p) /\ LeafOf(mem, cr3[t], p).writable),
         NEW r, r = HandlePageFault(t, p, w, a)
  PROVE  /\ Spaces(r.mem, cr3, temp, lost)
         /\ OthersKept(mem, r.mem, RootSet(cr3, temp, lost), cr3[t])
         /\ r.ok => HasLeaf(r.mem, cr3[t], Upper(p), Lower(p))
<1>1. Owned(cr3, temp, lost) /\ Spaces(mem, cr3, temp, lost) /\ At(t)
  BY IInvFacts
<1>2. cr3[t] # KernelMap /\ cr3[t] # temp[t]
  BY <1>1 DEF At
<1>3. CASE r = Result(mem, FALSE)
  <2>1. r.mem = mem /\ ~ r.ok
    BY <1>3, ResultIs
  <2>2. OthersKept(mem, mem, RootSet(cr3, temp, lost), cr3[t])
    BY KeptSame
  <2>. QED BY <1>1, <2>1, <2>2
<1>4. CASE Mapped(mem, cr3[t], p) /\ r = CopyOnePage(mem, cr3[t], p)
  <2>1. HasLeaf(mem, cr3[t], Upper(p), Lower(p)) /\ ~ Leaf(mem, cr3[t], Upper(p), Lower(p)).writable
    BY <1>4, MappedIs
  <2>. QED BY <1>1, <1>2, <1>4, <2>1, CopyOnePageSpaces
<1>5. CASE ~ Mapped(mem, cr3[t], p) /\ r = SetupDemandPage(mem, cr3[t], p)
  <2>1. /\ Spaces(r.mem, cr3, temp, lost)
        /\ OthersKept(mem, r.mem, RootSet(cr3, temp, lost), cr3[t])
        /\ r.ok => Mapped(r.mem, cr3[t], p)
    BY <1>1, <1>2, <1>5, DemandPageSpaces
  <2>. QED BY <2>1, MappedIs
<1>. QED BY <1>3, <1>4, <1>5 DEF HandlePageFault

(* A store that succeeds, after the fault, if any, has been served.        *)
LEMMA StoreInv ==
  ASSUME IInv, NEW t \in Task, pc[t] = "user", NEW p \in UserPage, NEW n,
         Spaces(n, cr3, temp, lost), OthersKept(mem, n, RootSet(cr3, temp, lost), cr3[t]),
         HasLeaf(n, cr3[t], Upper(p), Lower(p)), mem' = Store(n, t, p),
         UNCHANGED <<pc, cr3, temp, lost, found>>
  PROVE  IInv'
<1>1. Owned(cr3, temp, lost) /\ At(t) /\ FoundType'
  BY IInvFacts
<1>2. cr3[t] # KernelMap
  BY <1>1 DEF At
<1>3. mem'.map = n.map /\ Spaces(mem', cr3, temp, lost)
  BY <1>1, <1>2, StoreSpaces DEF Store
<1>4. OthersKept(mem, mem', RootSet(cr3, temp, lost), cr3[t])
  <2>1. OthersKept(n, mem', RootSet(cr3, temp, lost), cr3[t])
    BY <1>3, KeptSame
  <2>. QED BY <2>1, KeptTrans
<1>5. pc' = [pc EXCEPT ![t] = "user"]
  BY GoesOn
<1>. QED BY <1>1, <1>3, <1>4, <1>5, RunInv

LEMMA UserWriteInv ==
  ASSUME IInv, NEW t \in Task, NEW p, UserWrite(t, p)
  PROVE  IInv'
<1>1. pc[t] = "user" /\ p \in UserPage /\ UNCHANGED <<cr3, temp, lost, found>>
  BY DEF UserWrite, Ready
<1>2. CASE Mapped(mem, cr3[t], p) /\ LeafOf(mem, cr3[t], p).writable
  <2>1. mem' = Store(mem, t, p) /\ UNCHANGED pc
    BY <1>2 DEF UserWrite
  <2>2. HasLeaf(mem, cr3[t], Upper(p), Lower(p))
    BY <1>1, <1>2, MappedIs
  <2>3. Spaces(mem, cr3, temp, lost) /\ OthersKept(mem, mem, RootSet(cr3, temp, lost), cr3[t])
    BY IInvFacts, KeptSame
  <2>. QED BY <1>1, <2>1, <2>2, <2>3, StoreInv
<1>3. CASE ~ (Mapped(mem, cr3[t], p) /\ LeafOf(mem, cr3[t], p).writable)
  <2>1. PICK r : r = HandlePageFault(t, p, TRUE, TRUE)
    OBVIOUS
  <2>2. IF r.ok THEN mem' = Store(r.mem, t, p) /\ UNCHANGED pc ELSE mem' = r.mem /\ Goto(t, "clean")
    BY <1>3, <2>1 DEF UserWrite
  <2>3. /\ Spaces(r.mem, cr3, temp, lost)
        /\ OthersKept(mem, r.mem, RootSet(cr3, temp, lost), cr3[t])
        /\ r.ok => HasLeaf(r.mem, cr3[t], Upper(p), Lower(p))
    BY <1>1, <1>3, <2>1, FaultSpaces
  <2>4. CASE r.ok
    BY <1>1, <2>2, <2>3, <2>4, StoreInv
  <2>5. CASE ~ r.ok
    <3>1. mem' = r.mem /\ pc' = [pc EXCEPT ![t] = "clean"] /\ FoundType'
      BY <1>1, <2>2, <2>5, IInvFacts DEF Goto
    <3>. QED BY <1>1, <2>3, <3>1, RunInv
  <2>. QED BY <2>4, <2>5
<1>. QED BY <1>2, <1>3

LEMMA UserReadInv ==
  ASSUME IInv, NEW t \in Task, NEW p, UserRead(t, p)
  PROVE  IInv'
<1>1. pc[t] = "user" /\ UNCHANGED <<cr3, temp, lost>> /\ FoundType'
  BY IInvFacts DEF UserRead, Ready
<1>2. CASE p \in KernelPage /\ Goto(t, "clean") /\ UNCHANGED mem
  <2>1. pc' = [pc EXCEPT ![t] = "clean"]
    BY <1>2 DEF Goto
  <2>2. Spaces(mem', cr3, temp, lost) /\ OthersKept(mem, mem', RootSet(cr3, temp, lost), cr3[t])
    BY <1>2, IInvFacts, KeptSame
  <2>. QED BY <1>1, <2>1, <2>2, RunInv
<1>3. CASE ~ (p \in KernelPage /\ Goto(t, "clean") /\ UNCHANGED mem)
  <2>1. PICK r : r = HandlePageFault(t, p, FALSE, TRUE)
    OBVIOUS
  <2>2. /\ p \in UserPage /\ ~ Mapped(mem, cr3[t], p)
        /\ mem' = r.mem /\ (UNCHANGED pc \/ Goto(t, "clean"))
    BY <1>3, <2>1 DEF UserRead
  <2>3. Spaces(mem', cr3, temp, lost) /\ OthersKept(mem, mem', RootSet(cr3, temp, lost), cr3[t])
    BY <1>1, <2>1, <2>2, FaultSpaces
  <2>4. pc' = [pc EXCEPT ![t] = "clean"] \/ pc' = [pc EXCEPT ![t] = "user"]
    BY <1>1, <2>2, GoesOn DEF Goto
  <2>. QED BY <1>1, <2>3, <2>4, RunInv
<1>. QED BY <1>2, <1>3

LEMMA KernelWriteInv ==
  ASSUME IInv, NEW t \in Task, NEW p, KernelWrite(t, p)
  PROVE  IInv'
<1>1. pc[t] = "user" /\ p \in UserPage /\ UNCHANGED <<cr3, temp, lost, found>>
  BY DEF KernelWrite, Ready
<1>2. PICK r : r = IF Mapped(mem, cr3[t], p) THEN Result(mem, TRUE)
                   ELSE HandlePageFault(t, p, TRUE, FALSE)
  OBVIOUS
<1>3. IF r.ok THEN mem' = Store(r.mem, t, p) /\ UNCHANGED pc ELSE mem' = r.mem /\ Goto(t, "halt")
  BY <1>2 DEF KernelWrite
<1>4. /\ Spaces(r.mem, cr3, temp, lost)
      /\ OthersKept(mem, r.mem, RootSet(cr3, temp, lost), cr3[t])
      /\ r.ok => HasLeaf(r.mem, cr3[t], Upper(p), Lower(p))
  <2>1. CASE Mapped(mem, cr3[t], p)
    <3>1. r = Result(mem, TRUE)
      BY <1>2, <2>1
    <3>2. r.mem = mem
      BY <3>1, ResultIs
    <3>3. HasLeaf(mem, cr3[t], Upper(p), Lower(p))
      BY <1>1, <2>1, MappedIs
    <3>. QED BY <3>2, <3>3, IInvFacts, KeptSame
  <2>2. CASE ~ Mapped(mem, cr3[t], p)
    <3>1. r = HandlePageFault(t, p, TRUE, FALSE)
      BY <1>2, <2>2
    <3>. QED BY <1>1, <2>2, <3>1, FaultSpaces
  <2>. QED BY <2>1, <2>2
<1>5. CASE r.ok
  BY <1>1, <1>3, <1>4, <1>5, StoreInv
<1>6. CASE ~ r.ok
  <2>1. mem' = r.mem /\ pc' = [pc EXCEPT ![t] = "halt"] /\ FoundType'
    BY <1>1, <1>3, <1>6, IInvFacts DEF Goto
  <2>. QED BY <1>1, <1>4, <2>1, RunInv
<1>. QED BY <1>5, <1>6

(* A fault in the kernel half takes a frame and, since no frame in use was *)
(* overwritten, changes nothing else.                                      *)
LEMMA UserWriteKernelInv ==
  ASSUME IInv, NEW t \in Task, NEW p, UserWriteKernel(t, p), Intact'
  PROVE  IInv'
<1>1. /\ pc[t] \in {"user", "again"} /\ UNCHANGED <<cr3, temp>> /\ FoundType'
  BY IInvFacts DEF UserWriteKernel, Ready
<1>2. /\ mem \in Memory /\ Owned(cr3, temp, lost) /\ Spaces(mem, cr3, temp, lost) /\ At(t)
      /\ pc \in [Task -> Labels]
  BY IInvFacts
<1>3. CASE FreeFrames(mem) = {}
  <2>1. pc' = [pc EXCEPT ![t] = "clean"] /\ UNCHANGED <<mem, lost>>
    BY <1>3 DEF UserWriteKernel, Goto
  <2>2. Spaces(mem', cr3, temp, lost) /\ OthersKept(mem, mem', RootSet(cr3, temp, lost), cr3[t])
    BY <1>2, <2>1, KeptSame
  <2>. QED BY <1>1, <2>1, <2>2, RunInv
<1>4. CASE FreeFrames(mem) # {}
  <2>1. PICK f : f = NewFrame(mem)
    OBVIOUS
  <2>2. /\ mem' = CopyKernelPage(mem, p) /\ lost' = lost \cup {f} /\ pc' = [pc EXCEPT ![t] = "again"]
        /\ TableOfKernelPage(p) \notin mem.used
    BY <1>4, <2>1 DEF UserWriteKernel, Goto, Intact
  <2>3. f \in Frame /\ f \notin mem.used
    BY <1>2, <1>4, <2>1, NewFrameIs
  <2>4. PICK m2 : m2 = NewPageMap(mem, f)
    OBVIOUS
  <2>5. PICK d : d = IF p \in Frame THEN mem.data[p] ELSE Kernel
    OBVIOUS
  <2>6. mem' = [m2 EXCEPT !.data[f] = d]
    BY <2>1, <2>2, <2>4, <2>5 DEF CopyKernelPage
  <2>7. /\ m2 \in Memory /\ m2.used = mem.used \cup {f}
        /\ m2.map = [mem.map EXCEPT ![f] = EmptyMap]
        /\ m2.data = [mem.data EXCEPT ![f] = Zero]
    BY <1>2, <2>3, <2>4, NewPageMapIs
  <2>8. /\ m2 = [used |-> m2.used, map |-> m2.map, data |-> m2.data]
        /\ m2.used \in SUBSET Frame /\ m2.map \in [Frame \cup {KernelMap} -> MapType]
        /\ m2.data \in [Frame -> {Zero, Image, Kernel} \cup Task]
    BY <2>7 DEF Memory
  <2>9. /\ mem.map \in [Frame \cup {KernelMap} -> MapType]
        /\ mem.data \in [Frame -> {Zero, Image, Kernel} \cup Task]
    BY <1>2 DEF Memory
  <2>10. d \in {Zero, Image, Kernel} \cup Task
    BY <2>5, <2>9
  <2>11. PICK dt : dt = [m2.data EXCEPT ![f] = d]
    OBVIOUS
  <2>12. mem' = [used |-> m2.used, map |-> m2.map, data |-> dt]
    BY <2>6, <2>8, <2>11
  <2>13. dt \in [Frame -> {Zero, Image, Kernel} \cup Task]
    BY <2>8, <2>10, <2>11
  <2>14. mem' \in Memory
    BY <2>8, <2>12, <2>13 DEF Memory
  <2>15. mem'.used = mem.used \cup {f} /\ mem'.map = m2.map /\ mem'.data = dt
    BY <2>7, <2>12
  <2>16. /\ m2.map[f] = EmptyMap /\ \A x \in Frame : x = f \/ m2.map[x] = mem.map[x]
         /\ \A x \in Frame : x = f \/ m2.data[x] = mem.data[x]
    BY <2>3, <2>7, <2>9
  <2>17. \A x \in Frame : x = f \/ dt[x] = mem.data[x]
    BY <2>3, <2>8, <2>11, <2>16
  <2>18. \A i \in UserIndex : EmptyMap[i] = NotPresent
    BY EntryIs, Halves
  <2>19. RootAdded(mem, mem', f)
    BY <2>3, <2>14, <2>15, <2>16, <2>17, <2>18 DEF RootAdded
  <2>20. /\ Owned(cr3', temp', lost') /\ Spaces(mem', cr3', temp', lost')
         /\ OthersKept(mem, mem', RootSet(cr3, temp, lost), f) /\ f \notin RootSet(cr3, temp, lost)
    BY <1>1, <1>2, <2>2, <2>19, LeakRoot
  <2>21. At(t)'
    BY <1>1, <1>2, <2>2 DEF At
  <2>22. "again" \in Labels
    BY DEF Labels
  <2>. QED BY <1>1, <2>2, <2>20, <2>21, <2>22, StepInv
<1>. QED BY <1>3, <1>4

LEMMA OtherStepsInv ==
  ASSUME IInv, NEW t \in Task, DemandPages(t) \/ ExitProgram(t)
  PROVE  IInv'
<1>1. pc[t] = "user" /\ UNCHANGED <<mem, cr3, temp, lost>> /\ FoundType'
  BY IInvFacts DEF DemandPages, ExitProgram, Ready
<1>2. pc' = [pc EXCEPT ![t] = "clean"] \/ pc' = [pc EXCEPT ![t] = "user"]
  BY <1>1, GoesOn DEF DemandPages, ExitProgram, Goto
<1>3. Spaces(mem', cr3, temp, lost) /\ OthersKept(mem, mem', RootSet(cr3, temp, lost), cr3[t])
  BY <1>1, IInvFacts, KeptSame
<1>. QED BY <1>1, <1>2, <1>3, RunInv

LEMMA CleanProgramInv ==
  ASSUME IInv, NEW t \in Task, CleanProgram(t)
  PROVE  IInv'
<1>1. /\ Owned(cr3, temp, lost) /\ Spaces(mem, cr3, temp, lost) /\ At(t) /\ pc[t] = "clean"
      /\ pc \in [Task -> Labels] /\ FoundType'
  BY IInvFacts DEF CleanProgram, Ready
<1>2. cr3[t] # KernelMap /\ temp[t] # KernelMap /\ cr3[t] # temp[t]
  BY <1>1 DEF At
<1>3. /\ mem' = CleanPageMaps(mem, cr3[t]) /\ pc' = [pc EXCEPT ![t] = "free"]
      /\ UNCHANGED <<cr3, temp, lost>>
  BY DEF CleanProgram, Goto
<1>4. /\ Spaces(mem', cr3, temp, lost) /\ OthersKept(mem, mem', RootSet(cr3, temp, lost), cr3[t])
      /\ \A i \in UserIndex : ~ Has(mem', cr3[t], i)
  BY <1>1, <1>2, <1>3, CleanSpaces
<1>5. At(t)'
  BY <1>1, <1>2, <1>3, <1>4 DEF At
<1>6. "free" \in Labels
  BY DEF Labels
<1>. QED BY <1>1, <1>3, <1>4, <1>5, <1>6, StayInv

LEMMA FreePML4Inv ==
  ASSUME IInv, NEW t \in Task, FreePML4(t)
  PROVE  IInv'
<1>1. /\ Owned(cr3, temp, lost) /\ Spaces(mem, cr3, temp, lost) /\ At(t) /\ pc[t] = "free"
      /\ pc \in [Task -> Labels] /\ mem \in Memory /\ FoundType'
      /\ cr3 \in [Task -> Frame \cup {KernelMap}] /\ temp \in [Task -> Frame \cup {KernelMap}]
  BY IInvFacts DEF FreePML4, Ready
<1>2. /\ cr3[t] # KernelMap /\ temp[t] # KernelMap /\ cr3[t] # temp[t]
      /\ \A i \in UserIndex : ~ Has(mem, cr3[t], i)
  BY <1>1 DEF At
<1>3. /\ mem' = [mem EXCEPT !.used = mem.used \ {cr3[t]}] /\ pc' = [pc EXCEPT ![t] = "done"]
      /\ cr3' = [cr3 EXCEPT ![t] = KernelMap] /\ temp' = [temp EXCEPT ![t] = KernelMap]
      /\ lost' = lost \cup {temp[t]}
  BY DEF FreePML4, Goto
<1>4. /\ mem' \in Memory /\ mem'.used = mem.used \ {cr3[t]} /\ mem'.map = mem.map
      /\ mem'.data = mem.data
  BY <1>1, <1>3 DEF Memory
<1>5. Dropped(cr3, temp, t, cr3', temp')
  BY <1>1, <1>3 DEF Dropped
<1>6. Owned(cr3', temp', lost') /\ Spaces(mem', cr3', temp', lost')
  BY <1>1, <1>2, <1>3, <1>4, <1>5, FreeRoot
<1>7. OthersKept(mem, mem', RootSet(cr3, temp, lost), cr3[t])
  BY <1>4, KeptSame
<1>8. At(t)'
  BY <1>1, <1>3 DEF At
<1>9. \A u \in Task : u # t => cr3'[u] = cr3[u] /\ temp'[u] = temp[u]
  BY <1>5 DEF Dropped
<1>10. "done" \in Labels
  BY DEF Labels
<1>. QED BY <1>1, <1>3, <1>6, <1>7, <1>8, <1>9, <1>10, StepInv

LEMMA InitInv ==
  ASSUME Init
  PROVE  IInv
<1>1. /\ \A t \in Task : cr3[t] = KernelMap /\ temp[t] = KernelMap /\ pc[t] = "new"
      /\ lost = {} /\ mem.used = {}
      /\ cr3 \in [Task -> Frame \cup {KernelMap}] /\ temp \in [Task -> Frame \cup {KernelMap}]
      /\ pc \in [Task -> Labels]
  BY DEF Init, Labels
<1>2. mem \in Memory
  <2>1. EmptyMap \in MapType
    BY EntryIs
  <2>. QED BY <2>1 DEF Init, Memory
<1>3. \A t \in Task : RootsIn(cr3, temp, t) = {}
  BY <1>1 DEF RootsIn
<1>4. RootSet(cr3, temp, lost) = {}
  BY <1>1, <1>3 DEF RootSet
<1>5. Owned(cr3, temp, lost)
  BY <1>1, <1>3 DEF Owned
<1>6. Sound(mem, {}) /\ Separate(mem, {}, cr3, temp)
  BY <1>1, <1>2 DEF Sound, TablesOK, LeavesOK, Covered, Separate
<1>7. \A t \in Task : Program(mem, cr3, temp, t)
  BY <1>1, <1>3 DEF Program
<1>8. Spaces(mem, cr3, temp, lost)
  BY <1>4, <1>6, <1>7 DEF Spaces
<1>9. \A t \in Task : At(t)
  BY <1>1 DEF At
<1>10. PcType /\ FoundType
  BY <1>1 DEF PcType, Labels, FoundType, Init
<1>. QED BY <1>5, <1>8, <1>9, <1>10 DEF IInv

LEMMA NextInv ==
  ASSUME Intact => IInv, [Next]_vars, Intact'
  PROVE  IInv'
<1>1. CASE Next
  <2>1. PICK t \in Task :
          \/ FindFrame(t)
          \/ SetupTempPML4(t) \/ LoadELF(t) \/ SetupAppPML4(t) \/ CopyImage(t)
          \/ SetupArgs(t) \/ SetupStack(t)
          \/ \E p \in Touched : \/ UserWrite(t, p) \/ UserRead(t, p) \/ KernelWrite(t, p)
                                \/ UserWriteKernel(t, p) \/ KernelWriteKernel(t, p)
          \/ DemandPages(t) \/ ExitProgram(t)
          \/ CleanProgram(t) \/ FreePML4(t)
    BY <1>1 DEF Next
  <2>2. ASSUME NEW label, Ready(t, label) PROVE IInv
    BY <2>2 DEF Ready, Intact
  <2>3. CASE FindFrame(t)
    <3>1. IInv
      BY <2>2, <2>3 DEF FindFrame
    <3>. QED BY <2>3, <3>1, FindFrameInv
  <2>4. CASE \/ SetupTempPML4(t) \/ LoadELF(t) \/ SetupAppPML4(t) \/ CopyImage(t)
             \/ SetupArgs(t) \/ SetupStack(t)
    <3>1. \E label : MarkFrame(t, label)
      BY <2>4 DEF SetupTempPML4, LoadELF, SetupAppPML4, CopyImage, SetupArgs, SetupStack
    <3>2. IInv
      BY <2>2, <3>1 DEF MarkFrame
    <3>. QED BY <2>4, <3>2, SetupTempPML4Inv, LoadELFInv, SetupAppPML4Inv, CopyImageInv, SetupArgsInv,
                SetupStackInv
  <2>5. CASE \E p \in Touched : \/ UserWrite(t, p) \/ UserRead(t, p) \/ KernelWrite(t, p)
                                \/ UserWriteKernel(t, p) \/ KernelWriteKernel(t, p)
    <3>1. PICK p \in Touched : \/ UserWrite(t, p) \/ UserRead(t, p) \/ KernelWrite(t, p)
                               \/ UserWriteKernel(t, p) \/ KernelWriteKernel(t, p)
      BY <2>5
    <3>2. ~ KernelWriteKernel(t, p)
      BY DEF KernelWriteKernel, Intact
    <3>3. IInv
      BY <2>2, <3>1 DEF UserWrite, UserRead, KernelWrite, UserWriteKernel, KernelWriteKernel
    <3>. QED BY <3>1, <3>2, <3>3, UserWriteInv, UserReadInv, KernelWriteInv, UserWriteKernelInv
  <2>6. CASE DemandPages(t) \/ ExitProgram(t)
    <3>1. IInv
      BY <2>2, <2>6 DEF DemandPages, ExitProgram
    <3>. QED BY <2>6, <3>1, OtherStepsInv
  <2>7. CASE CleanProgram(t) \/ FreePML4(t)
    <3>1. IInv
      BY <2>2, <2>7 DEF CleanProgram, FreePML4
    <3>. QED BY <2>7, <3>1, CleanProgramInv, FreePML4Inv
  <2>. QED BY <2>1, <2>3, <2>4, <2>5, <2>6, <2>7
<1>2. CASE UNCHANGED vars
  <2>1. UNCHANGED <<mem, cr3, temp, pc, lost, found, harm>>
    BY <1>2 DEF vars
  <2>2. IInv
    BY <2>1 DEF Intact
  <2>. QED BY <2>1, <2>2, SameInv, IInvFacts
<1>. QED BY <1>1, <1>2

(* In every reachable state, IInv holds unless a frame in use has been     *)
(* overwritten: Init establishes it, and every other step, of a program,   *)
(* of the loader and of the handlers of kernel/paging.cpp, keeps it.       *)
THEOREM InvariantHolds == Spec => [](Intact => IInv)
<1>1. Init => (Intact => IInv)
  BY InitInv
<1>2. (Intact => IInv) /\ [Next]_vars => (Intact => IInv)'
  BY NextInv
<1>. QED BY <1>1, <1>2, PTL DEF Spec

-----------------------------------------------------------------------------
(* The properties of module AddressSpace in the words of the invariant.    *)
LEMMA TreeIs ==
  ASSUME NEW r
  PROVE  /\ \A f : f \in Tables(r) <=> TableOf(mem, r, f)
         /\ \A f : f \in Leaves(r) <=> Reaches(mem, r, f)
         /\ \A f : f \in Tree(r) <=> f = r \/ TableOf(mem, r, f) \/ Reaches(mem, r, f)
<1>1. ASSUME NEW f PROVE f \in Tables(r) <=> TableOf(mem, r, f)
  BY DEF Tables, TableOf, Has, Present
<1>2. ASSUME NEW f, f \in Leaves(r) PROVE Reaches(mem, r, f)
  <2>1. PICK x \in Tables(r) : \E j \in Index : mem.map[x][j] # NotPresent /\ mem.map[x][j].frame = f
    BY <1>2 DEF Leaves, Present
  <2>2. PICK j \in Index : mem.map[x][j] # NotPresent /\ mem.map[x][j].frame = f
    BY <2>1
  <2>3. PICK i \in UserIndex : Has(mem, r, i) /\ mem.map[r][i].frame = x
    BY <1>1, <2>1 DEF TableOf
  <2>4. Leaf(mem, r, i, j) = mem.map[x][j]
    BY <2>3 DEF Leaf
  <2>5. HasLeaf(mem, r, i, j)
    BY <2>2, <2>3, <2>4 DEF HasLeaf
  <2>. QED BY <2>2, <2>4, <2>5 DEF Reaches
<1>3. ASSUME NEW f, Reaches(mem, r, f) PROVE f \in Leaves(r)
  <2>1. PICK i \in UserIndex, j \in Index : HasLeaf(mem, r, i, j) /\ Leaf(mem, r, i, j).frame = f
    BY <1>3 DEF Reaches
  <2>2. PICK x : x = mem.map[r][i].frame
    OBVIOUS
  <2>3. Has(mem, r, i) /\ Leaf(mem, r, i, j) = mem.map[x][j] /\ mem.map[x][j] # NotPresent
    BY <2>1, <2>2 DEF HasLeaf, Leaf
  <2>4. x \in Tables(r)
    BY <1>1, <2>2, <2>3 DEF TableOf
  <2>5. j \in {k \in Index : Present(mem, x, k)}
    BY <2>3 DEF Present
  <2>6. f \in {mem.map[x][k].frame : k \in {k \in Index : Present(mem, x, k)}}
    BY <2>1, <2>3, <2>5
  <2>. QED BY <2>4, <2>6 DEF Leaves
<1>. QED BY <1>1, <1>2, <1>3 DEF Tree

LEMMA RootsAre ==
  ASSUME NEW t
  PROVE  RootsOf(t) = RootsIn(cr3, temp, t)
BY DEF RootsOf, RootsIn

LEMMA AccountedFor ==
  ASSUME IInv
  PROVE  FramesAccounted
<1>1. PICK R : R = RootSet(cr3, temp, lost)
  OBVIOUS
<1>2. Sound(mem, R) /\ Owned(cr3, temp, lost)
  BY <1>1, IInvFacts
<1> DEFINE held == UNION {TreeOf(t) : t \in Task}
           left == UNION {Tree(r) : r \in lost}
           all == held \cup left
<1>c. /\ \A f : f \in held <=> \E t \in Task : f \in TreeOf(t)
      /\ \A f : f \in left <=> \E r \in lost : f \in Tree(r)
  OBVIOUS
<1> HIDE DEF held, left
<1>3. all = held \cup left
  OBVIOUS
<1> HIDE DEF all
<1>4. ASSUME NEW f PROVE f \in all <=> \E r \in R : f \in Tree(r)
  <2>1. ASSUME NEW t \in Task, f \in TreeOf(t) PROVE \E r \in R : f \in Tree(r)
    <3>1. PICK r \in RootsOf(t) : f \in Tree(r)
      BY <2>1 DEF TreeOf
    <3>2. r \in R
      BY <1>1, <1>2, RootsAre, RootFacts
    <3>. QED BY <3>1, <3>2
  <2>2. ASSUME NEW r \in lost, f \in Tree(r) PROVE \E q \in R : f \in Tree(q)
    <3>1. r \in R
      BY <1>1, <1>2, RootFacts
    <3>. QED BY <2>2, <3>1
  <2>3. ASSUME NEW r \in R, f \in Tree(r) PROVE f \in all
    <3>1. CASE r \in lost
      BY <1>3, <1>c, <2>3, <3>1
    <3>2. CASE r \notin lost
      <4>1. PICK t \in Task : r \in RootsIn(cr3, temp, t)
        BY <1>1, <1>2, <3>2, RootFacts
      <4>2. f \in TreeOf(t)
        BY <2>3, <4>1, RootsAre DEF TreeOf
      <4>. QED BY <1>3, <1>c, <4>2
    <3>. QED BY <3>1, <3>2
  <2>4. f \in all => (\E t \in Task : f \in TreeOf(t)) \/ (\E r \in lost : f \in Tree(r))
    BY <1>3, <1>c
  <2>. QED BY <2>1, <2>2, <2>3, <2>4
<1>5. ASSUME NEW f, f \in mem.used PROVE f \in all
  <2>1. f \in R \/ \E r \in R : TableOf(mem, r, f) \/ Reaches(mem, r, f)
    BY <1>2, <1>5 DEF Sound, Covered
  <2>2. \E r \in R : f \in Tree(r)
    BY <2>1, TreeIs
  <2>. QED BY <1>4, <2>2
<1>6. ASSUME NEW f, f \in all PROVE f \in mem.used
  <2>1. PICK r \in R : f \in Tree(r)
    BY <1>4, <1>6
  <2>2. f = r \/ TableOf(mem, r, f) \/ Reaches(mem, r, f)
    BY <2>1, TreeIs
  <2>. QED BY <1>2, <2>1, <2>2, RootsAreFrames, TableIs, ReachedIs
<1>7. mem.used = all
  BY <1>5, <1>6
<1>. QED BY <1>7 DEF FramesAccounted, all, held, left

LEMMA IsolatedNow ==
  ASSUME IInv
  PROVE  Isolation
<1>1. PICK R : R = RootSet(cr3, temp, lost)
  OBVIOUS
<1>2. Sound(mem, R) /\ Owned(cr3, temp, lost) /\ Separate(mem, R, cr3, temp)
  BY <1>1, IInvFacts DEF Spaces
<1>3. ASSUME NEW t \in Task, NEW u \in Task, t # u PROVE TreeOf(t) \cap TreeOf(u) = {}
  <2>1. SUFFICES ASSUME NEW f, f \in TreeOf(t), f \in TreeOf(u) PROVE FALSE
    OBVIOUS
  <2>2. PICK r \in RootsIn(cr3, temp, t) : f = r \/ TableOf(mem, r, f) \/ Reaches(mem, r, f)
    BY <2>1, RootsAre, TreeIs DEF TreeOf
  <2>3. PICK q \in RootsIn(cr3, temp, u) : f = q \/ TableOf(mem, q, f) \/ Reaches(mem, q, f)
    BY <2>1, RootsAre, TreeIs DEF TreeOf
  <2>4. r \in R /\ q \in R /\ r # q /\ r \notin RootsIn(cr3, temp, u)
    BY <1>1, <1>2, <1>3, RootFacts
  <2>5. CASE f = r
    BY <1>2, <2>3, <2>4, <2>5, TableIs, ReachedIs
  <2>6. CASE TableOf(mem, r, f)
    <3>1. f # q /\ ~ Reaches(mem, q, f)
      BY <1>2, <2>4, <2>6, TableIs, ReachedIs
    <3>2. ~ TableOf(mem, q, f)
      BY <1>2, <2>4, <2>6 DEF TableOf, Sound, TablesOK
    <3>. QED BY <2>3, <3>1, <3>2
  <2>7. CASE Reaches(mem, r, f)
    <3>1. f \in Frame /\ f # q /\ ~ TableOf(mem, q, f)
      BY <1>2, <2>4, <2>7, ReachedIs
    <3>2. ~ Reaches(mem, q, f)
      BY <1>2, <2>3, <2>4, <2>7, <3>1 DEF Separate
    <3>. QED BY <2>3, <3>1, <3>2
  <2>. QED BY <2>2, <2>5, <2>6, <2>7
<1>4. ASSUME NEW t \in Task, NEW r \in RootsOf(t)
      PROVE  Leaves(r) \cap (RootsOf(t) \cup UNION {Tables(q) : q \in RootsOf(t)}) = {}
  <2>1. SUFFICES ASSUME NEW f, f \in Leaves(r), f \in RootsOf(t) \cup UNION {Tables(q) : q \in RootsOf(t)}
                 PROVE  FALSE
    OBVIOUS
  <2>2. RootsOf(t) \subseteq R
    BY <1>1, <1>2, RootsAre, RootFacts
  <2>3. f \notin R /\ \A q \in R : ~ TableOf(mem, q, f)
    BY <1>2, <2>1, <2>2, TreeIs, ReachedIs
  <2>4. f \in RootsOf(t) \/ \E q \in RootsOf(t) : f \in Tables(q)
    BY <2>1
  <2>. QED BY <2>2, <2>3, <2>4, TreeIs
<1>. QED BY <1>3, <1>4 DEF Isolation

LEMMA OwnDataNow ==
  ASSUME IInv
  PROVE  NoForeignData
<1>1. SUFFICES ASSUME NEW t \in Task, pc[t] \in {"user", "again"}, NEW f \in Leaves(cr3[t])
               PROVE  mem.data[f] \in {Zero, Image, t}
  BY DEF NoForeignData
<1>2. /\ Owned(cr3, temp, lost) /\ At(t) /\ Sound(mem, RootSet(cr3, temp, lost))
      /\ Spaces(mem, cr3, temp, lost)
  BY IInvFacts
<1>3. cr3[t] # KernelMap
  BY <1>1, <1>2 DEF At
<1>4. cr3[t] \in RootsIn(cr3, temp, t) /\ cr3[t] \in RootSet(cr3, temp, lost)
  BY <1>2, <1>3, RootFacts
<1>5. Reaches(mem, cr3[t], f)
  BY <1>1, TreeIs
<1>6. f \in Frame
  BY <1>2, <1>4, <1>5, ReachedIs
<1>. QED BY <1>2, <1>4, <1>5, <1>6 DEF Spaces, Program

LEMMA PrivateNow ==
  ASSUME IInv
  PROVE  WritableIsPrivate
<1>1. SUFFICES ASSUME NEW t \in Task, temp[t] # KernelMap, cr3[t] # temp[t], NEW p \in UserPage,
                      Mapped(mem, cr3[t], p), LeafOf(mem, cr3[t], p).writable
               PROVE  LeafOf(mem, cr3[t], p).frame \notin Leaves(temp[t])
  BY DEF WritableIsPrivate
<1>2. At(t) /\ Spaces(mem, cr3, temp, lost) /\ pc[t] \in Labels
  BY IInvFacts
<1>3. cr3[t] # KernelMap
  BY <1>1, <1>2 DEF At, Labels
<1>4. Upper(p) \in UserIndex /\ Lower(p) \in Index
  BY PageAt
<1>5. /\ HasLeaf(mem, cr3[t], Upper(p), Lower(p))
      /\ LeafOf(mem, cr3[t], p) = Leaf(mem, cr3[t], Upper(p), Lower(p))
  BY <1>1, MappedIs
<1>6. ~ Reaches(mem, temp[t], Leaf(mem, cr3[t], Upper(p), Lower(p)).frame)
  BY <1>1, <1>2, <1>3, <1>4, <1>5 DEF Spaces, Program
<1>. QED BY <1>5, <1>6, TreeIs

-----------------------------------------------------------------------------
(* For every number of tasks, frames, page map entries and pages, and as   *)
(* long as no frame in use was overwritten (by a task that was preempted   *)
(* in Allocate, or by a store a program caused in the kernel half): the    *)
(* allocation bitmap (memory_manager) has a frame marked exactly when it   *)
(* belongs to the page map of a task, to one that LoadApp or a failed      *)
(* start left behind, or was taken by a fault in the kernel half.  No      *)
(* sequence of loading, faulting, copying, exiting and cleaning frees a    *)
(* frame that is still mapped, or loses another one.                       *)
THEOREM FramesAreAccounted == Spec => []FramesAccounted
<1>1. (Intact => IInv) => FramesAccounted
  BY AccountedFor DEF FramesAccounted
<1>. QED BY <1>1, InvariantHolds, PTL

(* Under the same condition no two tasks share a frame, whatever           *)
(* SetupPageMaps, CopyPageMaps, CopyOnePage and CleanPageMaps did before,  *)
(* and no page of a program is one of its own page maps: the race of two   *)
(* Allocate and the stores in the kernel half are the only ways out of it. *)
THEOREM TasksAreIsolated == Spec => []Isolation
<1>1. (Intact => IInv) => Isolation
  BY IsolatedNow DEF Isolation
<1>. QED BY <1>1, InvariantHolds, PTL

(* Under the same condition a program finds in its pages its image, zeros  *)
(* or what was stored for it: NewPageMap clears every frame it hands out.  *)
THEOREM DataIsOwn == Spec => []NoForeignData
<1>1. (Intact => IInv) => NoForeignData
  BY OwnDataNow DEF NoForeignData
<1>. QED BY <1>1, InvariantHolds, PTL

(* Under the same condition a page a program may write is never one of the *)
(* loaded image: CopyOnePage gives the program a copy before the entry     *)
(* becomes writable.                                                       *)
THEOREM ImageIsShared == Spec => []WritableIsPrivate
<1>1. (Intact => IInv) => WritableIsPrivate
  BY PrivateNow DEF WritableIsPrivate
<1>. QED BY <1>1, InvariantHolds, PTL
=============================================================================
