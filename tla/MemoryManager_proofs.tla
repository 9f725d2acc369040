------------------------ MODULE MemoryManager_proofs -------------------------
(***************************************************************************)
(* Proofs about the bitmap allocator, for every size of the memory, every  *)
(* memory map and every sequence of calls.                                 *)
(***************************************************************************)
EXTENDS MemoryManager, SequenceTheorems, WellFoundedInduction, TLAPS

(* A non-empty set of naturals has a least element.                        *)
LEMMA LeastNatural ==
  ASSUME NEW T \in SUBSET Nat, T # {}
  PROVE  \E x \in T : \A y \in T : x <= y
<1> DEFINE R == OpToRel(<, Nat)
<1>1. IsWellFoundedOn(R, Nat)
  BY NatLessThanWellFounded
<1>2. PICK x \in T : \A y \in T : ~ (<<y, x>> \in R)
  BY <1>1, WFMin
<1>3. \A m, n \in Nat : m < n => <<m, n>> \in R
  BY DEF OpToRel
<1> HIDE DEF R
<1>4. \A y \in T : ~ (y < x)
  BY <1>2, <1>3
<1>5. \A y \in T : y \in Nat /\ x \in Nat
  OBVIOUS
<1>6. \A y \in T : x <= y
  BY <1>4, <1>5
<1>. QED BY <1>6

(* A non-empty subset of 0..n has a greatest element.                      *)
LEMMA GreatestNatural ==
  ASSUME NEW n \in Nat, NEW T \in SUBSET (0..n), T # {}
  PROVE  \E x \in T : \A y \in T : y <= x
<1> DEFINE D == {n - y : y \in T}
<1>1. D \in SUBSET Nat /\ D # {}
  <2>1. \A y \in T : n - y \in Nat
    OBVIOUS
  <2>. QED BY <2>1
<1>2. PICK d \in D : \A e \in D : d <= e
  BY <1>1, LeastNatural
<1>3. PICK x \in T : d = n - x
  OBVIOUS
<1>4. \A y \in T : n - x <= n - y
  BY <1>2, <1>3
<1>5. \A y \in T : y <= x
  BY <1>4
<1>. QED BY <1>5

(* The inductive invariant.  Between range_begin_ and range_end_ a frame   *)
(* that is not reserved is available: this is what InitializeMemoryManager *)
(* establishes and Allocate relies on.                                     *)
RangeCovered ==
  \A f \in Nat : f < rangeEnd /\ f \notin reserved => f \in available

MTypes ==
  /\ rangeEnd \in 0..FrameCount
  /\ blocks \subseteq [start : Frame, n : Nat]

MInv ==
  MTypes /\ RangeCovered /\ BitsAreBlocks /\ BlocksDisjoint /\ OnlyAvailable

-----------------------------------------------------------------------------
(* The descriptors of a memory map.                                        *)
LEMMA MapTypes ==
  ASSUME NEW map, IsMemoryMap(map)
  PROVE  /\ Len(map) \in Nat
         /\ \A j \in 1..Len(map) : /\ map[j].start \in Nat /\ map[j].pages \in Nat
                                   /\ map[j].available \in BOOLEAN
<1>1. map \in Seq(Descriptor)
  BY DEF IsMemoryMap
<1>2. Len(map) \in Nat
  BY <1>1
<1>3. \A j \in 1..Len(map) : map[j] \in Descriptor
  BY <1>1, ElementOfSeq
<1>4. \A d \in Descriptor : d.start \in Nat /\ d.pages \in Nat /\ d.available \in BOOLEAN
  BY MemoryAssumption DEF Descriptor, Frame
<1>. QED BY <1>2, <1>3, <1>4

(* available_end is the end of one of the descriptors seen so far, or 0.   *)
LEMMA AvailableEndCases ==
  ASSUME NEW map, IsMemoryMap(map), NEW i \in 0..Len(map)
  PROVE  \/ AvailableEnd(map, i) = 0
         \/ \E j \in 1..i : /\ map[j].available
                            /\ AvailableEnd(map, i) = map[j].start + map[j].pages
<1> DEFINE Avail == {j \in 1..i : map[j].available}
<1>1. CASE Avail = {}
  BY <1>1 DEF AvailableEnd
<1>2. CASE Avail # {}
  <2>0. Len(map) \in Nat /\ i \in Nat /\ Avail \in SUBSET (0..i)
    BY MapTypes
  <2>1. PICK l \in Avail : \A y \in Avail : y <= l
    BY <1>2, <2>0, GreatestNatural
  <2> DEFINE P(j) == map[j].available /\ \A k \in (j + 1)..i : ~ map[k].available
             last == CHOOSE j \in 1..i : P(j)
  <2>2. l \in 1..i /\ P(l)
    <3>1. ASSUME NEW k \in (l + 1)..i, map[k].available PROVE FALSE
      <4>1. k \in Avail /\ k > l
        BY <2>0, <3>1
      <4>. QED BY <2>0, <2>1, <4>1
    <3>. QED BY <2>1, <3>1
  <2>3. last \in 1..i /\ P(last)
    BY <2>2
  <2>4. AvailableEnd(map, i) = map[last].start + map[last].pages
    BY <1>2 DEF AvailableEnd
  <2> HIDE DEF last
  <2>. QED BY <2>3, <2>4
<1>. QED BY <1>1, <1>2

(* InitializeMemoryManager: every frame below the end of the last          *)
(* available descriptor is available or marked.                            *)
LEMMA InitCovers ==
  ASSUME NEW map, IsMemoryMap(map), NEW f \in Nat, f < AvailableEnd(map, Len(map))
  PROVE  f \in Marked(map) \cup AvailableFrames(map)
<1> DEFINE End(j) == map[j].start + map[j].pages
           Above == {j \in 1..Len(map) : f < End(j)}
<1>1. Len(map) \in Nat /\ \A j \in 1..Len(map) : /\ map[j].start \in Nat /\ map[j].pages \in Nat
                                                 /\ map[j].available \in BOOLEAN
  BY MapTypes
<1>2. Above # {}
  BY <1>1, AvailableEndCases
<1>3. PICK i \in Above : \A j \in Above : i <= j
  <2>1. Above \in SUBSET Nat
    BY <1>1
  <2>. QED BY <1>2, <2>1, LeastNatural
<1>4. i \in 1..Len(map) /\ f < End(i) /\ \A j \in 1..(i - 1) : End(j) <= f
  <2>1. i \in 1..Len(map) /\ f < End(i)
    BY <1>3
  <2>2. ASSUME NEW j \in 1..(i - 1) PROVE End(j) <= f
    <3>1. j \in 1..Len(map) /\ j < i /\ i \in Nat /\ j \in Nat
      BY <1>1, <2>1
    <3>2. j \notin Above
      BY <1>3, <3>1
    <3>3. End(j) \in Nat
      BY SMTT(60), <1>1, <3>1
    <3>. QED BY <3>1, <3>2, <3>3
  <2>. QED BY <2>1, <2>2
<1>5. CASE map[i].start <= f
  <2>1. f \in FrameRun(map[i].start, map[i].pages)
    BY <1>1, <1>4, <1>5 DEF FrameRun
  <2>. QED BY <1>1, <1>4, <2>1 DEF Marked, AvailableFrames
<1>6. CASE f < map[i].start
  <2>1. AvailableEnd(map, i - 1) \in Nat /\ AvailableEnd(map, i - 1) <= f
    <3>1. i - 1 \in 0..Len(map)
      BY <1>1, <1>4
    <3>2. \/ AvailableEnd(map, i - 1) = 0
          \/ \E j \in 1..(i - 1) : AvailableEnd(map, i - 1) = End(j)
      BY <3>1, AvailableEndCases
    <3>3. \A j \in 1..(i - 1) : End(j) \in Nat /\ End(j) <= f
      BY <1>1, <1>4
    <3> HIDE DEF End
    <3>. QED BY <3>2, <3>3
  <2>2. f \in AvailableEnd(map, i - 1)..(map[i].start - 1)
    BY <1>1, <1>4, <1>6, <2>1
  <2>. QED BY <1>4, <2>2 DEF Marked
<1>. QED BY <1>1, <1>4, <1>5, <1>6

(* A run that fits is made of available frames, and is disjoint from the   *)
(* bits that are set.                                                      *)
LEMMA FitIsAvailable ==
  ASSUME NEW bits, NEW n \in Nat, NEW start, rangeEnd \in Nat, RangeCovered,
         reserved \subseteq bits, FirstFit(bits, rangeEnd, start, n)
  PROVE  /\ FrameRun(start, n) \subseteq available \ {0}
         /\ FrameRun(start, n) \cap bits = {}
BY DEF FirstFit, Fits, FrameRun, RangeCovered, rangeBegin, Frame

(* The frames given out together with one more, or one fewer, block.       *)
LEMMA GivenOutFacts ==
  ASSUME NEW bs, NEW b
  PROVE  /\ GivenOut(bs \cup {b}) = GivenOut(bs) \cup FramesOf(b)
         /\ (\A c \in bs \ {b} : FramesOf(b) \cap FramesOf(c) = {}) /\ b \in bs
              => GivenOut(bs \ {b}) = GivenOut(bs) \ FramesOf(b)
BY DEF GivenOut

-----------------------------------------------------------------------------
LEMMA MInit == Init => MInv
<1> SUFFICES ASSUME Init PROVE MInv
  OBVIOUS
<1>1. PICK map \in MemoryMaps :
        /\ heap \in Frame
        /\ rangeEnd = AvailableEnd(map, Len(map))
        /\ available = AvailableFrames(map)
        /\ reserved = Marked(map)
        /\ FirstFit(reserved, rangeEnd, heap, kHeapFrames)
        /\ allocMap = MarkAllocated(reserved, heap, kHeapFrames)
        /\ blocks = {Block(heap, kHeapFrames)}
  BY DEF Init
<1>2. IsMemoryMap(map) /\ Len(map) \in Nat /\ kHeapFrames \in Nat
  BY MemoryAssumption DEF IsMemoryMap
<1>3. rangeEnd \in 0..FrameCount /\ rangeEnd \in Nat
  <2>1. \A j \in 1..Len(map) : map[j].start + map[j].pages \in 0..FrameCount
    BY SMTT(60), <1>2, MapTypes, MemoryAssumption DEF IsMemoryMap
  <2>2. FrameCount \in Nat
    BY MemoryAssumption
  <2>. QED BY <1>1, <1>2, <2>1, <2>2, AvailableEndCases
<1>4. RangeCovered
  BY <1>1, <1>2, InitCovers DEF RangeCovered
<1>5. GivenOut(blocks) = FrameRun(heap, kHeapFrames)
  BY <1>1 DEF GivenOut, FramesOf, Block
<1>6. /\ FrameRun(heap, kHeapFrames) \subseteq available \ {0}
      /\ FrameRun(heap, kHeapFrames) \cap reserved = {}
  BY <1>1, <1>2, <1>3, <1>4, FitIsAvailable
<1>7. MTypes
  BY <1>1, <1>2, <1>3 DEF MTypes, Block
<1>8. BitsAreBlocks /\ OnlyAvailable
  BY <1>1, <1>5, <1>6 DEF BitsAreBlocks, OnlyAvailable, MarkAllocated
<1>9. BlocksDisjoint
  BY <1>1 DEF BlocksDisjoint
<1>. QED BY <1>4, <1>7, <1>8, <1>9 DEF MInv

LEMMA MNext == MInv /\ [Next]_vars => MInv'
<1> SUFFICES ASSUME MInv, [Next]_vars PROVE MInv'
  OBVIOUS
<1>1. ASSUME NEW n \in 1..MaxRun, Allocate(n) PROVE MInv'
  <2>0. n \in Nat
    BY MemoryAssumption
  <2>1. PICK start \in Frame :
          /\ FirstFit(allocMap, rangeEnd, start, n)
          /\ allocMap' = MarkAllocated(allocMap, start, n)
          /\ blocks' = blocks \cup {Block(start, n)}
    BY <1>1 DEF Allocate
  <2>2. rangeEnd' = rangeEnd /\ available' = available /\ reserved' = reserved
    BY <1>1 DEF Allocate
  <2>3. /\ FrameRun(start, n) \subseteq available \ {0}
        /\ FrameRun(start, n) \cap allocMap = {}
    BY <2>0, <2>1, FitIsAvailable DEF MInv, MTypes, BitsAreBlocks
  <2>4. FramesOf(Block(start, n)) = FrameRun(start, n)
    BY DEF FramesOf, Block
  <2>5. GivenOut(blocks') = GivenOut(blocks) \cup FrameRun(start, n)
    BY <2>1, <2>4, GivenOutFacts
  <2>6. BitsAreBlocks' /\ OnlyAvailable'
    BY <2>1, <2>2, <2>3, <2>5 DEF MInv, BitsAreBlocks, OnlyAvailable, MarkAllocated
  <2>7. BlocksDisjoint'
    <3>1. \A c \in blocks : FramesOf(c) \cap FrameRun(start, n) = {}
      BY <2>3 DEF MInv, BitsAreBlocks, GivenOut
    <3>. QED BY <2>1, <2>4, <3>1 DEF MInv, BlocksDisjoint
  <2>8. MTypes'
    BY <2>0, <2>1, <2>2 DEF MInv, MTypes, Block
  <2>9. RangeCovered'
    BY <2>2 DEF MInv, RangeCovered
  <2>. QED BY <2>6, <2>7, <2>8, <2>9 DEF MInv
<1>2. ASSUME NEW b \in blocks, Free(b) PROVE MInv'
  <2>1. /\ allocMap' = allocMap \ FramesOf(b) /\ blocks' = blocks \ {b}
        /\ rangeEnd' = rangeEnd /\ available' = available /\ reserved' = reserved
    BY <1>2 DEF Free
  <2>2. GivenOut(blocks') = GivenOut(blocks) \ FramesOf(b)
    BY <2>1, GivenOutFacts DEF MInv, BlocksDisjoint
  <2>3. FramesOf(b) \subseteq GivenOut(blocks)
    BY DEF GivenOut
  <2>4. BitsAreBlocks' /\ OnlyAvailable'
    BY <2>1, <2>2, <2>3 DEF MInv, BitsAreBlocks, OnlyAvailable
  <2>5. BlocksDisjoint' /\ MTypes' /\ RangeCovered'
    BY <2>1 DEF MInv, BlocksDisjoint, MTypes, RangeCovered
  <2>. QED BY <2>4, <2>5 DEF MInv
<1>3. CASE UNCHANGED vars
  BY <1>3 DEF vars, MInv, MTypes, RangeCovered, BitsAreBlocks, BlocksDisjoint, OnlyAvailable
<1>. QED BY <1>1, <1>2, <1>3 DEF Next

LEMMA MAlways == Spec => []MInv
BY MInit, MNext, PTL DEF Spec

(* No two blocks that are given out at the same time overlap: Allocate     *)
(* never returns a frame that somebody still uses.                         *)
THEOREM BlocksNeverOverlap == Spec => []BlocksDisjoint
<1>1. MInv => BlocksDisjoint
  BY DEF MInv
<1>. QED BY <1>1, MAlways, PTL

(* The bitmap is exactly the reserved frames and the blocks, so Free makes *)
(* a block usable again and nothing else.                                  *)
THEOREM BitmapIsExact == Spec => []BitsAreBlocks
<1>1. MInv => BitsAreBlocks
  BY DEF MInv
<1>. QED BY <1>1, MAlways, PTL

(* Allocate gives out only memory the firmware calls available, whatever   *)
(* gaps the memory map has, and never frame 0.                             *)
THEOREM OnlyAvailableMemory == Spec => []OnlyAvailable
<1>1. MInv => OnlyAvailable
  BY DEF MInv
<1>. QED BY <1>1, MAlways, PTL

-----------------------------------------------------------------------------
(* The search.  r is what a search from start has to return: the lowest    *)
(* run of n clear bits at or above start, or kNullFrame when there is none.*)
Lowest(bits, end, n, start, r) ==
  \/ r = kNullFrame /\ \A t \in Nat : t >= start => ~ Fits(bits, end, t, n)
  \/ /\ r \in Nat /\ r >= start /\ Fits(bits, end, r, n)
     /\ \A t \in Nat : start <= t /\ t < r => ~ Fits(bits, end, t, n)

LEMMA LowestExists ==
  ASSUME NEW bits, NEW end \in Nat, NEW n \in Nat, NEW start \in Nat
  PROVE  \E r : Lowest(bits, end, n, start, r)
<1> DEFINE T == {t \in Nat : t >= start /\ Fits(bits, end, t, n)}
<1>1. CASE T = {}
  BY <1>1 DEF Lowest
<1>2. CASE T # {}
  <2>1. PICK x \in T : \A y \in T : x <= y
    BY <1>2, LeastNatural
  <2>2. \A t \in Nat : start <= t /\ t < x => ~ Fits(bits, end, t, n)
    BY <2>1
  <2>. QED BY <2>1, <2>2 DEF Lowest
<1>. QED BY <1>1, <1>2

LEMMA LowestUnique ==
  ASSUME NEW bits, NEW end \in Nat, NEW n \in Nat, NEW start \in Nat, NEW r, NEW s,
         Lowest(bits, end, n, start, r), Lowest(bits, end, n, start, s)
  PROVE  r = s
BY DEF Lowest

(* One pass of the loop: what the bits it looks at tell about the runs     *)
(* that start at or above start.                                           *)
LEMMA ScanStopIs ==
  ASSUME NEW bits, NEW end \in Nat, NEW n \in Nat \ {0}, NEW start \in Nat, NEW i,
         i = ScanStop(bits, end, start, n)
  PROVE  \/ i = n /\ \A k \in 0..(n - 1) : start + k < end /\ start + k \notin bits
         \/ i \in 0..(n - 1) /\ (start + i >= end \/ start + i \in bits)
<1> DEFINE Stops(k) == start + k >= end \/ start + k \in bits
           S == {k \in 0..(n - 1) : Stops(k)}
<1>1. CASE S = {}
  <2>1. i = n
    BY <1>1 DEF ScanStop
  <2>2. ASSUME NEW k \in 0..(n - 1)
        PROVE  start + k < end /\ start + k \notin bits
    <3>1. ~ Stops(k)
      BY <1>1
    <3>2. k \in Nat
      OBVIOUS
    <3>. QED BY <3>1, <3>2
  <2>. QED BY <2>1, <2>2
<1>2. CASE S # {}
  <2>1. S \in SUBSET Nat
    OBVIOUS
  <2>2. PICK x \in S : \A y \in S : x <= y
    BY <1>2, <2>1, LeastNatural
  <2>3. \A k \in 0..(x - 1) : start + k < end /\ start + k \notin bits
    <3>1. ASSUME NEW k \in 0..(x - 1)
          PROVE  ~ Stops(k)
      <4>1. x \in 0..(n - 1) /\ k \in 0..(n - 1) /\ ~ (x <= k)
        OBVIOUS
      <4>. QED BY <2>2, <4>1
    <3>. QED BY <3>1
  <2> DEFINE P(k) == Stops(k) /\ \A j \in 0..(k - 1) : start + j < end /\ start + j \notin bits
  <2>4. x \in 0..(n - 1) /\ P(x)
    BY <2>2, <2>3
  <2>5. i = CHOOSE k \in 0..(n - 1) : P(k)
    BY <1>2 DEF ScanStop
  <2>6. i \in 0..(n - 1) /\ P(i)
    BY <2>4, <2>5
  <2>. QED BY <2>6
<1>. QED BY <1>1, <1>2

LEMMA ScanPass ==
  ASSUME NEW bits, NEW end \in Nat, NEW n \in Nat \ {0}, NEW start \in Nat, NEW i,
         i = ScanStop(bits, end, start, n)
  PROVE  /\ i = n => Lowest(bits, end, n, start, start)
         /\ i # n => i \in 0..(n - 1)
         /\ i # n /\ start + i >= end => Lowest(bits, end, n, start, kNullFrame)
         /\ i # n /\ start + i < end =>
              \A r : Lowest(bits, end, n, start + i + 1, r) => Lowest(bits, end, n, start, r)
<1>1. CASE i = n
  <2>1. \A k \in 0..(n - 1) : start + k < end /\ start + k \notin bits
    <3>1. n \notin 0..(n - 1)
      OBVIOUS
    <3>2. \/ i = n /\ \A k \in 0..(n - 1) : start + k < end /\ start + k \notin bits
          \/ i \in 0..(n - 1) /\ (start + i >= end \/ start + i \in bits)
      BY ScanStopIs
    <3>. QED BY <1>1, <3>1, <3>2
  <2>2. ASSUME NEW f \in start..(start + n - 1)
        PROVE  f < end /\ f \notin bits
    <3>1. f - start \in 0..(n - 1) /\ start + (f - start) = f
      OBVIOUS
    <3>. QED BY <2>1, <3>1
  <2>3. Fits(bits, end, start, n)
    BY <2>2 DEF Fits, FrameRun
  <2>. QED BY <1>1, <2>3 DEF Lowest
<1>2. CASE i # n
  <2>1. i \in 0..(n - 1) /\ (start + i >= end \/ start + i \in bits)
    BY <1>2, ScanStopIs
  <2>2. CASE start + i >= end
    <3>1. ASSUME NEW t \in Nat, t >= start
          PROVE  ~ Fits(bits, end, t, n)
      <4>1. t + n - 1 \in t..(t + n - 1) /\ ~ (t + n - 1 < end)
        BY <2>1, <2>2, <3>1
      <4>. QED BY <4>1 DEF Fits, FrameRun
    <3>2. Lowest(bits, end, n, start, kNullFrame)
      BY <3>1 DEF Lowest
    <3>. QED BY <1>2, <2>1, <2>2, <3>2
  <2>3. CASE start + i < end
    <3>1. start + i \in bits
      BY <2>1, <2>3
    <3>2. ASSUME NEW t \in Nat, start <= t, t < start + i + 1
          PROVE  ~ Fits(bits, end, t, n)
      <4>1. start + i \in t..(t + n - 1)
        BY <2>1, <3>2
      <4>. QED BY <3>1, <4>1 DEF Fits, FrameRun
    <3>3. ASSUME NEW r, Lowest(bits, end, n, start + i + 1, r)
          PROVE  Lowest(bits, end, n, start, r)
      <4>1. i \in Nat
        BY <2>1
      <4>2. CASE r = kNullFrame /\ \A t \in Nat : t >= start + i + 1 => ~ Fits(bits, end, t, n)
        <5>1. \A t \in Nat : t >= start => ~ Fits(bits, end, t, n)
          BY <3>2, <4>1, <4>2
        <5>. QED BY <4>2, <5>1 DEF Lowest
      <4>3. CASE /\ r \in Nat /\ r >= start + i + 1 /\ Fits(bits, end, r, n)
                 /\ \A t \in Nat : start + i + 1 <= t /\ t < r => ~ Fits(bits, end, t, n)
        <5>1. r \in Nat /\ r >= start /\ Fits(bits, end, r, n)
          BY <4>1, <4>3
        <5>2. \A t \in Nat : start <= t /\ t < r => ~ Fits(bits, end, t, n)
          BY <3>2, <4>1, <4>3
        <5>. QED BY <5>1, <5>2 DEF Lowest
      <4>. QED BY <3>3, <4>2, <4>3 DEF Lowest
    <3>. QED BY <1>2, <2>1, <2>3, <3>3
  <2>4. start + i \in Nat
    BY <2>1
  <2>. QED BY <2>2, <2>3, <2>4
<1>. QED BY <1>1, <1>2

(* The recursion of Scan has a solution (what Lowest describes), and every *)
(* solution is that one: there is no greatest start where it would differ. *)
LEMMA ScanIsLowest ==
  ASSUME NEW bits, NEW end \in 0..FrameCount, NEW n \in Nat \ {0}
  PROVE  Lowest(bits, end, n, rangeBegin, Scan(bits, end, n))
<1> DEFINE D == 0..FrameCount
           Stop(s) == ScanStop(bits, end, s, n)
           F(f) == [start \in D |->
                      LET i == ScanStop(bits, end, start, n)
                      IN  IF i = n THEN start
                          ELSE IF start + i >= end THEN kNullFrame
                          ELSE f[start + i + 1]]
           from == CHOOSE f : f = F(f)
           L(s, r) == Lowest(bits, end, n, s, r)
           g == [s \in D |-> CHOOSE r : L(s, r)]
<1>1. FrameCount \in Nat /\ end \in Nat /\ rangeBegin \in D
  BY MemoryAssumption DEF rangeBegin
<1>2. Scan(bits, end, n) = from[rangeBegin]
  BY DEF Scan
<1>3. \A s \in D : L(s, g[s])
  <2>1. ASSUME NEW s \in D
        PROVE  L(s, g[s])
    <3>1. s \in Nat
      BY <1>1
    <3>2. \E r : L(s, r)
      BY <1>1, <3>1, LowestExists
    <3>3. g[s] = CHOOSE r : L(s, r)
      OBVIOUS
    <3> HIDE DEF L, g
    <3>. QED BY <3>2, <3>3
  <2>. QED BY <2>1
<1>4. ASSUME NEW f, NEW s \in D,
             \A t \in D : t > s => L(t, f[t])
      PROVE  L(s, F(f)[s])
  <2>1. PICK i : i = ScanStop(bits, end, s, n)
    OBVIOUS
  <2>2. F(f)[s] = IF i = n THEN s ELSE IF s + i >= end THEN kNullFrame ELSE f[s + i + 1]
    BY <2>1
  <2>3. /\ i = n => L(s, s)
        /\ i # n => i \in 0..(n - 1)
        /\ i # n /\ s + i >= end => L(s, kNullFrame)
        /\ i # n /\ s + i < end => \A r : L(s + i + 1, r) => L(s, r)
    BY <1>1, <2>1, ScanPass
  <2> HIDE DEF F, L
  <2>4. CASE i = n
    BY <2>2, <2>3, <2>4
  <2>5. CASE i # n /\ s + i >= end
    BY <2>2, <2>3, <2>5
  <2>6. CASE i # n /\ ~ (s + i >= end)
    <3>1. s + i + 1 \in D /\ s + i + 1 > s /\ s + i < end
      BY <1>1, <2>3, <2>6
    <3>. QED BY <1>4, <2>2, <2>3, <2>6, <3>1
  <2>. QED BY <2>4, <2>5, <2>6
<1>5. g = F(g)
  <2>1. ASSUME NEW s \in D
        PROVE  g[s] = F(g)[s]
    <3>1. L(s, F(g)[s])
      BY <1>3, <1>4
    <3>. QED BY <1>1, <1>3, <3>1, LowestUnique
  <2>2. F(g) = [s \in D |-> F(g)[s]] /\ g = [s \in D |-> g[s]]
    OBVIOUS
  <2> HIDE DEF F, g
  <2>. QED BY <2>1, <2>2
<1>6. from = F(from)
  <2> HIDE DEF F, g
  <2>. QED BY <1>5
<1>7. \A s \in D : L(s, from[s])
  <2> DEFINE B == {s \in D : ~ L(s, from[s])}
  <2> SUFFICES ASSUME B # {} PROVE FALSE
    OBVIOUS
  <2>1. B \in SUBSET (0..FrameCount)
    OBVIOUS
  <2>2. PICK s \in B : \A t \in B : t <= s
    BY <1>1, <2>1, GreatestNatural
  <2> HIDE DEF from, F, L
  <2>3. \A t \in D : t > s => L(t, from[t])
    BY <1>1, <2>2
  <2>4. L(s, F(from)[s])
    BY <1>4, <2>2, <2>3
  <2>. QED BY <1>6, <2>2, <2>4
<1>. QED BY <1>1, <1>2, <1>7

(* Allocate finds a run of frames whenever there is one, and the lowest,   *)
(* although its loop never goes back behind a bit that is set.             *)
THEOREM ScanIsFirstFit == Spec => []ScanFindsFirstFit
<1>1. MInv => ScanFindsFirstFit
  <2> SUFFICES ASSUME MInv, NEW n \in 1..MaxRun
               PROVE  LET start == Scan(allocMap, rangeEnd, n)
                      IN  IF start = kNullFrame
                          THEN \A s \in Frame : ~ FirstFit(allocMap, rangeEnd, s, n)
                          ELSE FirstFit(allocMap, rangeEnd, start, n)
    BY DEF ScanFindsFirstFit
  <2>1. n \in Nat \ {0} /\ rangeEnd \in 0..FrameCount /\ FrameCount \in Nat
    BY MemoryAssumption DEF MInv, MTypes
  <2>2. PICK start : start = Scan(allocMap, rangeEnd, n)
    OBVIOUS
  <2>3. Lowest(allocMap, rangeEnd, n, rangeBegin, start)
    BY <2>1, <2>2, ScanIsLowest
  <2>4. CASE start = kNullFrame
    <3>1. \A t \in Nat : t >= rangeBegin => ~ Fits(allocMap, rangeEnd, t, n)
      BY <2>3, <2>4 DEF Lowest, kNullFrame
    <3>2. \A s \in Frame : ~ FirstFit(allocMap, rangeEnd, s, n)
      BY <2>1, <3>1 DEF FirstFit, Frame
    <3>. QED BY <2>2, <2>4, <3>2
  <2>5. CASE start # kNullFrame
    <3>1. /\ start \in Nat /\ start >= rangeBegin /\ Fits(allocMap, rangeEnd, start, n)
          /\ \A t \in Nat : rangeBegin <= t /\ t < start => ~ Fits(allocMap, rangeEnd, t, n)
      BY <2>3, <2>5 DEF Lowest
    <3>2. start < rangeEnd
      <4>1. start \in start..(start + n - 1)
        BY <2>1, <3>1
      <4>. QED BY <3>1, <4>1 DEF Fits, FrameRun
    <3>3. start \in Frame
      BY <2>1, <3>1, <3>2 DEF Frame
    <3>4. \A s \in rangeBegin..(start - 1) : ~ Fits(allocMap, rangeEnd, s, n)
      BY <3>1 DEF rangeBegin
    <3>5. FirstFit(allocMap, rangeEnd, start, n)
      BY <3>1, <3>3, <3>4 DEF FirstFit
    <3>. QED BY <2>2, <2>5, <3>5
  <2>. QED BY <2>4, <2>5
<1>. QED BY <1>1, MAlways, PTL
=============================================================================
