---------------------------- MODULE MemoryManager ----------------------------
(***************************************************************************)
(* The physical memory manager (kernel/memory_manager.cpp and .hpp): one   *)
(* bit per frame, initialised from the firmware's memory map, first-fit    *)
(* allocation of runs of frames.  A frame is 4 KiB, like a UEFI page, so   *)
(* addresses are frame numbers here.                                       *)
(***************************************************************************)
EXTENDS Integers, Sequences

CONSTANTS
  FrameCount,    \* kFrameCount
  MemoryMaps,    \* the memory maps the firmware may hand over
  kHeapFrames,   \* frames taken for the kernel heap at start
  MaxRun         \* the longest run a caller asks for

Frame == 0..(FrameCount - 1)
kNullFrame == -1

(* A memory map is a sequence of descriptors in ascending order that do    *)
(* not overlap: first frame, number of frames, IsAvailable(type).          *)
Descriptor == [start : Frame, pages : Nat, available : BOOLEAN]
IsMemoryMap(map) ==
  /\ map \in Seq(Descriptor)
  /\ \A i \in 1..Len(map) : map[i].start + map[i].pages <= FrameCount
  /\ \A i, j \in 1..Len(map) : i < j => map[i].start + map[i].pages <= map[j].start

ASSUME MemoryAssumption ==
  /\ FrameCount \in Nat /\ kHeapFrames \in Nat /\ MaxRun \in Nat
  /\ FrameCount > 0 /\ kHeapFrames > 0
  /\ \A map \in MemoryMaps : IsMemoryMap(map)

VARIABLES
  allocMap,     \* alloc_map_: the frames whose bit is set
  rangeEnd,     \* range_end_ (range_begin_ is 1: frame 0 is never given out)
  heap,         \* program_break: the first frame of the kernel heap
  blocks,       \* history: the runs given out and not freed, the heap included
  available,    \* history: the frames the firmware calls available
  reserved      \* history: the bits set before the first allocation

vars == <<allocMap, rangeEnd, heap, blocks, available, reserved>>

rangeBegin == 1
FrameRun(start, n) == start..(start + n - 1)
Block(start, n) == [start |-> start, n |-> n]
FramesOf(b) == FrameRun(b.start, b.n)
GivenOut(bs) == UNION {FramesOf(b) : b \in bs}

-----------------------------------------------------------------------------
(* InitializeMemoryManager.                                                *)

(* available_end after the first i descriptors: where the last available   *)
(* one ends, 0 before the first.                                           *)
AvailableEnd(map, i) ==
  IF \E j \in 1..i : map[j].available
  THEN LET last == CHOOSE j \in 1..i : /\ map[j].available
                                       /\ \A k \in (j + 1)..i : ~ map[k].available
       IN  map[last].start + map[last].pages
  ELSE 0

(* Mutant of Marked: gaps between descriptors are not marked.              *)
MarkedWithoutGaps(map) ==
  UNION {IF map[i].available THEN {} ELSE FrameRun(map[i].start, map[i].pages) :
         i \in 1..Len(map)}

Marked(map) ==
  UNION {AvailableEnd(map, i - 1)..(map[i].start - 1)
         \cup (IF map[i].available THEN {} ELSE FrameRun(map[i].start, map[i].pages)) :
         i \in 1..Len(map)}

AvailableFrames(map) ==
  UNION {IF map[i].available THEN FrameRun(map[i].start, map[i].pages) ELSE {} :
         i \in 1..Len(map)}

-----------------------------------------------------------------------------
(* The loop of Allocate: from start, look at n bits; at a bit that is set  *)
(* go on behind it; at the end of the range give up.                       *)
ScanStop(bits, end, start, n) ==
  IF \E i \in 0..(n - 1) : start + i >= end \/ start + i \in bits
  THEN CHOOSE i \in 0..(n - 1) :
         /\ start + i >= end \/ start + i \in bits
         /\ \A k \in 0..(i - 1) : start + k < end /\ start + k \notin bits
  ELSE n

(* Mutant of Scan: the search goes on one frame too far.                   *)
ScanSkipping(bits, end, n) ==
  LET from[start \in 0..(FrameCount + 1)] ==
        LET i == ScanStop(bits, end, start, n)
        IN  IF i = n THEN start
            ELSE IF start + i >= end THEN kNullFrame
            ELSE from[start + i + 2]
  IN  from[rangeBegin]

Scan(bits, end, n) ==
  LET from[start \in 0..FrameCount] ==
        LET i == ScanStop(bits, end, start, n)
        IN  IF i = n THEN start
            ELSE IF start + i >= end THEN kNullFrame
            ELSE from[start + i + 1]
  IN  from[rangeBegin]

(* What the loop finds: the lowest run of n clear bits in the range.       *)
Fits(bits, end, start, n) ==
  \A f \in FrameRun(start, n) : f < end /\ f \notin bits

FirstFit(bits, end, start, n) ==
  /\ start \in Frame /\ start >= rangeBegin
  /\ Fits(bits, end, start, n)
  /\ \A s \in rangeBegin..(start - 1) : ~ Fits(bits, end, s, n)

(* Mutant of MarkAllocated: the last frame of the run is not marked.       *)
MarkShort(bits, start, n) == bits \cup FrameRun(start, n - 1)

MarkAllocated(bits, start, n) == bits \cup FrameRun(start, n)

-----------------------------------------------------------------------------
(* InitializeMemoryManager ends with the heap; without room for it the     *)
(* kernel exits.                                                           *)
Init ==
  \E map \in MemoryMaps :
    /\ heap \in Frame
    /\ rangeEnd = AvailableEnd(map, Len(map))
    /\ available = AvailableFrames(map)
    /\ reserved = Marked(map)
    /\ FirstFit(reserved, rangeEnd, heap, kHeapFrames)
    /\ allocMap = MarkAllocated(reserved, heap, kHeapFrames)
    /\ blocks = {Block(heap, kHeapFrames)}

Allocate(n) ==
  /\ \E start \in Frame :
       /\ FirstFit(allocMap, rangeEnd, start, n)
       /\ allocMap' = MarkAllocated(allocMap, start, n)
       /\ blocks' = blocks \cup {Block(start, n)}
  /\ UNCHANGED <<rangeEnd, heap, available, reserved>>

(* Mutant of Free: the last frame of the run stays marked.                 *)
FreeShort(b) ==
  /\ allocMap' = allocMap \ FrameRun(b.start, b.n - 1)
  /\ blocks' = blocks \ {b}
  /\ UNCHANGED <<rangeEnd, heap, available, reserved>>

(* The callers free what they were given, whole; nobody frees the heap.    *)
Free(b) ==
  /\ allocMap' = allocMap \ FramesOf(b)
  /\ blocks' = blocks \ {b}
  /\ UNCHANGED <<rangeEnd, heap, available, reserved>>

Next ==
  \/ \E n \in 1..MaxRun : Allocate(n)
  \/ \E b \in blocks : b # Block(heap, kHeapFrames) /\ Free(b)

Spec == Init /\ [][Next]_vars

-----------------------------------------------------------------------------
(* Two runs that are given out at the same time share no frame.            *)
BlocksDisjoint ==
  \A b, c \in blocks : b # c => FramesOf(b) \cap FramesOf(c) = {}

(* Every frame given out is memory the firmware left to the system, and is *)
(* not frame 0, whose address is the null pointer.                         *)
OnlyAvailable == GivenOut(blocks) \subseteq available \ {0}

(* A set bit is a reserved frame or one that is given out, so a freed      *)
(* frame can be given out again and no other use of a frame is forgotten.  *)
BitsAreBlocks ==
  /\ allocMap = reserved \cup GivenOut(blocks)
  /\ reserved \cap GivenOut(blocks) = {}

(* The search of Allocate, which skips ahead over bits it has seen, finds  *)
(* the lowest run that fits, and fails only when none does.                *)
ScanFindsFirstFit ==
  \A n \in 1..MaxRun :
    LET start == Scan(allocMap, rangeEnd, n)
    IN  IF start = kNullFrame
        THEN \A s \in Frame : ~ FirstFit(allocMap, rangeEnd, s, n)
        ELSE FirstFit(allocMap, rangeEnd, start, n)
=============================================================================
