---------------------------- MODULE AddressSpace -----------------------------
(***************************************************************************)
(* Address spaces of servers and applications: page maps, copy-on-write    *)
(* and demand paging (kernel/paging.cpp), loading and leaving a program    *)
(* (LoadApp, ExecuteServer, ExecuteApp of kernel/system.cpp), the page     *)
(* fault handler (kernel/interrupt.cpp) and DemandPages                    *)
(* (kernel/syscall.cpp), over the frame allocator of module MemoryManager, *)
(* which gives one frame at a time here.                                   *)
(*                                                                         *)
(* Tasks are preempted at any time while a program is loaded.  What tasks  *)
(* share is the allocation bitmap, and Allocate tests it in one step and   *)
(* marks it in another (found is the frame in between); everything else    *)
(* that is done for one frame is in the step that marks it.  The page      *)
(* fault handler runs with interrupts disabled.  Levels 4, 3 and 2 of the  *)
(* page map are treated alike by the code and are represented by one level *)
(* above the leaves.                                                       *)
(***************************************************************************)
EXTENDS Integers

CONSTANTS
  Task,        \* tasks, each of which executes one program
  FrameCount,  \* frames 1..FrameCount are managed
  Entries,     \* entries of a page map, 512 in the code
  ElfPages,    \* pages of the load segments
  StackPages,  \* 16 in the code
  MaxDemand,   \* bound of the model: pages asked for with DemandPages
  Touched      \* bound of the model: the pages programs access

ASSUME AddressSpaceAssumption ==
  /\ {FrameCount, Entries, MaxDemand} \subseteq Nat /\ {ElfPages, StackPages} \subseteq Nat \ {0}
  /\ Entries % 2 = 0 /\ ElfPages + MaxDemand + StackPages + 1 <= (Entries * Entries) \div 2

Frame == 1..FrameCount
KernelMap == 0                  \* pml4_table, not a managed frame

Index == 0..(Entries - 1)
UserIndex == (Entries \div 2)..(Entries - 1)
Upper(p) == p \div Entries
Lower(p) == p % Entries

ElfPage == (Entries \div 2) * Entries              \* 0xffff'8000'0000'0000
ArgsPage == Entries * Entries - 1                  \* 0xffff'ffff'ffff'f000
StackPage == ArgsPage - StackPages
UserPage == ElfPage..ArgsPage
DPagingBegin == ElfPage + ElfPages


(* The kernel half: page p is frame p (SetupIdentityPageTable), which only *)
(* the kernel may access.                                                  *)
KernelPage == 0..(ElfPage - 1)

ASSUME TouchedAssumption == Touched \subseteq KernelPage \cup UserPage

VARIABLES
  mem,     \* physical memory, see below
  cr3,     \* the page map each task runs on
  temp,    \* temp_pml4 of LoadApp, KernelMap before
  dpEnd,   \* DPagingEnd of each task
  pc,      \* where each task is
  found,   \* the frame Allocate has found free for a task, until it is marked
  lost,    \* history: page maps, and pages, no task refers to any more
  harm     \* history: "race" or "store" when a frame in use was overwritten

vars == <<mem, cr3, temp, dpEnd, pc, found, lost, harm>>

(* pc: "new", "load", "pml4", "copy" (in LoadApp), "args", "stack", "user" *)
(* (in the program), "again" (at a store into the kernel half), "clean",   *)
(* "free", "done", "halt".                                                 *)

Entry(frame, writable) == [frame |-> frame, writable |-> writable]
NotPresent == Entry(0, FALSE)
EmptyMap == [i \in Index |-> NotPresent]
NoFrame == 0
Zero == "zero"
Image == "elf"
Kernel == "kernel"

(* mem.used    frames whose bit is set in the allocation bitmap            *)
(* mem.map     the contents of a frame that is used as a page map          *)
(* mem.data    the contents of a frame that is used as a page: zeros, the  *)
(*             program's image, what a task has written, or memory of the  *)
(*             kernel                                                      *)

Present(m, map, i) == m.map[map][i] # NotPresent
LeafOf(m, root, p) == m.map[m.map[root][Upper(p)].frame][Lower(p)]
Mapped(m, root, p) == Present(m, root, Upper(p)) /\ LeafOf(m, root, p) # NotPresent

-----------------------------------------------------------------------------
(* kernel/paging.cpp                                                       *)

(* Allocate(1) of module MemoryManager: the first free frame.              *)
FreeFrames(m) == Frame \ m.used
NewFrame(m) == CHOOSE f \in FreeFrames(m) : \A g \in FreeFrames(m) : f <= g

(* Mutant of NewPageMap: the frame is not marked as allocated.             *)
NewPageMapUnmarked(m, f) == [m EXCEPT !.map[f] = EmptyMap, !.data[f] = Zero]

(* Mutant of NewPageMap: the frame is not cleared.                         *)
NewPageMapUncleared(m, f) == [m EXCEPT !.used = @ \cup {f}, !.map[f] = EmptyMap]

(* NewPageMap once the frame f is found: it is marked and cleared.         *)
NewPageMap(m, f) ==
  [m EXCEPT !.used = @ \cup {f}, !.map[f] = EmptyMap, !.data[f] = Zero]

(* SetNewPageMapIfNotPresent for an entry that is not present, with the    *)
(* bits SetupPageMap sets afterwards.                                      *)
SetNewPageMap(m, map, i, f, writable) ==
  [NewPageMap(m, f) EXCEPT !.map[map][i] = Entry(f, writable)]

(* SetupPageMap up to the next frame it needs for page p, which is f: the  *)
(* page map of the last level, or the page.                                *)
SetupPageMap(m, root, p, f, writable) ==
  IF Present(m, root, Upper(p))
  THEN SetNewPageMap(m, m.map[root][Upper(p)].frame, Lower(p), f, writable)
  ELSE SetNewPageMap(m, root, Upper(p), f, TRUE)

(* SetupPageMaps for one page in the page fault handler: the memory after  *)
(* it, and whether there was enough.                                       *)
Result(m, ok) == [mem |-> m, ok |-> ok]
SetupDemandPage(m, root, p) ==
  LET m2 == IF Present(m, root, Upper(p)) THEN m ELSE SetupPageMap(m, root, p, NewFrame(m), TRUE)
  IN  IF ~ Present(m, root, Upper(p)) /\ FreeFrames(m) = {} THEN Result(m, FALSE)
      ELSE IF FreeFrames(m2) = {} THEN Result(m2, FALSE)
      ELSE Result(SetupPageMap(m2, root, p, NewFrame(m2), TRUE), TRUE)

(* Mutant of CleanPageMaps: writable is not looked at.                     *)
CleanPageMapsAll(m, root) ==
  LET upper  == {i \in UserIndex : Present(m, root, i)}
      leaves == UNION {{m.map[m.map[root][i].frame][j] : j \in Index} : i \in upper}
  IN  [m EXCEPT
         !.used = @ \ ({m.map[root][i].frame : i \in upper} \cup {e.frame : e \in leaves}),
         !.map[root] = [i \in Index |-> IF i \in UserIndex THEN NotPresent ELSE @[i]]]

(* CleanPageMaps over the user half: the frames behind writable entries    *)
(* are freed, leaves first, and the entries cleared.  The program has      *)
(* ended and no freed frame is accessed again.                             *)
CleanPageMaps(m, root) ==
  LET upper  == {i \in UserIndex : Present(m, root, i)}
      tables == {m.map[root][i].frame : i \in upper}
      leaves == UNION {{m.map[t][j] : j \in Index} : t \in tables}
      freed  == {e.frame : e \in {l \in leaves : l.writable}}
                  \cup {m.map[root][i].frame : i \in {k \in upper : m.map[root][k].writable}}
  IN  [m EXCEPT
         !.used = @ \ freed,
         !.map = [f \in DOMAIN m.map |->
                    CASE f = root -> [i \in Index |-> IF i \in UserIndex THEN NotPresent
                                                      ELSE m.map[root][i]]
                      [] f \in tables -> EmptyMap
                      [] OTHER -> m.map[f]]]

ReadOnly(map) ==
  [i \in Index |-> IF map[i] = NotPresent THEN NotPresent ELSE Entry(map[i].frame, FALSE)]

(* CopyPageMaps for the entry i: the new table f with the leaves, which    *)
(* are read-only in it, of the table behind entry i of src.                *)
CopyPageMap(m, dest, src, i, f) ==
  [NewPageMap(m, f) EXCEPT !.map[dest][i] = Entry(f, m.map[src][i].writable),
                           !.map[f] = ReadOnly(m.map[m.map[src][i].frame])]

(* Mutant of CopyOnePage: the page is made writable without a copy.        *)
CopyOnePageInPlace(m, root, p) ==
  Result([m EXCEPT !.map[m.map[root][Upper(p)].frame][Lower(p)].writable = TRUE], TRUE)

(* CopyOnePage and SetPageContent: a private, writable copy of the page.   *)
CopyOnePage(m, root, p) ==
  LET f == NewFrame(m)
  IN  IF FreeFrames(m) = {} THEN Result(m, FALSE)
      ELSE Result([NewPageMap(m, f) EXCEPT
                     !.data[f] = m.data[LeafOf(m, root, p).frame],
                     !.map[m.map[root][Upper(p)].frame][Lower(p)] = Entry(f, TRUE)], TRUE)

(* The same for a page of the kernel half.  There is no last level: the    *)
(* entry of 2 MB that maps the page is taken for one, so that the first    *)
(* frame of the 2 MB is the table SetPageContent writes to.                *)
TableOfKernelPage(p) == Entries * Upper(p)
CopyKernelPage(m, p) ==
  LET f == NewFrame(m)
      b == TableOfKernelPage(p)
      n == [NewPageMap(m, f) EXCEPT !.data[f] = IF p \in Frame THEN m.data[p] ELSE Kernel]
  IN  IF b \in m.used /\ Present(m, b, Lower(p))
      THEN [n EXCEPT !.map[b][Lower(p)] = Entry(f, TRUE)]
      ELSE n

-----------------------------------------------------------------------------
Init ==
  /\ mem = [used |-> {},
            map  |-> [f \in Frame \cup {KernelMap} |-> EmptyMap],
            data |-> [f \in Frame |-> Zero]]
  /\ cr3 = [t \in Task |-> KernelMap]
  /\ temp = [t \in Task |-> KernelMap]
  /\ dpEnd = [t \in Task |-> DPagingBegin]
  /\ pc = [t \in Task |-> "new"]
  /\ found = [t \in Task |-> NoFrame]
  /\ lost = {} /\ harm = "none"

(* An error of the page fault handler in kernel mode stops the machine.    *)
(* What follows when a frame in use was overwritten is not modelled.       *)
Ready(t, label) == pc[t] = label /\ harm = "none" /\ \A u \in Task : pc[u] # "halt"
Goto(t, label) == pc' = [pc EXCEPT ![t] = label]

(* ExecuteServer and ExecuteApp return the error at once: what they have   *)
(* set up (roots) stays, and the task ends.                                *)
Abandon(t, roots) ==
  /\ Goto(t, "done")
  /\ lost' = lost \cup (roots \ {KernelMap})
  /\ cr3' = [cr3 EXCEPT ![t] = KernelMap]
  /\ temp' = [temp EXCEPT ![t] = KernelMap]
  /\ UNCHANGED dpEnd

(* The pages SetupPageMaps has still to map for t, in ascending order, and *)
(* the entries CopyPageMaps has still to copy.                             *)
PagesAt(label) ==
  CASE label = "load" -> ElfPage..(DPagingBegin - 1)
    [] label = "args" -> {ArgsPage}
    [] label = "stack" -> StackPage..(ArgsPage - 1)
ToMap(t, m) == {p \in PagesAt(pc[t]) : ~ Mapped(m, cr3[t], p)}
ToCopy(t, m) == {i \in UserIndex : Present(m, temp[t], i) /\ ~ Present(m, cr3[t], i)}
First(x, S) == x \in S /\ \A y \in S : x <= y

(* Allocate of a task that loads a program, up to the test that finds a    *)
(* free frame, or none.                                                    *)
FindFrame(t) ==
  /\ \E label \in {"new", "load", "pml4", "copy", "args", "stack"} : Ready(t, label)
  /\ found[t] = NoFrame
  /\ IF FreeFrames(mem) = {}
     THEN Abandon(t, {cr3[t], temp[t]}) /\ UNCHANGED found
     ELSE /\ found' = [found EXCEPT ![t] = NewFrame(mem)]
          /\ UNCHANGED <<cr3, temp, dpEnd, pc, lost>>
  /\ UNCHANGED <<mem, harm>>

(* The rest of Allocate: the frame is marked whether or not another task   *)
(* has been given it in the meantime.                                      *)
MarkFrame(t, label) ==
  /\ Ready(t, label) /\ found[t] # NoFrame
  /\ found' = [found EXCEPT ![t] = NoFrame]
  /\ harm' = IF found[t] \in mem.used THEN "race" ELSE harm

(* SetupPML4: a new page map with the kernel half of the current one.      *)
SetupPML4(t) ==
  [NewPageMap(mem, found[t]) EXCEPT !.map[found[t]] =
     [i \in Index |-> IF i \in UserIndex THEN NotPresent ELSE mem.map[cr3[t]][i]]]

(* temp_pml4, then the magic number and the checks of LoadELF.             *)
SetupTempPML4(t) ==
  /\ MarkFrame(t, "new")
  /\ mem' = SetupPML4(t)
  /\ \/ /\ cr3' = [cr3 EXCEPT ![t] = found[t]]
        /\ temp' = [temp EXCEPT ![t] = found[t]]
        /\ Goto(t, "load")
        /\ UNCHANGED <<dpEnd, lost>>
     \/ Abandon(t, {found[t]})

(* A frame of a call of SetupPageMaps.                                     *)
MapFrame(t, writable) ==
  \E p \in UserPage : /\ First(p, ToMap(t, mem))
                      /\ mem' = SetupPageMap(mem, cr3[t], p, found[t], writable)

(* CopyLoadSegments maps the segments read-only and then fills them, which *)
(* the kernel may (CR0.WP = 0).                                            *)
LoadELF(t) ==
  /\ MarkFrame(t, "load")
  /\ \E p \in UserPage :
       LET m2 == SetupPageMap(mem, cr3[t], p, found[t], FALSE)
           filled == {LeafOf(m2, cr3[t], q).frame : q \in PagesAt("load")}
       IN  /\ First(p, ToMap(t, mem))
           /\ IF ToMap(t, m2) # {} THEN mem' = m2 /\ UNCHANGED pc
              ELSE /\ mem' = [m2 EXCEPT !.data =
                                [f \in Frame |-> IF f \in filled THEN Image ELSE @[f]]]
                   /\ Goto(t, "pml4")
  /\ UNCHANGED <<cr3, temp, dpEnd, lost>>

SetupAppPML4(t) ==
  /\ MarkFrame(t, "pml4")
  /\ mem' = SetupPML4(t)
  /\ cr3' = [cr3 EXCEPT ![t] = found[t]]
  /\ Goto(t, "copy")
  /\ UNCHANGED <<temp, dpEnd, lost>>

(* A frame of CopyPageMaps(dest, src, 4, 256): the entries of the user     *)
(* half.                                                                   *)
CopyImage(t) ==
  /\ MarkFrame(t, "copy")
  /\ \E i \in UserIndex : /\ First(i, ToCopy(t, mem))
                          /\ mem' = CopyPageMap(mem, cr3[t], temp[t], i, found[t])
  /\ IF ToCopy(t, mem') = {} THEN Goto(t, "args") ELSE UNCHANGED pc
  /\ UNCHANGED <<cr3, temp, dpEnd, lost>>

(* The page of the arguments, then MakeArgVector, which may fail.          *)
SetupArgs(t) ==
  /\ MarkFrame(t, "args")
  /\ MapFrame(t, TRUE)
  /\ \/ ToMap(t, mem') # {} /\ UNCHANGED <<cr3, temp, dpEnd, pc, lost>>
     \/ ToMap(t, mem') = {} /\ Goto(t, "stack") /\ UNCHANGED <<cr3, temp, dpEnd, lost>>
     \/ ToMap(t, mem') = {} /\ Abandon(t, {cr3[t], temp[t]})

(* The stack, DPagingBegin and DPagingEnd, then CallApp.                   *)
SetupStack(t) ==
  /\ MarkFrame(t, "stack")
  /\ MapFrame(t, TRUE)
  /\ IF ToMap(t, mem') = {} THEN Goto(t, "user") ELSE UNCHANGED pc
  /\ UNCHANGED <<cr3, temp, dpEnd, lost>>

-----------------------------------------------------------------------------
(* HandlePageFault for a page of the user half; the result is not ok for   *)
(* kAlreadyAllocated, kIndexOutOfRange and kNoEnoughMemory.                *)
HandlePageFault(t, p, write, user) ==
  IF Mapped(mem, cr3[t], p)
  THEN IF write /\ user THEN CopyOnePage(mem, cr3[t], p) ELSE Result(mem, FALSE)
  ELSE IF DPagingBegin <= p /\ p < dpEnd[t]
       THEN SetupDemandPage(mem, cr3[t], p)
       ELSE Result(mem, FALSE)

Store(m, t, p) == [m EXCEPT !.data[LeafOf(m, cr3[t], p).frame] = t]

(* A store of the program.  On a fault the handler runs with interrupts    *)
(* disabled and the store is repeated; an error kills the program.         *)
UserWrite(t, p) ==
  /\ Ready(t, "user") /\ p \in UserPage
  /\ IF Mapped(mem, cr3[t], p) /\ LeafOf(mem, cr3[t], p).writable
     THEN mem' = Store(mem, t, p) /\ UNCHANGED pc
     ELSE LET r == HandlePageFault(t, p, TRUE, TRUE)
          IN  IF r.ok THEN mem' = Store(r.mem, t, p) /\ UNCHANGED pc
              ELSE mem' = r.mem /\ Goto(t, "clean")
  /\ UNCHANGED <<cr3, temp, dpEnd, found, lost, harm>>

(* A store of the program into the kernel half.  The page is present, so   *)
(* HandlePageFault copies it, into a frame that no page map refers to, and *)
(* the store faults again, until no memory is left; which page it was is   *)
(* not remembered.                                                         *)
UserWriteKernel(t, p) ==
  /\ Ready(t, "user") \/ Ready(t, "again")
  /\ p \in KernelPage
  /\ IF FreeFrames(mem) = {} THEN Goto(t, "clean") /\ UNCHANGED <<mem, lost, harm>>
     ELSE /\ mem' = CopyKernelPage(mem, p)
          /\ lost' = lost \cup {NewFrame(mem)}
          /\ harm' = IF TableOfKernelPage(p) \in mem.used THEN "store" ELSE harm
          /\ Goto(t, "again")
  /\ UNCHANGED <<cr3, temp, dpEnd, found>>

(* A load of the program; the pages of the kernel half are present.        *)
UserRead(t, p) ==
  /\ Ready(t, "user")
  /\ \/ p \in KernelPage /\ Goto(t, "clean") /\ UNCHANGED mem
     \/ /\ p \in UserPage /\ ~ Mapped(mem, cr3[t], p)
        /\ LET r == HandlePageFault(t, p, FALSE, TRUE)
           IN  mem' = r.mem /\ IF r.ok THEN UNCHANGED pc ELSE Goto(t, "clean")
  /\ UNCHANGED <<cr3, temp, dpEnd, found, lost, harm>>

(* A system call stores into a buffer of the program (a received message). *)
(* A present page is written in place, read-only or not; a fault that the  *)
(* handler cannot serve does not kill: the processor halts.                *)
KernelWrite(t, p) ==
  /\ Ready(t, "user") /\ p \in UserPage
  /\ Mapped(mem, cr3[t], p) \/ (DPagingBegin <= p /\ p < dpEnd[t])
  /\ LET r == IF Mapped(mem, cr3[t], p) THEN Result(mem, TRUE)
              ELSE HandlePageFault(t, p, TRUE, FALSE)
     IN  IF r.ok THEN mem' = Store(r.mem, t, p) /\ UNCHANGED pc
         ELSE mem' = r.mem /\ Goto(t, "halt")
  /\ UNCHANGED <<cr3, temp, dpEnd, found, lost, harm>>

(* The same when the program gives an address of the kernel half: frame p  *)
(* is written.                                                             *)
KernelWriteKernel(t, p) ==
  /\ Ready(t, "user") /\ p \in KernelPage \cap mem.used
  /\ mem' = [mem EXCEPT !.data[p] = t]
  /\ harm' = "store"
  /\ UNCHANGED <<cr3, temp, dpEnd, pc, found, lost>>

DemandPages(t) ==
  /\ Ready(t, "user")
  /\ dpEnd[t] < DPagingBegin + MaxDemand
  /\ dpEnd' = [dpEnd EXCEPT ![t] = @ + 1]
  /\ UNCHANGED <<mem, cr3, temp, pc, found, lost, harm>>

ExitProgram(t) ==
  /\ Ready(t, "user")
  /\ Goto(t, "clean")
  /\ UNCHANGED <<mem, cr3, temp, dpEnd, found, lost, harm>>

-----------------------------------------------------------------------------
(* The end of ExecuteServer and ExecuteApp.                                *)
CleanProgram(t) ==
  /\ Ready(t, "clean")
  /\ mem' = CleanPageMaps(mem, cr3[t])
  /\ Goto(t, "free")
  /\ UNCHANGED <<cr3, temp, dpEnd, found, lost, harm>>

(* The page map of the program is freed; temp_pml4 was a local of LoadApp. *)
FreePML4(t) ==
  /\ Ready(t, "free")
  /\ mem' = [mem EXCEPT !.used = @ \ {cr3[t]}]
  /\ cr3' = [cr3 EXCEPT ![t] = KernelMap]
  /\ lost' = lost \cup {temp[t]}
  /\ temp' = [temp EXCEPT ![t] = KernelMap]
  /\ Goto(t, "done")
  /\ UNCHANGED <<dpEnd, found, harm>>

Next ==
  \E t \in Task :
    \/ FindFrame(t)
    \/ SetupTempPML4(t) \/ LoadELF(t) \/ SetupAppPML4(t) \/ CopyImage(t)
    \/ SetupArgs(t) \/ SetupStack(t)
    \/ \E p \in Touched : \/ UserWrite(t, p) \/ UserRead(t, p) \/ KernelWrite(t, p)
                          \/ UserWriteKernel(t, p) \/ KernelWriteKernel(t, p)
    \/ DemandPages(t) \/ ExitProgram(t)
    \/ CleanProgram(t) \/ FreePML4(t)

Spec == Init /\ [][Next]_vars

-----------------------------------------------------------------------------
Tables(root) == {mem.map[root][i].frame : i \in {k \in UserIndex : Present(mem, root, k)}}
Leaves(root) ==
  UNION {{mem.map[f][j].frame : j \in {k \in Index : Present(mem, f, k)}} : f \in Tables(root)}
Tree(root) == {root} \cup Tables(root) \cup Leaves(root)
RootsOf(t) == {cr3[t], temp[t]} \ {KernelMap}
TreeOf(t) == UNION {Tree(r) : r \in RootsOf(t)}

(* The properties speak of behaviours in which no frame in use has been    *)
(* overwritten: by two tasks that were given it because one was preempted  *)
(* in Allocate, or by a store a program caused in the kernel half.         *)
Intact == harm = "none"

(* Every frame of an address space in use is marked as allocated, so it is *)
(* not given out again (no use after free); and what stays allocated when  *)
(* a program has ended is the image LoadApp built on temp_pml4, the page   *)
(* maps of programs that failed to start, a frame for every time a store   *)
(* into the kernel half has faulted, and nothing else.                     *)
FramesAccounted ==
  Intact => mem.used = (UNION {TreeOf(t) : t \in Task}) \cup UNION {Tree(r) : r \in lost}

(* Two tasks share no frame, and no task can reach a page map as a page.   *)
Isolation ==
  Intact =>
    /\ \A t, u \in Task : t # u => TreeOf(t) \cap TreeOf(u) = {}
    /\ \A t \in Task : \A r \in RootsOf(t) :
         Leaves(r) \cap (RootsOf(t) \cup UNION {Tables(q) : q \in RootsOf(t)}) = {}

(* What a program can read is its image, zeros, or what was written on its *)
(* own behalf, never the remains of another task in a recycled frame.      *)
NoForeignData ==
  Intact => \A t \in Task : pc[t] \in {"user", "again"} =>
              \A f \in Leaves(cr3[t]) : mem.data[f] \in {Zero, Image, t}

(* The image on temp_pml4 is what the program was loaded from until the    *)
(* kernel itself stores into it: a store of the program never reaches it,  *)
(* because the pages are shared read-only and copied on the first write.   *)
WritableIsPrivate ==
  Intact => \A t \in Task : temp[t] # KernelMap /\ cr3[t] # temp[t] =>
    \A p \in UserPage : Mapped(mem, cr3[t], p) /\ LeafOf(mem, cr3[t], p).writable =>
      LeafOf(mem, cr3[t], p).frame \notin Leaves(temp[t])
=============================================================================
