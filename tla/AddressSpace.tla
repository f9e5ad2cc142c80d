---------------------------- MODULE AddressSpace ----------------------------
(***************************************************************************)
(* The memory areas of a process: load_file() in sys/elf64.c,              *)
(* user_malloc(), copy_process(), exec_vpe() in sys/process.c, and the     *)
(* part of page_fault_handler() in sys/interrupt.c that follows the        *)
(* copy-on-write case.                                                     *)
(*                                                                         *)
(* A process has a list of areas that starts at vma_map, ends at           *)
(* vma_map_iter and, after load_file(), runs through vma_heap.  fork       *)
(* copies it as two lists.  "code" holds the areas before vma_heap,        *)
(* "heap" the ones from vma_heap on, and "linked" tells whether they are   *)
(* one list, so that vma_map_iter is the last area of the heap.            *)
(*                                                                         *)
(* Every area has an id, and a page remembers the id of the area it was    *)
(* last mapped for.  "astray" is history: since its program was loaded,    *)
(* the process or the one it was forked from has touched a page that is    *)
(* not its own, or has called malloc() after a fork.                       *)
(*                                                                         *)
(* Page contents and copy-on-write are in Paging.  The kernel is not       *)
(* preempted inside a system call or a page fault, so each is one step.    *)
(* user_free() is absent: kfree() returns no page whose reference count is *)
(* positive, and a mapped page has one (Paging).                           *)
(***************************************************************************)
EXTENDS Integers, FiniteSets, SequencesExt

CONSTANTS
    Procs,        \* processes
    PAGE_SIZE,
    LastPage,     \* the highest user page
    HEAP_START,
    STACK_START,
    StackGap,     \* bytes left free above the first stack pointer
    LIMIT_STACK,
    Programs,     \* sequences of [vaddr, memsz]: loadable segments
    Sizes,        \* arguments of malloc()
    MaxHeap,      \* bound: areas on the heap, or malloc()ed by a child
    Reach         \* pages below its stack that a frame may touch

Pages == 0 .. LastPage
Page(addr) == addr \div PAGE_SIZE

\* What the values of the constants are to satisfy.
AddressSpaceAssumption ==
    /\ PAGE_SIZE \in Nat \ {0}
    /\ HEAP_START % PAGE_SIZE = 0 /\ STACK_START % PAGE_SIZE = 0
    /\ StackGap \in 0 .. PAGE_SIZE /\ LIMIT_STACK \in Nat
    /\ Page(STACK_START) \in Pages
    /\ \A prog \in Programs : prog # <<>>

VARIABLES
    mm,      \* mm[p]: process_mm of p, or NoProcess
    mapped   \* mapped[p][v]: the id of the area page v of p is mapped for

vars == <<mm, mapped>>

NoProcess == [code |-> <<>>, heap |-> <<>>, linked |-> FALSE, astray |-> FALSE,
              stack |-> [start |-> 0, end |-> 0]]
Alive(p) == mm[p] # NoProcess

Unmapped == -1
StackId == 0

-----------------------------------------------------------------------------
(***************************************************************************)
(* Mutated forms, used to show that the properties notice such a slip.     *)
(***************************************************************************)
\* malloc() does not move vma_map_iter.
IterStays(m) == m.heap[1].end

\* A stack grows whatever its size is.
GrowUnlimited(m, addr) == addr <= m.stack.end

-----------------------------------------------------------------------------
(***************************************************************************)
(* load_file().  A segment gets the pages its bytes lie in and one more.   *)
(* A page that two segments ask for belongs to the later one.              *)
(***************************************************************************)
Area(start, end, id) == [start |-> start, end |-> end, id |-> id]

SegmentAreas(prog) ==
    [i \in DOMAIN prog |-> Area(prog[i].vaddr, prog[i].vaddr + prog[i].memsz, i)]

SegmentPages(a) == Page(a.start) .. Page(a.end) + 1

Loaded(prog) ==
    LET heapId == Len(prog) + 1 IN
    [code   |-> SegmentAreas(prog),
     heap   |-> <<Area(HEAP_START, HEAP_START + PAGE_SIZE, heapId)>>,
     linked |-> TRUE,
     astray |-> FALSE,
     stack  |-> [start |-> STACK_START + PAGE_SIZE - StackGap, end |-> STACK_START]]

LoadedPages(prog) ==
    LET areas == SegmentAreas(prog)
        Of(v) == {i \in DOMAIN areas : v \in SegmentPages(areas[i])}
    IN [v \in Pages |->
            CASE v = Page(STACK_START)         -> StackId
              [] v = Page(HEAP_START)          -> Len(prog) + 1
              [] OTHER -> IF Of(v) = {} THEN Unmapped ELSE Max(Of(v))]

load_file(p, prog) ==
    /\ mm' = [mm EXCEPT ![p] = Loaded(prog)]
    /\ mapped' = [mapped EXCEPT ![p] = LoadedPages(prog)]

exec_vpe(p, prog) == Alive(p) /\ load_file(p, prog)

-----------------------------------------------------------------------------
(***************************************************************************)
(* user_malloc().  The new area starts where the last area of the list of  *)
(* vma_map_iter ends, and one page is mapped for every PAGE_SIZE bytes.    *)
(***************************************************************************)
AllocStart(m) == IF m.linked THEN Last(m.heap).end ELSE Last(m.code).end

AllocEnd(start, bytes) ==
    start + (IF bytes % PAGE_SIZE = 0 THEN bytes ELSE (Page(bytes) + 1) * PAGE_SIZE)

WithArea(m, a) ==
    IF m.linked THEN [m EXCEPT !.heap = Append(@, a)]
    ELSE [m EXCEPT !.code = Append(@, a), !.astray = TRUE]

AreaCount(m) == Len(m.code) + Len(m.heap)

user_malloc(p, bytes) ==
    LET start == AllocStart(mm[p])
        end   == AllocEnd(start, bytes)
        id    == AreaCount(mm[p]) + 1
        new   == {Page(start + k * PAGE_SIZE) : k \in 0 .. Page(end - start - 1)}
    IN  /\ Alive(p) /\ AreaCount(mm[p]) < MaxHeap
        /\ mm' = [mm EXCEPT ![p] = WithArea(@, Area(start, end, id))]
        /\ mapped' = [mapped EXCEPT ![p] = [v \in Pages |-> IF v \in new THEN id ELSE @[v]]]

-----------------------------------------------------------------------------
(***************************************************************************)
(* copy_process().  The child's vma_map list stops before the heap.        *)
(***************************************************************************)
copy_process(p, c) ==
    /\ Alive(p) /\ ~Alive(c)
    /\ mm' = [mm EXCEPT ![c] = [mm[p] EXCEPT !.linked = FALSE]]
    /\ mapped' = [mapped EXCEPT ![c] = mapped[p]]

Gone(p) ==
    /\ mm' = [mm EXCEPT ![p] = NoProcess]
    /\ mapped' = [mapped EXCEPT ![p] = [v \in Pages |-> Unmapped]]

exit_current_process(p) == Alive(p) /\ Gone(p)

-----------------------------------------------------------------------------
(***************************************************************************)
(* page_fault_handler(), for a page that is not mapped.                    *)
(***************************************************************************)
AreaPages(a) == IF a.start = a.end THEN {} ELSE Page(a.start) .. Page(a.end - 1)
Areas(p) == Range(mm[p].code) \cup Range(mm[p].heap)
StackPages(p) == Page(mm[p].stack.end) .. Page(mm[p].stack.start - 1)
BelowStack(p) == Page(mm[p].stack.end) - Reach .. Page(mm[p].stack.end) - 1

\* The pages a correct program touches.
Own(p) == UNION {AreaPages(a) : a \in Areas(p)} \cup StackPages(p) \cup BelowStack(p)

StackMayGrow(m, addr) ==
    /\ addr <= m.stack.end
    /\ m.stack.start - m.stack.end <= LIMIT_STACK

GrowPages(m, addr) == Page(m.stack.end - addr)

GrownEnd(m, addr) == m.stack.end - GrowPages(m, addr) * PAGE_SIZE
GrownPages(m, addr) == Page(GrownEnd(m, addr)) .. Page(m.stack.end) - 1

GrowStack(p, addr) ==
    /\ mm' = [mm EXCEPT ![p].stack.end = GrownEnd(mm[p], addr),
                        ![p].astray = @ \/ Page(addr) \notin Own(p)]
    /\ mapped' = [mapped EXCEPT ![p] =
            [v \in Pages |-> IF v \in GrownPages(mm[p], addr) THEN StackId ELSE @[v]]]

Fault(p, v) ==
    /\ Alive(p)
    /\ mapped[p][v] = Unmapped

page_fault_handler(p, v) ==
    LET addr == v * PAGE_SIZE IN
    /\ Fault(p, v)
    /\ \/ StackMayGrow(mm[p], addr) /\ GrowStack(p, addr)
       \/ ~StackMayGrow(mm[p], addr) /\ Gone(p)

-----------------------------------------------------------------------------
\* One process is loaded at boot; the others are free.
Init ==
    LET p    == CHOOSE p \in Procs : TRUE
        prog == CHOOSE prog \in Programs : TRUE
    IN  /\ mm = [q \in Procs |-> IF q = p THEN Loaded(prog) ELSE NoProcess]
        /\ mapped = [q \in Procs |->
                        IF q = p THEN LoadedPages(prog) ELSE [v \in Pages |-> Unmapped]]

Next ==
    \E p \in Procs :
        \/ \E prog \in Programs : exec_vpe(p, prog)
        \/ \E bytes \in Sizes : user_malloc(p, bytes)
        \/ \E c \in Procs \ {p} : copy_process(p, c)
        \/ exit_current_process(p)
        \/ \E v \in Pages : page_fault_handler(p, v)

Spec == Init /\ [][Next]_vars

-----------------------------------------------------------------------------
(***************************************************************************)
(* Properties.                                                             *)
(***************************************************************************)

\* Every page of an area and of the stack is mapped, and nothing that came
\* later - another area, the stack growing down, the extra page load_file()
\* maps after a segment - has taken it over; and no byte belongs to two areas.
\* This holds through any order of exec, malloc, also of nothing, fork and stack
\* growth, as long as the process has not gone astray.
AreasKeepPages ==
    \A p \in Procs : Alive(p) /\ ~mm[p].astray =>
        /\ \A a \in Areas(p) : \A v \in AreaPages(a) : mapped[p][v] = a.id
        /\ \A v \in StackPages(p) : mapped[p][v] = StackId
        /\ \A a, b \in Areas(p) : a # b => a.end <= b.start \/ b.end <= a.start

\* page_fault_handler() tests the size of the stack before it grows it, so the
\* stack of a process that stays within its pages passes LIMIT_STACK by no more
\* than one growth.  Wherever a process goes, the growth includes the page that
\* was touched: the instruction that faulted does not fault for ever.
StackGrowth ==
    \A p \in Procs :
        /\ ~mm[p].astray =>
                mm[p].stack.start - mm[p].stack.end <= LIMIT_STACK + Reach * PAGE_SIZE
        /\ \A v \in Pages : Fault(p, v) /\ StackMayGrow(mm[p], v * PAGE_SIZE)
                => v \in GrownPages(mm[p], v * PAGE_SIZE)
=============================================================================
