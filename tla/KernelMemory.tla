---------------------------- MODULE KernelMemory ----------------------------
(***************************************************************************)
(* The kernel's own memory: init_physical_memory() and the allocator of    *)
(* sys/physical_memory.c, init_paging(), kmalloc() and kfree() of          *)
(* sys/paging.c.                                                           *)
(*                                                                         *)
(* Addresses are page numbers, kernel addresses are relative to            *)
(* kernel_virtual_base.  The kernel reaches a frame f that holds a page    *)
(* table at kernel address f, so it relies on the map being the identity.  *)
(* Only the part of the page tables that costs frames is kept: which       *)
(* tables exist.                                                           *)
(***************************************************************************)
EXTENDS Integers, FiniteSets, SequencesExt

CONSTANTS
    NumPages,        \* physical_mem_size / PAGE_SIZE
    physbase,        \* the first page of the kernel
    physfree,        \* the first page after it
    PHYS_VIDEO_MEM,
    ENTRIES,         \* entries of a table
    MIN_PAGES,
    Sizes            \* pages that callers ask kmalloc() for

Pages == 0 .. NumPages - 1
Unmapped == -1

ASSUME KernelMemoryAssumption ==
    /\ NumPages \in Nat /\ ENTRIES \in Nat \ {0} /\ MIN_PAGES \in Nat \ {0}
    /\ 0 <= PHYS_VIDEO_MEM /\ PHYS_VIDEO_MEM < physbase
    /\ physbase < physfree /\ physfree < NumPages
    /\ Sizes \subseteq Nat \ {0}

VARIABLES
    mem,     \* [free_list, pages_used, max_free, ref_count]
    direct,  \* direct[v]: the frame that kernel page v is mapped to
    have,    \* the page tables of the kernel: <<level, index>>
    p_i,     \* the loop of init_paging(); NumPages when it is over
    blocks,  \* the blocks from kmalloc() in use: [base, pages]
    tables   \* frames in use as page tables

vars == <<mem, direct, have, p_i, blocks, tables>>

-----------------------------------------------------------------------------
(***************************************************************************)
(* Mutated forms, used to show that the properties notice such a slip.     *)
(***************************************************************************)
\* kfree() gives back a page with one reference.
ReferencedTwice(m, f) == m.ref_count[f] > 1

\* get_free_page() leaves the list alone.
ListKept(m) == m.free_list

\* init_paging() starts at physfree.
FirstMappedLate == physfree + 1

-----------------------------------------------------------------------------
(***************************************************************************)
(* The allocator, on m = [free_list, pages_used, max_free, ref_count].     *)
(***************************************************************************)
get_free_pages_count(m) == m.max_free - m.pages_used

TooFew(m) == get_free_pages_count(m) < MIN_PAGES

\* The list after the first page is taken.
ListAfter(m) == Tail(m.free_list)

\* get_free_page(): the page, 0 when it refuses, and the allocator after it.
FreePage(m) == IF TooFew(m) THEN 0 ELSE Head(m.free_list)

get_free_page(m) ==
    IF TooFew(m) THEN m
    ELSE [m EXCEPT !.free_list = ListAfter(m), !.pages_used = @ + 1,
                   !.ref_count[Head(m.free_list)] = 1]

init_physical_memory ==
    [free_list  |-> [k \in 1 .. NumPages - physfree |-> physfree + k - 1],
     pages_used |-> 0,
     max_free   |-> NumPages - physfree,
     ref_count  |-> [f \in Pages |-> 0]]

-----------------------------------------------------------------------------
(***************************************************************************)
(* update_page_tables() for a kernel page: the tables that are missing on  *)
(* the way are taken from the allocator first.                             *)
(***************************************************************************)
TablesOf(v) == {<<3, 0>>, <<2, v \div (ENTRIES * ENTRIES)>>, <<1, v \div ENTRIES>>}

\* s = [mem, direct, have, tables]; the tables are entered top down.
TakeTable(s, t) ==
    [s EXCEPT !.mem = get_free_page(@), !.have = @ \cup {t},
              !.tables = @ \cup {FreePage(s.mem)}]

update_page_tables(s, v, f) ==
    LET missing == SetToSortSeq(TablesOf(v) \ s.have, LAMBDA x, y : x[1] > y[1])
        s2 == FoldLeft(TakeTable, s, missing)
    IN [s2 EXCEPT !.direct[v] = f]

State == [mem |-> mem, direct |-> direct, have |-> have, tables |-> tables]

Set(s) ==
    /\ mem' = s.mem
    /\ direct' = s.direct
    /\ have' = s.have
    /\ tables' = s.tables

-----------------------------------------------------------------------------
(***************************************************************************)
(* init_paging().  The end of the loop is computed anew in every round,    *)
(* from the pages that are still free.                                     *)
(***************************************************************************)
FirstMapped == physbase

Init ==
    /\ mem = get_free_page(init_physical_memory)
    /\ tables = {FreePage(init_physical_memory)}
    /\ direct = [v \in Pages |-> Unmapped]
    /\ have = {}
    /\ p_i = FirstMapped
    /\ blocks = {}

Booting == p_i < NumPages
MoreToMap == p_i < physfree + get_free_pages_count(mem)

map_next ==
    /\ Booting /\ MoreToMap
    /\ Set(update_page_tables(State, p_i, p_i))
    /\ p_i' = p_i + 1
    /\ UNCHANGED blocks

map_video ==
    /\ Booting /\ ~MoreToMap
    /\ Set(update_page_tables(State, PHYS_VIDEO_MEM, PHYS_VIDEO_MEM))
    /\ p_i' = NumPages
    /\ UNCHANGED blocks

-----------------------------------------------------------------------------
(***************************************************************************)
(* kmalloc(), kfree(), and frames taken for the tables of a process.       *)
(***************************************************************************)

\* Bound: the allocator, now m, has refused nothing.
Enough(m) == ~TooFew(m)

\* One round of the loop of kmalloc().  a = [s, base]; base is -1 before the
\* first round.
AllocPage(a, i) ==
    LET f    == FreePage(a.s.mem)
        base == IF i = 0 THEN f ELSE a.base
        v    == base + i
        s    == [a.s EXCEPT !.mem = get_free_page(@)]
    IN [s |-> update_page_tables(s, v, f), base |-> base]

kmalloc(n) ==
    LET a == FoldLeft(AllocPage, [s |-> State, base |-> -1], [i \in 1 .. n |-> i - 1]) IN
    /\ ~Booting /\ Enough(a.s.mem)
    /\ Set(a.s)
    /\ blocks' = blocks \cup {[base |-> a.base, pages |-> n]}
    /\ UNCHANGED p_i

StillReferenced(m, f) == m.ref_count[f] > 0

\* kfree() returns one page, the first of the block, if any.
kfree(b) ==
    LET f == direct[b.base] IN
    /\ ~Booting /\ b \in blocks
    /\ blocks' = blocks \ {b}
    /\ IF f \in {0, Unmapped} \/ StillReferenced(mem, f)
       THEN UNCHANGED <<mem, direct>>
       ELSE /\ mem' = [free_list  |-> <<f>> \o mem.free_list,
                       pages_used |-> mem.pages_used - 1,
                       max_free   |-> mem.max_free + 1,
                       ref_count  |-> [mem.ref_count EXCEPT ![f] = 0]]
            /\ direct' = [direct EXCEPT ![b.base] = Unmapped]
    /\ UNCHANGED <<have, tables, p_i>>

\* setup_user_page_tables() and cow_page_tables() use the frame of a table at
\* its kernel address and do not map it.
take_table ==
    /\ ~Booting /\ Enough(get_free_page(mem))
    /\ mem' = get_free_page(mem)
    /\ tables' = tables \cup {FreePage(mem)}
    /\ UNCHANGED <<direct, have, p_i, blocks>>

Next ==
    \/ map_next
    \/ map_video
    \/ \E n \in Sizes : kmalloc(n)
    \/ \E b \in blocks : kfree(b)
    \/ take_table

Spec == Init /\ [][Next]_vars

-----------------------------------------------------------------------------
(***************************************************************************)
(* Properties.                                                             *)
(***************************************************************************)

\* Every kernel page that is mapped is mapped to the frame with its number.
\* kmalloc() gets frames one at a time, maps them one after the other and
\* does not look whether they are neighbours: the map stays the identity only
\* because kfree() never returns a page and the free list stays in order.
DirectMapIntact ==
    \A v \in Pages : direct[v] \in {Unmapped, v}

\* No frame is in use twice: as a page table and in a block, in two blocks,
\* or in use and on the free list; and none is on the free list twice.
FramesDisjoint ==
    LET InBlock(b) == {direct[b.base + i] : i \in 0 .. b.pages - 1} IN
    /\ \A b, c \in blocks : b # c => InBlock(b) \cap InBlock(c) = {}
    /\ \A b \in blocks : InBlock(b) \cap (tables \cup Range(mem.free_list)) = {}
    /\ tables \cap Range(mem.free_list) = {}
    /\ IsInjective(mem.free_list)

\* Every frame that holds a page table is reached at its kernel address once
\* boot is over.  The tables that init_paging() allocates make it stop short
\* of the end of memory by as many pages; MIN_PAGES keeps the allocator from
\* handing those out, as long as there are no more of them than MIN_PAGES.
TablesReachable ==
    ~Booting => \A f \in tables : direct[f] = f
=============================================================================
