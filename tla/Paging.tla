------------------------------- MODULE Paging -------------------------------
(***************************************************************************)
(* Physical frames, user page tables and copy-on-write: sys/paging.c, the  *)
(* page fault handler of sys/interrupt.c, and what fork, exec, exit and    *)
(* the reaper do to memory.                                                *)
(*                                                                         *)
(* A process is a slot with one table entry per user page.  An entry is    *)
(* absent, writable, or read-only with the copy-on-write flag.  The frames *)
(* of a process's own page tables and kernel structures are one frame,     *)
(* cr3.                                                                    *)
(*                                                                         *)
(* Frames are numbered from 1 on, starting at physfree.  Page0 is physical *)
(* page 0: get_free_page() returns 0 when it refuses, and no caller looks  *)
(* at the result.                                                          *)
(***************************************************************************)
EXTENDS Integers, Sequences, FiniteSets

CONSTANTS
    Procs,        \* process slots
    VPages,       \* user pages of an address space
    NumFrames,    \* how many frames lie between physfree and the end of memory
    Vals,         \* what a page can hold
    Loaded,       \* what load_file() puts in a page
    MIN_PAGES,    \* get_free_page() refuses below this many free frames
    Resharing,    \* may a process fork while one of its pages is still shared
    FirstProc     \* the process that boot loads

ASSUME PagingAssumption ==
    /\ Loaded \in Vals
    /\ FirstProc \in Procs
    /\ MIN_PAGES \in Nat \ {0}
    /\ NumFrames \in Nat
    /\ Resharing \in BOOLEAN

VARIABLES
    free_list,    \* the free frames, in the order of the list
    pages_used,   \* frames handed out
    max_free_pages_available,
    ref_count,    \* of every frame; 0 for a frame never handed out
    slot,         \* "none", "loading", "live" or "zombie"
    cr3,          \* the frame that stands for a process's own tables
    pte,          \* the user page tables
    content,      \* what each frame holds
    view          \* history: what each process last stored in each page

vars == <<free_list, pages_used, max_free_pages_available, ref_count, slot, cr3,
          pte, content, view>>

allocator == <<free_list, pages_used, max_free_pages_available>>

Page0  == 0
Frames == 1 .. NumFrames
Page   == {Page0} \cup Frames
Absent == [kind |-> "none", frame |-> Page0]
Entry  == {Absent} \cup [kind : {"rw", "cow"}, frame : Page]

\* The process p has a mapping of frame f.
Maps(p, f) == \E v \in VPages : pte[p][v].kind # "none" /\ pte[p][v].frame = f

\* Kernel code runs to its end: nobody else moves while a process is loaded.
Quiet == \A p \in Procs : slot[p] # "loading"

-----------------------------------------------------------------------------
(***************************************************************************)
(* Mutated forms, used to show that the properties notice such a slip.     *)
(***************************************************************************)
\* kfree() looks for a second reference, as its comment has it.
StillReferencedOnce(f) == ref_count[f] > 1

\* kfree() does not look at ref_count.
NeverReferenced(f) == FALSE

\* The page fault handler maps the old frame again, now writable.
CopyForgotten(p, v, f) == pte[p][v].frame

\* The page fault handler drops the old frame's count to 0.
RefAfterCopyZero == 0

-----------------------------------------------------------------------------
(***************************************************************************)
(* The allocator, as its callers see it.                                   *)
(***************************************************************************)
get_free_pages_count == max_free_pages_available - pages_used

\* get_free_page() returns f; it returns page 0 when too few frames are left.
get_free_page(f) ==
    IF get_free_pages_count < MIN_PAGES
    THEN f = Page0 /\ UNCHANGED allocator
    ELSE /\ f = Head(free_list)
         /\ free_list' = Tail(free_list)
         /\ pages_used' = pages_used + 1
         /\ UNCHANGED max_free_pages_available

\* ref_count after get_free_page() returned f.
Taken(rc, f) == IF f = Page0 THEN rc ELSE [rc EXCEPT ![f] = 1]

\* kfree() leaves a page alone while its ref_count is positive.
StillReferenced(f) == ref_count[f] > 0

\* kfree() of every frame in S: the frames that go back to the free list,
\* counted once by add_back_free_pages() and once by update_max_pages().
Returned(S) == {f \in S \ {Page0} : ~StillReferenced(f)}

\* The orders in which the frames of T can be put back.
Orders(T) == {s \in [1 .. Cardinality(T) -> T] : \A f \in T : \E i \in DOMAIN s : s[i] = f}

kfree(S) ==
    /\ \E s \in Orders(Returned(S)) :
         /\ free_list' = s \o free_list
         /\ pages_used' = pages_used - Len(s)
         /\ max_free_pages_available' = max_free_pages_available + Len(s)
    /\ ref_count' = [f \in Page |-> IF f \in Returned(S) THEN 0 ELSE ref_count[f]]

-----------------------------------------------------------------------------
(***************************************************************************)
(* fork(): cow_page_tables().                                              *)
(***************************************************************************)

\* Every present entry loses R/W and gains the COW flag, in both tables.
CowEntry(e) == IF e.kind = "none" THEN e ELSE [e EXCEPT !.kind = "cow"]

\* A mapped frame with ref_count 1 goes to 2; any other stays as it is.
RefAfterFork(p) ==
    [f \in Page |-> IF Maps(p, f) /\ ref_count[f] = 1 THEN 2 ELSE ref_count[f]]

fork(p, c) ==
    /\ Quiet
    /\ slot[p] = "live" /\ slot[c] = "none"
    /\ get_free_pages_count >= MIN_PAGES
    /\ Resharing \/ \A q \in Procs \ {p}, f \in Frames : ~(Maps(p, f) /\ Maps(q, f))
    /\ \E f \in Frames :
         /\ get_free_page(f)
         /\ ref_count' = Taken(RefAfterFork(p), f)
         /\ cr3' = [cr3 EXCEPT ![c] = f]
    /\ pte' = [pte EXCEPT ![p] = [v \in VPages |-> CowEntry(pte[p][v])],
                          ![c] = [v \in VPages |-> CowEntry(pte[p][v])]]
    /\ slot' = [slot EXCEPT ![c] = "live"]
    /\ view' = [view EXCEPT ![c] = view[p]]
    /\ UNCHANGED content

-----------------------------------------------------------------------------
(***************************************************************************)
(* A store by a user program, with the page fault it may take.             *)
(***************************************************************************)
CanStore(p, v, kind) == Quiet /\ slot[p] = "live" /\ pte[p][v].kind = kind

\* The entry is writable.
Store(p, v, x) ==
    /\ CanStore(p, v, "rw")
    /\ content' = [content EXCEPT ![pte[p][v].frame] = x]
    /\ view' = [view EXCEPT ![p][v] = x]
    /\ UNCHANGED <<free_list, pages_used, max_free_pages_available, ref_count, slot, cr3, pte>>

\* The frame that the copying page fault maps: the new one.
MappedByCopy(p, v, f) == f

\* The ref_count of the frame that the copying page fault leaves behind.
RefAfterCopy == 1

\* page_fault_handler(): ref_count 2, so the page is copied to a new frame.
page_fault_copy(p, v, x) ==
    /\ CanStore(p, v, "cow")
    /\ ref_count[pte[p][v].frame] = 2
    /\ \E f \in Page :
         /\ get_free_page(f)
         /\ LET old == pte[p][v].frame
                new == MappedByCopy(p, v, f)
            IN  /\ ref_count' = [Taken(ref_count, f) EXCEPT ![old] = RefAfterCopy]
                /\ pte' = [pte EXCEPT ![p][v] = [kind |-> "rw", frame |-> new]]
                /\ content' = [content EXCEPT ![new] = x]
    /\ view' = [view EXCEPT ![p][v] = x]
    /\ UNCHANGED <<slot, cr3>>

\* page_fault_handler(): ref_count 1, so the page becomes writable in place.
page_fault_in_place(p, v, x) ==
    /\ CanStore(p, v, "cow")
    /\ ref_count[pte[p][v].frame] = 1
    /\ pte' = [pte EXCEPT ![p][v].kind = "rw"]
    /\ content' = [content EXCEPT ![pte[p][v].frame] = x]
    /\ view' = [view EXCEPT ![p][v] = x]
    /\ UNCHANGED <<free_list, pages_used, max_free_pages_available, ref_count, slot, cr3>>

-----------------------------------------------------------------------------
(***************************************************************************)
(* exec, exit and the reaper.                                              *)
(***************************************************************************)

\* p starts on new page tables without a user page.
NewAddressSpace(p) ==
    /\ Quiet
    /\ get_free_pages_count >= MIN_PAGES
    /\ \E f \in Frames :
         /\ get_free_page(f)
         /\ ref_count' = Taken(ref_count, f)
         /\ cr3' = [cr3 EXCEPT ![p] = f]
    /\ pte' = [pte EXCEPT ![p] = [v \in VPages |-> Absent]]
    /\ slot' = [slot EXCEPT ![p] = "loading"]
    /\ UNCHANGED <<content, view>>

\* The first process, made by boot().
create_process == pages_used = 0 /\ NewAddressSpace(FirstProc)

\* exec_vpe() drops the old address space as it is.
exec_vpe(p) == slot[p] = "live" /\ NewAddressSpace(p)

\* load_file() maps one more page and copies the file into it.
load_file(p, v) ==
    /\ slot[p] = "loading"
    /\ pte[p][v].kind = "none"
    /\ \E f \in Page :
         /\ get_free_page(f)
         /\ ref_count' = Taken(ref_count, f)
         /\ pte' = [pte EXCEPT ![p][v] = [kind |-> "rw", frame |-> f]]
         /\ content' = [content EXCEPT ![f] = Loaded]
    /\ view' = [view EXCEPT ![p][v] = Loaded]
    /\ slot' = IF \E w \in VPages \ {v} : pte[p][w].kind = "none"
               THEN slot ELSE [slot EXCEPT ![p] = "live"]
    /\ UNCHANGED cr3

\* kill_process(): shallow_cleanup() calls kfree() on every page of every area.
kill_process(p) ==
    LET S == {pte[p][v].frame : v \in VPages}
    IN  /\ Quiet
        /\ slot[p] = "live"
        /\ kfree(S)
        /\ pte' = [pte EXCEPT ![p] = [v \in VPages |->
                     IF pte[p][v].frame \in Returned(S) THEN Absent ELSE pte[p][v]]]
        /\ slot' = [slot EXCEPT ![p] = "zombie"]
        /\ UNCHANGED <<cr3, content, view>>

\* reap_process(): clean_page_tables() calls kfree() on the tables.
reap_process(p) ==
    /\ Quiet
    /\ slot[p] = "zombie"
    /\ kfree({cr3[p]})
    /\ pte' = [pte EXCEPT ![p] = [v \in VPages |-> Absent]]
    /\ cr3' = [cr3 EXCEPT ![p] = Page0]
    /\ slot' = [slot EXCEPT ![p] = "none"]
    /\ UNCHANGED <<content, view>>

-----------------------------------------------------------------------------
\* init_physical_memory(): every frame is on the list, no process exists.
Init ==
    /\ free_list = [i \in 1 .. NumFrames |-> i]
    /\ pages_used = 0
    /\ max_free_pages_available = NumFrames
    /\ ref_count = [f \in Page |-> 0]
    /\ slot = [p \in Procs |-> "none"]
    /\ cr3 = [p \in Procs |-> Page0]
    /\ pte = [p \in Procs |-> [v \in VPages |-> Absent]]
    /\ content = [f \in Page |-> Loaded]
    /\ view = [p \in Procs |-> [v \in VPages |-> Loaded]]

Next ==
    \/ create_process
    \/ \E p \in Procs :
          \/ \E c \in Procs : fork(p, c)
          \/ \E v \in VPages, x \in Vals : \/ Store(p, v, x)
                                           \/ page_fault_copy(p, v, x)
                                           \/ page_fault_in_place(p, v, x)
          \/ \E v \in VPages : load_file(p, v)
          \/ exec_vpe(p)
          \/ kill_process(p)
          \/ reap_process(p)

Spec == Init /\ [][Next]_vars

-----------------------------------------------------------------------------
(***************************************************************************)
(* Properties.                                                             *)
(***************************************************************************)

\* The types of the variables.
TypeOK ==
    /\ free_list \in Seq(Frames)
    /\ pages_used \in Int
    /\ max_free_pages_available \in Int
    /\ ref_count \in [Page -> 0 .. 2]
    /\ slot \in [Procs -> {"none", "loading", "live", "zombie"}]
    /\ cr3 \in [Procs -> Page]
    /\ pte \in [Procs -> [VPages -> Entry]]
    /\ content \in [Page -> Vals]
    /\ view \in [Procs -> [VPages -> Vals]]

\* COW fork: in every page that lies on a real frame a process finds what it
\* stored there last, or what it inherited; nobody else's store shows.
Isolation ==
    \A p \in Procs, v \in VPages :
        pte[p][v].kind # "none" /\ pte[p][v].frame # Page0 =>
            content[pte[p][v].frame] = view[p][v]

\* A frame on the free list belongs to no process, neither as a user page nor
\* as a page table, and is on the list once: kfree() never returns a frame that
\* somebody still maps, so get_free_page() never hands one out twice.
FreeIsUnmapped ==
    /\ \A i \in DOMAIN free_list, p \in Procs :
            ~Maps(p, free_list[i]) /\ cr3[p] # free_list[i]
    /\ \A i, j \in DOMAIN free_list : i # j => free_list[i] # free_list[j]

\* get_free_pages_count() is the length of the free list, so get_free_page()
\* refuses before the list is empty.
FreeCountExact == get_free_pages_count = Len(free_list)

\* A frame that two processes map has ref_count 2: the page fault of the
\* first of them to store makes a copy.
SharedIsCounted ==
    \A p, q \in Procs, f \in Frames :
        p # q /\ Maps(p, f) /\ Maps(q, f) => ref_count[f] = 2

\* A live process that stores to a copy-on-write page gets on: ref_count is
\* 1 or 2, the two values for which the page fault handler changes the entry.
\* Any other value faults again at the same instruction, for ever.
CowFaultResolves ==
    \A p \in Procs, v \in VPages :
        slot[p] = "live" /\ pte[p][v].kind = "cow" =>
            ref_count[pte[p][v].frame] \in {1, 2}

-----------------------------------------------------------------------------
(***************************************************************************)
(* What comments say and the code does not do.                             *)
(***************************************************************************)

\* kfree() returns early only when there is "no mapping found or page is
\* referenced by more than one process": the pages that an exiting process
\* has for itself, with ref_count 1, go back to the free list.
ExitReturnsOwnPages ==
    [][\A p \in Procs : slot[p] = "live" /\ slot'[p] = "zombie" =>
         \A v \in VPages :
            LET f == pte[p][v].frame
            IN  f # Page0 /\ ref_count[f] = 1 /\ (\A q \in Procs \ {p} : ~Maps(q, f))
                    => \E i \in 1 .. Len(free_list') : free_list'[i] = f]_vars
=============================================================================
