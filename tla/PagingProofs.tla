---------------------------- MODULE PagingProofs ----------------------------
(***************************************************************************)
(* Proofs about Paging, for any number of processes, pages and frames.     *)
(*                                                                         *)
(* FrameInv, about the allocator, holds whatever the processes do.         *)
(* ShareInv, about who may store where, holds as long as a process does    *)
(* not fork while one of its pages is still shared.                        *)
(***************************************************************************)
EXTENDS Paging, SequenceTheorems, FiniteSetTheorems, TLAPS

\* The table entry of page v of process p: its frame, its kind, whether it is
\* there, and that a step leaves it as it is.
FrameOf(p, v) == pte[p][v].frame
KindOf(p, v)  == pte[p][v].kind
Present(p, v) == KindOf(p, v) # "none"
Same(p, v)    == FrameOf(p, v)' = FrameOf(p, v) /\ KindOf(p, v)' = KindOf(p, v)

\* The free list holds a frame at most once, with ref_count 0.
ListInv ==
    /\ FreeCountExact
    /\ \A i, j \in DOMAIN free_list : i # j => free_list[i] # free_list[j]
    /\ \A i \in DOMAIN free_list : ref_count[free_list[i]] = 0

\* The frame of an entry has a positive ref_count.  Page 0 is a user page only
\* after get_free_page() has begun to refuse, and then it is writable.
UsedEntry(p, v) ==
    Present(p, v) =>
        \/ FrameOf(p, v) # Page0 /\ ref_count[FrameOf(p, v)] > 0
        \/ /\ FrameOf(p, v) = Page0 /\ KindOf(p, v) = "rw"
           /\ get_free_pages_count < MIN_PAGES

\* A frame is on the free list with ref_count 0, or in use with a positive one.
FrameInv ==
    /\ TypeOK
    /\ ListInv
    /\ \A p \in Procs, v \in VPages : UsedEntry(p, v)
    /\ \A p \in Procs : cr3[p] # Page0 => ref_count[cr3[p]] > 0

\* A step keeps memory that is in use in use, and new page tables are in use.
MemoryKept ==
    /\ get_free_pages_count < MIN_PAGES => get_free_pages_count' < MIN_PAGES
    /\ \A g \in Page : ref_count[g] > 0 => ref_count'[g] > 0
    /\ \A q \in Procs : \/ cr3'[q] \in {Page0, cr3[q]}
                        \/ ref_count'[cr3'[q]] > 0

\* A step leaves an entry alone, or the new entry is for a frame in use.
EntryKept(q, w) == (Present(q, w) /\ Same(q, w)) \/ UsedEntry(q, w)'

\* Two entries are for one frame.
Pair(p, v, q, w) ==
    /\ p # q \/ v # w
    /\ FrameOf(p, v) = FrameOf(q, w)
    /\ FrameOf(p, v) # Page0

\* Two entries for one frame belong to two processes, are both copy-on-write,
\* and the frame has ref_count 2.
PairsCounted ==
    \A p, q \in Procs, v, w \in VPages : Pair(p, v, q, w) =>
        /\ p # q
        /\ KindOf(p, v) = "cow" /\ KindOf(q, w) = "cow"
        /\ ref_count[FrameOf(p, v)] = 2

\* No three processes map one frame.
NoThree ==
    \A p, q, r \in Procs, u, v, w \in VPages :
        ~(p # r /\ Pair(p, u, q, v) /\ Pair(q, v, r, w))

\* The page v of p holds what p stored there last or inherited.
Isolated(p, v) == FrameOf(p, v) # Page0 => content[FrameOf(p, v)] = view[p][v]

ShareInv == PairsCounted /\ NoThree /\ \A p \in Procs, v \in VPages : Isolated(p, v)

\* A step makes no new pair of this, and leaves it alone if it was one.
PairKept(p, v, q, w) ==
    Pair(p, v, q, w)' => /\ Same(p, v) /\ Same(q, w)
                         /\ ref_count'[FrameOf(p, v)] = ref_count[FrameOf(p, v)]

-----------------------------------------------------------------------------
\* The frame of an entry is a page, page 0 when the entry is absent.
LEMMA EntryFacts ==
    ASSUME NEW e \in Entry
    PROVE  /\ e.frame \in Page
           /\ e.kind \in {"none", "rw", "cow"}
           /\ e.kind = "none" => e.frame = Page0
<1>1. CASE e = Absent
  BY <1>1 DEF Absent, Page
<1>2. CASE e \in [kind : {"rw", "cow"}, frame : Page]
  BY <1>2
<1> QED
  BY <1>1, <1>2 DEF Entry

\* What FrameInv says of one entry.
LEMMA EntryInUse ==
    ASSUME FrameInv, NEW p \in Procs, NEW v \in VPages
    PROVE  /\ FrameOf(p, v) \in Page
           /\ ref_count[FrameOf(p, v)] \in 0 .. 2
           /\ KindOf(p, v) = "none" => FrameOf(p, v) = Page0
           /\ FrameOf(p, v) # Page0 => Present(p, v) /\ ref_count[FrameOf(p, v)] > 0
           /\ KindOf(p, v) = "cow" => FrameOf(p, v) # Page0
<1>1. pte[p][v] \in Entry /\ ref_count \in [Page -> 0 .. 2]
  BY DEF FrameInv, TypeOK
<1>2. /\ FrameOf(p, v) \in Page
      /\ KindOf(p, v) = "none" => FrameOf(p, v) = Page0
  BY <1>1, EntryFacts DEF FrameOf, KindOf
<1>3. ref_count[FrameOf(p, v)] \in 0 .. 2
  BY <1>1, <1>2
<1>4. FrameOf(p, v) # Page0 => Present(p, v)
  BY <1>2 DEF Present
<1>5. UsedEntry(p, v)
  BY DEF FrameInv
<1>6. /\ FrameOf(p, v) # Page0 => ref_count[FrameOf(p, v)] > 0
      /\ KindOf(p, v) = "cow" => FrameOf(p, v) # Page0
  BY <1>4, <1>5 DEF UsedEntry, Present
<1> QED
  BY <1>2, <1>3, <1>4, <1>6

-----------------------------------------------------------------------------
(***************************************************************************)
(* What a step does to the table entries.                                  *)
(***************************************************************************)

\* Page v of p gets a writable entry for frame f: load_file() and the page fault
\* that copies.
LEMMA MovedEntries ==
    ASSUME FrameInv, NEW p \in Procs, NEW v \in VPages, NEW f \in Page,
           pte' = [pte EXCEPT ![p][v] = [kind |-> "rw", frame |-> f]]
    PROVE  /\ pte' \in [Procs -> [VPages -> Entry]]
           /\ FrameOf(p, v)' = f /\ KindOf(p, v)' = "rw"
           /\ \A q \in Procs, w \in VPages : q # p \/ w # v => Same(q, w)
<1>1. pte \in [Procs -> [VPages -> Entry]]
  BY DEF FrameInv, TypeOK
<1>2. [kind |-> "rw", frame |-> f] \in Entry
  BY DEF Entry
<1>3. /\ pte' \in [Procs -> [VPages -> Entry]]
      /\ pte'[p][v] = [kind |-> "rw", frame |-> f]
      /\ \A q \in Procs, w \in VPages : q # p \/ w # v => pte'[q][w] = pte[q][w]
  BY <1>1, <1>2
<1> QED
  BY <1>3 DEF Same, FrameOf, KindOf

\* The entries of p go away: exec_vpe() and the reaper.
LEMMA ClearedEntries ==
    ASSUME FrameInv, NEW p \in Procs,
           pte' = [pte EXCEPT ![p] = [v \in VPages |-> Absent]]
    PROVE  /\ pte' \in [Procs -> [VPages -> Entry]]
           /\ \A q \in Procs, w \in VPages :
                 /\ Present(q, w)' => Present(q, w) /\ Same(q, w)
                 /\ FrameOf(q, w)' # Page0 => Same(q, w)
<1>1. pte \in [Procs -> [VPages -> Entry]]
  BY DEF FrameInv, TypeOK
<1>2. Absent \in Entry
  BY DEF Entry
<1>3. /\ pte' \in [Procs -> [VPages -> Entry]]
      /\ \A w \in VPages : pte'[p][w] = Absent
      /\ \A q \in Procs : q # p => pte'[q] = pte[q]
  BY <1>1, <1>2
<1>4. \A w \in VPages : ~Present(p, w)' /\ FrameOf(p, w)' = Page0
  BY <1>3 DEF Present, FrameOf, KindOf, Absent
<1>5. \A q \in Procs, w \in VPages : q # p => Same(q, w)
  BY <1>3 DEF Same, FrameOf, KindOf
<1> QED
  BY <1>3, <1>4, <1>5 DEF Present, Same

\* The page fault that makes page v of p writable in place.
LEMMA InPlaceEntries ==
    ASSUME FrameInv, NEW p \in Procs, NEW v \in VPages, Present(p, v),
           pte' = [pte EXCEPT ![p][v].kind = "rw"]
    PROVE  /\ pte' \in [Procs -> [VPages -> Entry]]
           /\ FrameOf(p, v)' = FrameOf(p, v) /\ KindOf(p, v)' = "rw"
           /\ \A q \in Procs, w \in VPages : q # p \/ w # v => Same(q, w)
<1>1. pte \in [Procs -> [VPages -> Entry]]
  BY DEF FrameInv, TypeOK
<1>2. pte[p][v] \in [kind : {"rw", "cow"}, frame : Page]
  BY <1>1 DEF Present, KindOf, Entry, Absent
<1>3. [pte[p][v] EXCEPT !.kind = "rw"] = [kind |-> "rw", frame |-> FrameOf(p, v)]
  BY <1>2 DEF FrameOf
<1>4. [kind |-> "rw", frame |-> FrameOf(p, v)] \in Entry
  BY EntryInUse DEF Entry
<1>5. /\ pte' \in [Procs -> [VPages -> Entry]]
      /\ pte'[p][v] = [kind |-> "rw", frame |-> FrameOf(p, v)]
      /\ \A q \in Procs, w \in VPages : q # p \/ w # v => pte'[q][w] = pte[q][w]
  BY <1>1, <1>3, <1>4
<1>6. FrameOf(p, v)' = FrameOf(p, v) /\ KindOf(p, v)' = "rw"
  BY <1>5 DEF FrameOf, KindOf
<1>7. \A q \in Procs, w \in VPages : q # p \/ w # v => Same(q, w)
  BY <1>5 DEF Same, FrameOf, KindOf
<1> QED
  BY <1>5, <1>6, <1>7

\* cow_page_tables() changes the flags of an entry and nothing else.
LEMMA CowEntryFacts ==
    ASSUME NEW e \in Entry
    PROVE  /\ CowEntry(e) \in Entry
           /\ CowEntry(e).frame = e.frame
           /\ e.kind = "none" => CowEntry(e).kind = "none"
           /\ e.kind # "none" => CowEntry(e).kind = "cow"
<1>1. CASE e.kind = "none"
  BY <1>1 DEF CowEntry
<1>2. CASE e.kind # "none"
  <2>1. CowEntry(e) = [e EXCEPT !.kind = "cow"]
    BY <1>2 DEF CowEntry
  <2>2. [e EXCEPT !.kind = "cow"] = [kind |-> "cow", frame |-> e.frame]
    BY <1>2 DEF Entry, Absent
  <2>3. [kind |-> "cow", frame |-> e.frame] \in Entry
    BY EntryFacts DEF Entry
  <2> QED
    BY <1>2, <2>1, <2>2, <2>3
<1> QED
  BY <1>1, <1>2

\* After fork() the caller and the child have the caller's frames, all of them
\* copy-on-write.
LEMMA ForkEntries ==
    ASSUME FrameInv, NEW p \in Procs, NEW c \in Procs, fork(p, c)
    PROVE  /\ p # c
           /\ pte' \in [Procs -> [VPages -> Entry]]
           /\ \A q \in {p, c}, w \in VPages :
                 /\ FrameOf(q, w)' = FrameOf(p, w)
                 /\ Present(q, w)' => Present(p, w)
                 /\ FrameOf(q, w)' # Page0 => KindOf(q, w)' = "cow"
           /\ \A q \in Procs \ {p, c}, w \in VPages : Same(q, w)
<1>1. pte \in [Procs -> [VPages -> Entry]]
  BY DEF FrameInv, TypeOK
<1>2. p # c
  BY DEF fork
<1>3. pte' = [pte EXCEPT ![p] = [v \in VPages |-> CowEntry(pte[p][v])],
                         ![c] = [v \in VPages |-> CowEntry(pte[p][v])]]
  BY DEF fork
<1>4. \A v \in VPages : CowEntry(pte[p][v]) \in Entry
  BY <1>1, CowEntryFacts
<1>5. /\ pte' \in [Procs -> [VPages -> Entry]]
      /\ \A q \in {p, c}, w \in VPages : pte'[q][w] = CowEntry(pte[p][w])
      /\ \A q \in Procs \ {p, c} : pte'[q] = pte[q]
  BY <1>1, <1>3, <1>4
<1>6. ASSUME NEW q \in {p, c}, NEW w \in VPages
      PROVE  /\ FrameOf(q, w)' = FrameOf(p, w)
             /\ Present(q, w)' => Present(p, w)
             /\ FrameOf(q, w)' # Page0 => KindOf(q, w)' = "cow"
  <2>1. pte[p][w] \in Entry /\ pte'[q][w] = CowEntry(pte[p][w])
    BY <1>1, <1>5
  <2>2. FrameOf(q, w)' = FrameOf(p, w)
    BY <2>1, CowEntryFacts DEF FrameOf
  <2>3. /\ Present(q, w)' => Present(p, w)
        /\ Present(p, w) => KindOf(q, w)' = "cow"
    BY <2>1, CowEntryFacts DEF Present, KindOf
  <2>4. FrameOf(p, w) # Page0 => Present(p, w)
    BY EntryInUse
  <2> QED
    BY <2>2, <2>3, <2>4
<1>7. \A q \in Procs \ {p, c}, w \in VPages : Same(q, w)
  BY <1>5 DEF Same, FrameOf, KindOf
<1> QED
  BY <1>2, <1>5, <1>6, <1>7

-----------------------------------------------------------------------------
\* get_free_page() takes the first frame off the list, which nobody uses, or
\* refuses and returns page 0; the count stays the length of the list.
LEMMA Allocated ==
    ASSUME FrameInv, NEW f \in Page, get_free_page(f)
    PROVE  /\ free_list' \in Seq(Frames)
           /\ pages_used' \in Int /\ max_free_pages_available' \in Int
           /\ FreeCountExact'
           /\ \A i, j \in DOMAIN free_list' : i # j => free_list'[i] # free_list'[j]
           /\ \A i \in DOMAIN free_list' : ref_count[free_list'[i]] = 0 /\ free_list'[i] # f
           /\ f = Page0 => get_free_pages_count < MIN_PAGES
           /\ f # Page0 => ref_count[f] = 0
           /\ get_free_pages_count < MIN_PAGES => get_free_pages_count' < MIN_PAGES
<1> USE PagingAssumption
<1>1. /\ free_list \in Seq(Frames) /\ Len(free_list) \in Nat
      /\ DOMAIN free_list = 1 .. Len(free_list)
      /\ pages_used \in Int /\ max_free_pages_available \in Int
      /\ \A i \in 1 .. Len(free_list) : free_list[i] \in Frames
  BY LenProperties, ElementOfSeq DEF FrameInv, TypeOK
<1>2. \A i \in 1 .. Len(free_list) : free_list[i] # Page0
  BY <1>1 DEF Frames, Page0
<1>3. CASE get_free_pages_count < MIN_PAGES
  <2>1. f = Page0 /\ UNCHANGED <<free_list, pages_used, max_free_pages_available>>
    BY <1>3 DEF get_free_page, allocator
  <2> QED
    BY <1>1, <1>2, <1>3, <2>1 DEF FrameInv, ListInv, FreeCountExact, get_free_pages_count
<1>4. CASE ~(get_free_pages_count < MIN_PAGES)
  <2>1. /\ f = Head(free_list) /\ free_list' = Tail(free_list)
        /\ pages_used' = pages_used + 1
        /\ max_free_pages_available' = max_free_pages_available
    BY <1>4 DEF get_free_page
  <2>2. Len(free_list) > 0
    BY <1>1, <1>4 DEF FrameInv, ListInv, FreeCountExact, get_free_pages_count
  <2>3. free_list # << >>
    BY <1>1, <2>2
  <2>4. /\ Tail(free_list) \in Seq(Frames) /\ Len(Tail(free_list)) = Len(free_list) - 1
        /\ \A i \in 1 .. Len(Tail(free_list)) : Tail(free_list)[i] = free_list[i + 1]
        /\ Head(free_list) = free_list[1]
    BY <1>1, <2>3, HeadTailProperties
  <2>5. /\ DOMAIN free_list' = 1 .. Len(free_list) - 1
        /\ \A i \in 1 .. Len(free_list) - 1 : /\ free_list'[i] = free_list[i + 1]
                                               /\ i + 1 \in 1 .. Len(free_list)
                                               /\ i + 1 # 1
    BY <1>1, <2>1, <2>2, <2>4, LenProperties
  <2>6. 1 \in 1 .. Len(free_list) /\ f = free_list[1]
    BY <1>1, <2>1, <2>2, <2>4
  <2>7. FreeCountExact'
    BY <1>1, <2>1, <2>4 DEF FrameInv, ListInv, FreeCountExact, get_free_pages_count
  <2>8. \A i, j \in DOMAIN free_list' : i # j => free_list'[i] # free_list'[j]
    <3> TAKE i, j \in DOMAIN free_list'
    <3>1. i # j => i + 1 # j + 1
      BY <1>1, <2>5
    <3> QED
      BY <1>1, <2>5, <3>1, SMTT(30) DEF FrameInv, ListInv
  <2>9. \A i \in DOMAIN free_list' : ref_count[free_list'[i]] = 0 /\ free_list'[i] # f
    BY <1>1, <2>5, <2>6 DEF FrameInv, ListInv
  <2>10. f # Page0 /\ ref_count[f] = 0
    BY <1>1, <1>2, <2>6 DEF FrameInv, ListInv
  <2>11. pages_used' \in Int /\ max_free_pages_available' \in Int
    BY <1>1, <2>1
  <2> QED
    BY <1>4, <2>1, <2>4, <2>7, <2>8, <2>9, <2>10, <2>11
<1> QED
  BY <1>3, <1>4

\* kfree() on pages that are in use returns nothing and changes nothing.
LEMMA NothingReturned ==
    ASSUME FrameInv, NEW STATE S, S \subseteq Page, kfree(S),
           \A f \in S : f # Page0 => ref_count[f] > 0
    PROVE  /\ Returned(S) = {}
           /\ UNCHANGED <<free_list, pages_used, max_free_pages_available, ref_count>>
<1>1. Returned(S) = {}
  BY DEF Returned, StillReferenced
<1>2. ref_count' = ref_count
  BY <1>1 DEF kfree, FrameInv, TypeOK
<1>3. Cardinality(Returned(S)) = 0
  BY <1>1, FS_EmptySet
<1>4. PICK s \in Orders(Returned(S)) :
         /\ free_list' = s \o free_list
         /\ pages_used' = pages_used - Len(s)
         /\ max_free_pages_available' = max_free_pages_available + Len(s)
  BY SMTT(30) DEF kfree
<1>5. s \in [1 .. 0 -> Frames]
  BY <1>1, <1>3, <1>4 DEF Orders
<1>6. s = << >> /\ Len(s) = 0
  BY <1>5
<1>7. << >> \o free_list = free_list
  BY ConcatEmptySeq DEF FrameInv, TypeOK
<1> QED
  BY <1>1, <1>2, <1>4, <1>6, <1>7 DEF FrameInv, TypeOK

\* ref_count after get_free_page(), frame by frame.
LEMMA TakenFacts ==
    ASSUME NEW rc \in [Page -> 0 .. 2], NEW f \in Page
    PROVE  /\ Taken(rc, f) \in [Page -> 0 .. 2]
           /\ f # Page0 => Taken(rc, f)[f] = 1
           /\ \A g \in Page : g # f => Taken(rc, f)[g] = rc[g]
           /\ f = Page0 => Taken(rc, f) = rc
BY DEF Taken

\* After get_free_page() the list is in order, whatever else happens to the
\* ref_count of frames in use.
LEMMA AllocatedList ==
    ASSUME FrameInv, NEW f \in Page, get_free_page(f),
           \A g \in Page : g # f /\ ref_count[g] = 0 => ref_count'[g] = 0
    PROVE  ListInv'
<1>1. /\ free_list' \in Seq(Frames)
      /\ FreeCountExact'
      /\ \A i, j \in DOMAIN free_list' : i # j => free_list'[i] # free_list'[j]
      /\ \A i \in DOMAIN free_list' : ref_count[free_list'[i]] = 0 /\ free_list'[i] # f
  BY Allocated
<1>2. ASSUME NEW i \in DOMAIN free_list' PROVE ref_count'[free_list'[i]] = 0
  <2>1. free_list'[i] \in Frames
    BY <1>1, LenProperties, ElementOfSeq
  <2>2. free_list'[i] \in Page
    BY <2>1 DEF Page
  <2> QED
    BY <1>1, <2>2
<1> QED
  BY <1>1, <1>2 DEF ListInv

\* init_physical_memory() establishes FrameInv.
LEMMA InitFrameInv == Init => FrameInv
<1> SUFFICES ASSUME Init PROVE FrameInv
  OBVIOUS
<1> USE PagingAssumption
<1>1. /\ free_list \in Seq(Frames) /\ Len(free_list) = NumFrames
      /\ DOMAIN free_list = 1 .. NumFrames
      /\ \A i \in 1 .. NumFrames : free_list[i] = i
  BY DEF Init, Frames
<1>2. TypeOK
  BY <1>1 DEF Init, TypeOK, Page, Page0, Entry, Absent
<1>3. FreeCountExact
  BY <1>1 DEF Init, FreeCountExact, get_free_pages_count
<1>4. \A i \in DOMAIN free_list : ref_count[free_list[i]] = 0
  BY <1>1 DEF Init, Page, Frames
<1>5. ListInv
  BY <1>1, <1>3, <1>4 DEF ListInv
<1>6. \A p \in Procs, v \in VPages : UsedEntry(p, v)
  BY DEF Init, UsedEntry, Present, KindOf, Absent
<1>7. \A p \in Procs : cr3[p] = Page0
  BY DEF Init
<1> QED
  BY <1>2, <1>5, <1>6, <1>7 DEF FrameInv

\* A step keeps FrameInv when it keeps frames in use in use, and every entry
\* that it makes is for a frame in use, or for page 0 once memory ran out.
LEMMA FrameKept ==
    ASSUME FrameInv, TypeOK', ListInv', MemoryKept,
           \A q \in Procs, w \in VPages : EntryKept(q, w)
    PROVE  FrameInv'
<1>1. ASSUME NEW q \in Procs, NEW w \in VPages PROVE UsedEntry(q, w)'
  <2> SUFFICES ASSUME Present(q, w), Same(q, w) PROVE UsedEntry(q, w)'
    BY DEF EntryKept
  <2>1. FrameOf(q, w) \in Page /\ UsedEntry(q, w)
    BY EntryInUse DEF FrameInv
  <2> QED
    BY <2>1 DEF UsedEntry, Same, MemoryKept
<1>2. \A q \in Procs : cr3'[q] # Page0 => ref_count'[cr3'[q]] > 0
  <2>1. \A q \in Procs : cr3[q] \in Page /\ (cr3[q] # Page0 => ref_count[cr3[q]] > 0)
    BY DEF FrameInv, TypeOK
  <2> QED
    BY <2>1 DEF MemoryKept
<1> QED
  BY <1>1, <1>2 DEF FrameInv

\* A process that starts on new page tables (boot, exec_vpe) keeps FrameInv.
LEMMA NewAddressSpaceFrameInv ==
    ASSUME FrameInv, NEW p \in Procs, NewAddressSpace(p)
    PROVE  FrameInv'
<1>1. PICK f \in Frames : /\ get_free_page(f)
                          /\ ref_count' = Taken(ref_count, f)
                          /\ cr3' = [cr3 EXCEPT ![p] = f]
  BY Zenon DEF NewAddressSpace
<1>2. f \in Page /\ f # Page0
  BY PagingAssumption DEF Page, Frames, Page0
<1>3. /\ free_list' \in Seq(Frames)
      /\ pages_used' \in Int /\ max_free_pages_available' \in Int
      /\ get_free_pages_count < MIN_PAGES => get_free_pages_count' < MIN_PAGES
  BY <1>1, <1>2, Allocated
<1>4. /\ ref_count' \in [Page -> 0 .. 2] /\ ref_count'[f] = 1
      /\ \A g \in Page : g # f => ref_count'[g] = ref_count[g]
  BY <1>1, <1>2, TakenFacts, SMTT(30) DEF FrameInv, TypeOK
<1>5. /\ pte' \in [Procs -> [VPages -> Entry]]
      /\ \A q \in Procs, w \in VPages : Present(q, w)' => Present(q, w) /\ Same(q, w)
  BY ClearedEntries, Zenon DEF NewAddressSpace
<1>6. cr3' \in [Procs -> Page] /\ cr3'[p] = f /\ \A q \in Procs \ {p} : cr3'[q] = cr3[q]
  BY <1>1, <1>2 DEF FrameInv, TypeOK
<1>7. TypeOK'
  BY <1>3, <1>4, <1>5, <1>6 DEF NewAddressSpace, FrameInv, TypeOK
<1>8. ListInv'
  BY <1>1, <1>2, <1>4, AllocatedList
<1>9. MemoryKept
  BY <1>3, <1>4, <1>6 DEF MemoryKept
<1>10. \A q \in Procs, w \in VPages : EntryKept(q, w)
  BY <1>5 DEF EntryKept, UsedEntry
<1> QED
  BY <1>7, <1>8, <1>9, <1>10, FrameKept

\* load_file() keeps FrameInv: the page that it maps is a frame off the list.
LEMMA LoadFrameInv ==
    ASSUME FrameInv, NEW p \in Procs, NEW v \in VPages, load_file(p, v)
    PROVE  FrameInv'
<1>1. PICK f \in Page : /\ get_free_page(f)
                        /\ ref_count' = Taken(ref_count, f)
                        /\ pte' = [pte EXCEPT ![p][v] = [kind |-> "rw", frame |-> f]]
                        /\ content' = [content EXCEPT ![f] = Loaded]
  BY Zenon DEF load_file
<1>2. /\ free_list' \in Seq(Frames)
      /\ pages_used' \in Int /\ max_free_pages_available' \in Int
      /\ f = Page0 => get_free_pages_count < MIN_PAGES
      /\ get_free_pages_count < MIN_PAGES => get_free_pages_count' < MIN_PAGES
  BY <1>1, Allocated
<1>3. /\ ref_count' \in [Page -> 0 .. 2]
      /\ f # Page0 => ref_count'[f] = 1
      /\ \A g \in Page : g # f => ref_count'[g] = ref_count[g]
      /\ f = Page0 => ref_count' = ref_count
  BY <1>1, TakenFacts DEF FrameInv, TypeOK
<1>4. /\ pte' \in [Procs -> [VPages -> Entry]]
      /\ FrameOf(p, v)' = f /\ KindOf(p, v)' = "rw"
      /\ \A q \in Procs, w \in VPages : q # p \/ w # v => Same(q, w)
  BY <1>1, MovedEntries, Zenon
<1>5. cr3' = cr3
  BY DEF load_file
<1>6. TypeOK'
  <2>1. content' \in [Page -> Vals]
    BY <1>1, PagingAssumption DEF FrameInv, TypeOK
  <2>2. view' \in [Procs -> [VPages -> Vals]]
    BY PagingAssumption DEF load_file, FrameInv, TypeOK
  <2>3. slot' \in [Procs -> {"none", "loading", "live", "zombie"}]
    BY DEF load_file, FrameInv, TypeOK
  <2> QED
    BY <1>2, <1>3, <1>4, <1>5, <2>1, <2>2, <2>3 DEF FrameInv, TypeOK
<1>7. ListInv'
  BY <1>1, <1>3, AllocatedList
<1>8. MemoryKept
  BY <1>2, <1>3, <1>5 DEF MemoryKept
<1>9. ASSUME NEW q \in Procs, NEW w \in VPages PROVE EntryKept(q, w)
  <2>1. CASE q = p /\ w = v
    BY <1>2, <1>3, <1>4, <2>1 DEF EntryKept, UsedEntry
  <2>2. CASE q # p \/ w # v
    BY <1>4, <2>2 DEF EntryKept, UsedEntry, Same, Present
  <2> QED
    BY <2>1, <2>2
<1> QED
  BY <1>6, <1>7, <1>8, <1>9, FrameKept

\* cow_page_tables() keeps FrameInv: it shares frames that are in use.
LEMMA ForkFrameInv ==
    ASSUME FrameInv, NEW p \in Procs, NEW c \in Procs, fork(p, c)
    PROVE  FrameInv'
<1>1. PICK f \in Frames : /\ get_free_page(f)
                          /\ ref_count' = Taken(RefAfterFork(p), f)
                          /\ cr3' = [cr3 EXCEPT ![c] = f]
  BY Zenon DEF fork
<1>2. f \in Page /\ f # Page0
  BY PagingAssumption DEF Page, Frames, Page0
<1>3. /\ free_list' \in Seq(Frames)
      /\ pages_used' \in Int /\ max_free_pages_available' \in Int
      /\ get_free_pages_count < MIN_PAGES => get_free_pages_count' < MIN_PAGES
  BY <1>1, <1>2, Allocated
<1>4. /\ RefAfterFork(p) \in [Page -> 0 .. 2]
      /\ \A g \in Page : RefAfterFork(p)[g] = 0 <=> ref_count[g] = 0
  BY DEF RefAfterFork, FrameInv, TypeOK
<1>5. /\ ref_count' \in [Page -> 0 .. 2] /\ ref_count'[f] = 1
      /\ \A g \in Page : g # f => ref_count'[g] = RefAfterFork(p)[g]
  BY <1>1, <1>2, <1>4, TakenFacts
<1>6. /\ pte' \in [Procs -> [VPages -> Entry]]
      /\ \A q \in {p, c}, w \in VPages :
            FrameOf(q, w)' = FrameOf(p, w) /\ (Present(q, w)' => Present(p, w))
      /\ \A q \in Procs \ {p, c}, w \in VPages : Same(q, w)
  BY ForkEntries
<1>7. cr3' \in [Procs -> Page] /\ cr3'[c] = f /\ \A q \in Procs \ {c} : cr3'[q] = cr3[q]
  BY <1>1, <1>2 DEF FrameInv, TypeOK
<1>8. TypeOK'
  <2>1. view' \in [Procs -> [VPages -> Vals]] /\ content' = content
    BY DEF fork, FrameInv, TypeOK
  <2>2. slot' \in [Procs -> {"none", "loading", "live", "zombie"}]
    BY DEF fork, FrameInv, TypeOK
  <2> QED
    BY <1>3, <1>5, <1>6, <1>7, <2>1, <2>2 DEF FrameInv, TypeOK
<1>9. ListInv'
  BY <1>1, <1>2, <1>4, <1>5, AllocatedList
<1>10. \A g \in Page : ref_count[g] > 0 => ref_count'[g] > 0
  <2> TAKE g \in Page
  <2>1. ref_count[g] \in 0 .. 2 /\ ref_count'[g] \in 0 .. 2
    BY <1>5 DEF FrameInv, TypeOK
  <2> QED
    BY <1>4, <1>5, <2>1
<1>11. MemoryKept
  BY <1>3, <1>5, <1>7, <1>10 DEF MemoryKept
<1>12. ~(get_free_pages_count < MIN_PAGES)
  BY PagingAssumption DEF fork, FrameInv, TypeOK, get_free_pages_count
<1>13. ASSUME NEW q \in Procs, NEW w \in VPages PROVE EntryKept(q, w)
  <2>1. CASE q \in {p, c}
    <3> SUFFICES ASSUME Present(q, w)'
                 PROVE  FrameOf(q, w)' # Page0 /\ ref_count'[FrameOf(q, w)'] > 0
      BY DEF EntryKept, UsedEntry
    <3>1. Present(p, w) /\ FrameOf(q, w)' = FrameOf(p, w)
      BY <1>6, <2>1
    <3>2. UsedEntry(p, w) /\ FrameOf(p, w) \in Page
      BY EntryInUse DEF FrameInv
    <3>3. FrameOf(p, w) # Page0 /\ ref_count[FrameOf(p, w)] > 0
      BY <1>12, <3>1, <3>2 DEF UsedEntry
    <3> QED
      BY <1>10, <3>1, <3>2, <3>3
  <2>2. CASE q \notin {p, c}
    BY <1>6, <2>2 DEF EntryKept, UsedEntry, Same, Present
  <2> QED
    BY <2>1, <2>2
<1> QED
  BY <1>8, <1>9, <1>11, <1>13, FrameKept

\* The page fault that copies, in terms of the entry's frame.
LEMMA CopyStep ==
    ASSUME FrameInv, NEW p \in Procs, NEW v \in VPages, NEW x \in Vals,
           page_fault_copy(p, v, x)
    PROVE  /\ KindOf(p, v) = "cow" /\ ref_count[FrameOf(p, v)] = 2
           /\ \E f \in Page :
                 /\ get_free_page(f)
                 /\ ref_count' = [Taken(ref_count, f) EXCEPT ![FrameOf(p, v)] = 1]
                 /\ pte' = [pte EXCEPT ![p][v] = [kind |-> "rw", frame |-> f]]
                 /\ content' = [content EXCEPT ![f] = x]
           /\ view' = [view EXCEPT ![p][v] = x]
           /\ UNCHANGED <<slot, cr3>>
  BY Zenon DEF page_fault_copy, CanStore, MappedByCopy, RefAfterCopy, FrameOf, KindOf

\* The page fault that copies keeps FrameInv: the old frame stays in use.
LEMMA CopyFrameInv ==
    ASSUME FrameInv, NEW p \in Procs, NEW v \in VPages, NEW x \in Vals,
           page_fault_copy(p, v, x)
    PROVE  FrameInv'
<1>1. FrameOf(p, v) \in Page /\ ref_count[FrameOf(p, v)] = 2
  BY CopyStep, EntryInUse
<1>2. PICK f \in Page : /\ get_free_page(f)
                        /\ ref_count' = [Taken(ref_count, f) EXCEPT ![FrameOf(p, v)] = 1]
                        /\ pte' = [pte EXCEPT ![p][v] = [kind |-> "rw", frame |-> f]]
                        /\ content' = [content EXCEPT ![f] = x]
  BY CopyStep
<1>3. /\ free_list' \in Seq(Frames)
      /\ pages_used' \in Int /\ max_free_pages_available' \in Int
      /\ f = Page0 => get_free_pages_count < MIN_PAGES
      /\ get_free_pages_count < MIN_PAGES => get_free_pages_count' < MIN_PAGES
  BY <1>2, Allocated
<1>4. /\ ref_count' \in [Page -> 0 .. 2] /\ ref_count'[FrameOf(p, v)] = 1
      /\ f # Page0 => ref_count'[f] = 1
      /\ \A g \in Page : g # f /\ g # FrameOf(p, v) => ref_count'[g] = ref_count[g]
      /\ f = Page0 => \A g \in Page : g # FrameOf(p, v) => ref_count'[g] = ref_count[g]
  <2>1. /\ Taken(ref_count, f) \in [Page -> 0 .. 2]
        /\ f # Page0 => Taken(ref_count, f)[f] = 1
        /\ \A g \in Page : g # f => Taken(ref_count, f)[g] = ref_count[g]
        /\ f = Page0 => Taken(ref_count, f) = ref_count
    BY TakenFacts, Zenon DEF FrameInv, TypeOK
  <2> QED
    BY <1>1, <1>2, <2>1
<1>5. /\ pte' \in [Procs -> [VPages -> Entry]]
      /\ FrameOf(p, v)' = f /\ KindOf(p, v)' = "rw"
      /\ \A q \in Procs, w \in VPages : q # p \/ w # v => Same(q, w)
  BY <1>2, MovedEntries, ZenonT(30)
<1>6. cr3' = cr3 /\ slot' = slot
  BY CopyStep
<1>7. TypeOK'
  <2>1. content' \in [Page -> Vals]
    BY <1>2 DEF FrameInv, TypeOK
  <2>2. view' \in [Procs -> [VPages -> Vals]]
    BY DEF page_fault_copy, FrameInv, TypeOK
  <2> QED
    BY <1>3, <1>4, <1>5, <1>6, <2>1, <2>2 DEF FrameInv, TypeOK
<1>8. ListInv'
  <2>1. \A g \in Page : g # f /\ ref_count[g] = 0 => ref_count'[g] = 0
    BY <1>1, <1>4
  <2> QED
    BY <1>2, <2>1, AllocatedList
<1>9. MemoryKept
  BY <1>1, <1>3, <1>4, <1>6 DEF MemoryKept
<1>10. ASSUME NEW q \in Procs, NEW w \in VPages PROVE EntryKept(q, w)
  <2>1. CASE q = p /\ w = v
    BY <1>3, <1>4, <1>5, <2>1 DEF EntryKept, UsedEntry
  <2>2. CASE q # p \/ w # v
    BY <1>5, <2>2 DEF EntryKept, UsedEntry, Same, Present
  <2> QED
    BY <2>1, <2>2
<1> QED
  BY <1>7, <1>8, <1>9, <1>10, FrameKept

\* What is left of FrameInv to show when the allocator, ref_count and the tables
\* of the processes stay as they are.
LEMMA AllocatorIdle ==
    ASSUME FrameInv, UNCHANGED <<free_list, pages_used, max_free_pages_available, ref_count>>,
           \A q \in Procs : cr3'[q] \in {Page0, cr3[q]}
    PROVE  ListInv' /\ MemoryKept
<1>1. get_free_pages_count' = get_free_pages_count
  BY DEF get_free_pages_count
<1>2. ListInv'
  BY <1>1 DEF FrameInv, ListInv, FreeCountExact
<1>3. MemoryKept
  BY <1>1 DEF MemoryKept
<1> QED
  BY <1>2, <1>3

\* A store to a writable page leaves the allocator and the tables alone.
LEMMA StoreFrameInv ==
    ASSUME FrameInv, NEW p \in Procs, NEW v \in VPages, NEW x \in Vals, Store(p, v, x)
    PROVE  FrameInv'
<1>1. UNCHANGED <<free_list, pages_used, max_free_pages_available, ref_count, slot, cr3, pte>>
  BY DEF Store
<1>2. content' \in [Page -> Vals] /\ view' \in [Procs -> [VPages -> Vals]]
  BY Zenon DEF Store, FrameInv, TypeOK
<1>3. TypeOK'
  BY <1>1, <1>2 DEF FrameInv, TypeOK
<1>4. \A q \in Procs, w \in VPages : EntryKept(q, w)
  BY <1>1 DEF EntryKept, UsedEntry, Same, Present, FrameOf, KindOf
<1> QED
  BY <1>1, <1>3, <1>4, AllocatorIdle, FrameKept

\* The page fault that makes the page writable in place keeps FrameInv.
LEMMA InPlaceFrameInv ==
    ASSUME FrameInv, NEW p \in Procs, NEW v \in VPages, NEW x \in Vals,
           page_fault_in_place(p, v, x)
    PROVE  FrameInv'
<1>1. UNCHANGED <<free_list, pages_used, max_free_pages_available, ref_count, slot, cr3>>
  BY DEF page_fault_in_place
<1>2. content' \in [Page -> Vals] /\ view' \in [Procs -> [VPages -> Vals]]
  BY Zenon DEF page_fault_in_place, FrameInv, TypeOK
<1>3. KindOf(p, v) = "cow" /\ Present(p, v)
  BY DEF page_fault_in_place, CanStore, Present, KindOf
<1>4. pte' = [pte EXCEPT ![p][v].kind = "rw"]
  BY DEF page_fault_in_place
<1>5. /\ pte' \in [Procs -> [VPages -> Entry]]
      /\ FrameOf(p, v)' = FrameOf(p, v) /\ KindOf(p, v)' = "rw"
      /\ \A q \in Procs, w \in VPages : q # p \/ w # v => Same(q, w)
  BY <1>3, <1>4, InPlaceEntries, Zenon
<1>6. TypeOK'
  BY <1>1, <1>2, <1>5 DEF FrameInv, TypeOK
<1>7. FrameOf(p, v) # Page0 /\ ref_count[FrameOf(p, v)] > 0
  BY <1>3, EntryInUse
<1>8. ASSUME NEW q \in Procs, NEW w \in VPages PROVE EntryKept(q, w)
  <2>1. CASE q = p /\ w = v
    BY <1>1, <1>5, <1>7, <2>1 DEF EntryKept, UsedEntry
  <2>2. CASE q # p \/ w # v
    BY <1>5, <2>2 DEF EntryKept, UsedEntry, Same, Present
  <2> QED
    BY <2>1, <2>2
<1> QED
  BY <1>1, <1>6, <1>8, AllocatorIdle, FrameKept

\* shallow_cleanup() gives nothing back: every page of the process has a
\* positive ref_count, so kfree() leaves it alone and the tables stay.
LEMMA ExitReturnsNothing ==
    ASSUME FrameInv, NEW p \in Procs, kill_process(p)
    PROVE  UNCHANGED <<free_list, pages_used, max_free_pages_available, ref_count, cr3,
                       pte, content, view>>
<1> DEFINE S == {pte[p][v].frame : v \in VPages}
<1>1. \A f \in S : f \in Page /\ (f # Page0 => ref_count[f] > 0)
  BY EntryInUse DEF FrameOf
<1>2. kfree(S)
  BY DEF kill_process
<1>3. pte' = [pte EXCEPT ![p] = [v \in VPages |->
                 IF pte[p][v].frame \in Returned(S) THEN Absent ELSE pte[p][v]]]
  BY DEF kill_process
<1>4. UNCHANGED <<cr3, content, view>>
  BY DEF kill_process
<1> HIDE DEF S
<1>5. /\ Returned(S) = {}
      /\ UNCHANGED <<free_list, pages_used, max_free_pages_available, ref_count>>
  BY <1>1, <1>2, NothingReturned
<1>6. pte' = pte
  BY <1>3, <1>5 DEF FrameInv, TypeOK
<1> QED
  BY <1>4, <1>5, <1>6

\* clean_page_tables() gives nothing back either.
LEMMA ReaperReturnsNothing ==
    ASSUME FrameInv, NEW p \in Procs, reap_process(p)
    PROVE  UNCHANGED <<free_list, pages_used, max_free_pages_available, ref_count>>
<1>1. {cr3[p]} \subseteq Page /\ \A f \in {cr3[p]} : f # Page0 => ref_count[f] > 0
  BY DEF FrameInv, TypeOK
<1>2. kfree({cr3[p]})
  BY DEF reap_process
<1> QED
  BY <1>1, <1>2, NothingReturned

\* kill_process() keeps FrameInv.
LEMMA ExitFrameInv ==
    ASSUME FrameInv, NEW p \in Procs, kill_process(p)
    PROVE  FrameInv'
<1>1. UNCHANGED <<free_list, pages_used, max_free_pages_available, ref_count, cr3, pte,
                  content, view>>
  BY ExitReturnsNothing, SMTT(30)
<1>2. slot' \in [Procs -> {"none", "loading", "live", "zombie"}]
  BY DEF kill_process, FrameInv, TypeOK
<1>3. TypeOK'
  BY <1>1, <1>2 DEF FrameInv, TypeOK
<1>4. \A q \in Procs, w \in VPages : EntryKept(q, w)
  BY <1>1 DEF EntryKept, UsedEntry, Same, Present, FrameOf, KindOf
<1> QED
  BY <1>1, <1>3, <1>4, AllocatorIdle, FrameKept

\* reap_process() keeps FrameInv.
LEMMA ReapFrameInv ==
    ASSUME FrameInv, NEW p \in Procs, reap_process(p)
    PROVE  FrameInv'
<1>1. UNCHANGED <<free_list, pages_used, max_free_pages_available, ref_count>>
  BY ReaperReturnsNothing
<1>2. /\ pte' \in [Procs -> [VPages -> Entry]]
      /\ \A q \in Procs, w \in VPages : Present(q, w)' => Present(q, w) /\ Same(q, w)
  BY ClearedEntries, ZenonT(30) DEF reap_process
<1>3. cr3' \in [Procs -> Page] /\ \A q \in Procs : cr3'[q] \in {Page0, cr3[q]}
  BY DEF reap_process, FrameInv, TypeOK, Page
<1>4. /\ slot' \in [Procs -> {"none", "loading", "live", "zombie"}]
      /\ UNCHANGED <<content, view>>
  BY DEF reap_process, FrameInv, TypeOK
<1>5. TypeOK'
  BY <1>1, <1>2, <1>3, <1>4 DEF FrameInv, TypeOK
<1>6. \A q \in Procs, w \in VPages : EntryKept(q, w)
  BY <1>2 DEF EntryKept, UsedEntry
<1> QED
  BY <1>1, <1>3, <1>5, <1>6, AllocatorIdle, FrameKept

\* Every step keeps FrameInv.
LEMMA NextFrameInv == FrameInv /\ [Next]_vars => FrameInv'
<1> SUFFICES ASSUME FrameInv, [Next]_vars PROVE FrameInv'
  OBVIOUS
<1>1. CASE UNCHANGED vars
  <2>1. TypeOK'
    BY <1>1 DEF vars, FrameInv, TypeOK
  <2>2. \A q \in Procs, w \in VPages : EntryKept(q, w)
    BY <1>1 DEF vars, EntryKept, UsedEntry, Same, Present, FrameOf, KindOf
  <2>3. ListInv' /\ MemoryKept
    BY <1>1, AllocatorIdle DEF vars
  <2> QED
    BY <2>1, <2>2, <2>3, FrameKept
<1>2. CASE create_process
  BY <1>2, NewAddressSpaceFrameInv, PagingAssumption DEF create_process
<1>3. ASSUME NEW p \in Procs, NEW c \in Procs, fork(p, c) PROVE FrameInv'
  BY <1>3, ForkFrameInv
<1>4. ASSUME NEW p \in Procs, NEW v \in VPages, NEW x \in Vals, Store(p, v, x) PROVE FrameInv'
  BY <1>4, StoreFrameInv
<1>5. ASSUME NEW p \in Procs, NEW v \in VPages, NEW x \in Vals, page_fault_copy(p, v, x)
      PROVE  FrameInv'
  BY <1>5, CopyFrameInv
<1>6. ASSUME NEW p \in Procs, NEW v \in VPages, NEW x \in Vals, page_fault_in_place(p, v, x)
      PROVE  FrameInv'
  BY <1>6, InPlaceFrameInv
<1>7. ASSUME NEW p \in Procs, NEW v \in VPages, load_file(p, v) PROVE FrameInv'
  BY <1>7, LoadFrameInv
<1>8. ASSUME NEW p \in Procs, exec_vpe(p) PROVE FrameInv'
  BY <1>8, NewAddressSpaceFrameInv DEF exec_vpe
<1>9. ASSUME NEW p \in Procs, kill_process(p) PROVE FrameInv'
  BY <1>9, ExitFrameInv
<1>10. ASSUME NEW p \in Procs, reap_process(p) PROVE FrameInv'
  BY <1>10, ReapFrameInv
<1> QED
  BY <1>1, <1>2, <1>3, <1>4, <1>5, <1>6, <1>7, <1>8, <1>9, <1>10 DEF Next

\* FrameInv holds in every reachable state, whether or not processes fork while
\* a page is shared.
THEOREM FrameInvariance == Spec => []FrameInv
  BY InitFrameInv, NextFrameInv, PTL DEF Spec

\* The variables of the paging code keep their types; ref_count stays within
\* 0 .. 2 under fork(), the page fault handler and kfree().
THEOREM PagingTypeCorrect == Spec => []TypeOK
<1>1. FrameInv => TypeOK
  BY DEF FrameInv
<1> QED
  BY <1>1, FrameInvariance, PTL

\* get_free_pages_count() is the length of the free list after any run of
\* get_free_page() and kfree(), so get_free_page() never reads an empty list.
THEOREM FreeCountIsExact == Spec => []FreeCountExact
<1>1. FrameInv => FreeCountExact
  BY DEF FrameInv, ListInv
<1> QED
  BY <1>1, FrameInvariance, PTL

\* get_free_page() never hands out a frame that a process has as a user page or
\* as a page table, and no frame is on the free list twice.
THEOREM FreeFramesUnmapped == Spec => []FreeIsUnmapped
<1>1. FrameInv => FreeIsUnmapped
  <2> SUFFICES ASSUME FrameInv PROVE FreeIsUnmapped
    OBVIOUS
  <2>1. ASSUME NEW i \in DOMAIN free_list, NEW p \in Procs
        PROVE  ~Maps(p, free_list[i]) /\ cr3[p] # free_list[i]
    <3>1. ref_count[free_list[i]] = 0 /\ ~(ref_count[free_list[i]] > 0)
      BY DEF FrameInv, ListInv
    <3>2. free_list[i] # Page0
      <4>1. free_list \in Seq(Frames)
        BY DEF FrameInv, TypeOK
      <4>2. free_list[i] \in Frames
        BY <4>1, LenProperties, ElementOfSeq
      <4> QED
        BY <4>2, PagingAssumption DEF Frames, Page0
    <3>3. cr3[p] # free_list[i]
      BY <3>1, <3>2 DEF FrameInv
    <3>4. \A v \in VPages : FrameOf(p, v) # free_list[i]
      BY <3>1, <3>2, EntryInUse
    <3> QED
      BY <3>3, <3>4 DEF Maps, FrameOf
  <2> QED
    BY <2>1 DEF FreeIsUnmapped, FrameInv, ListInv
<1> QED
  BY <1>1, FrameInvariance, PTL

\* A store to a copy-on-write page never faults for ever: the page fault handler
\* finds a ref_count of 1 or 2 and changes the entry.
THEOREM CowFaultsResolve == Spec => []CowFaultResolves
<1>1. FrameInv => CowFaultResolves
  <2> SUFFICES ASSUME FrameInv, NEW p \in Procs, NEW v \in VPages, KindOf(p, v) = "cow"
               PROVE  ref_count[FrameOf(p, v)] \in {1, 2}
    BY DEF CowFaultResolves, FrameOf, KindOf
  <2>1. ref_count[FrameOf(p, v)] \in 0 .. 2 /\ ref_count[FrameOf(p, v)] > 0
    BY EntryInUse
  <2> QED
    BY <2>1
<1> QED
  BY <1>1, FrameInvariance, PTL

\* shallow_cleanup() and clean_page_tables() never put a page back: kfree() looks
\* for a ref_count of 0, which no page in use has.  Memory only goes down.
THEOREM NothingEverReturned == Spec => [][pages_used' >= pages_used]_vars
<1>1. FrameInv /\ [Next]_vars => [pages_used' >= pages_used]_vars
  <2> SUFFICES ASSUME FrameInv, Next PROVE pages_used' >= pages_used
    BY DEF vars
  <2>1. pages_used \in Int
    BY DEF FrameInv, TypeOK
  <2>2. ASSUME NEW f \in Page, get_free_page(f) PROVE pages_used' >= pages_used
    BY <2>1, <2>2 DEF get_free_page, allocator
  <2>3. Frames \subseteq Page
    BY DEF Page
  <2>4. ASSUME NEW p \in Procs, kill_process(p) PROVE pages_used' = pages_used
    BY <2>4, ExitReturnsNothing
  <2>5. ASSUME NEW p \in Procs, reap_process(p) PROVE pages_used' = pages_used
    BY <2>5, ReaperReturnsNothing
  <2>6. ASSUME NEW p \in Procs, NewAddressSpace(p) PROVE pages_used' >= pages_used
    BY <2>2, <2>3, <2>6 DEF NewAddressSpace
  <2>7. ASSUME NEW p \in Procs, NEW c \in Procs, fork(p, c) PROVE pages_used' >= pages_used
    BY <2>2, <2>3, <2>7 DEF fork
  <2>8. ASSUME NEW p \in Procs, NEW v \in VPages, load_file(p, v) PROVE pages_used' >= pages_used
    BY <2>2, <2>8 DEF load_file
  <2>9. ASSUME NEW p \in Procs, NEW v \in VPages, NEW x \in Vals, page_fault_copy(p, v, x)
        PROVE  pages_used' >= pages_used
    BY <2>2, <2>9 DEF page_fault_copy
  <2>10. ASSUME NEW p \in Procs, NEW v \in VPages, NEW x \in Vals,
                Store(p, v, x) \/ page_fault_in_place(p, v, x)
         PROVE  pages_used' = pages_used
    BY <2>10 DEF Store, page_fault_in_place
  <2> QED
    BY <2>1, <2>4, <2>5, <2>6, <2>7, <2>8, <2>9, <2>10, PagingAssumption
       DEF Next, create_process, exec_vpe
<1> QED
  BY <1>1, FrameInvariance, PTL DEF Spec

-----------------------------------------------------------------------------
(***************************************************************************)
(* Who shares a frame, as long as no process forks with a shared page.     *)
(***************************************************************************)

\* The first state shares nothing.
LEMMA InitShareInv == Init => ShareInv
<1> SUFFICES ASSUME Init PROVE ShareInv
  OBVIOUS
<1>1. \A p \in Procs, v \in VPages : FrameOf(p, v) = Page0
  BY DEF Init, Absent, FrameOf
<1> QED
  BY <1>1 DEF ShareInv, PairsCounted, NoThree, Isolated, Pair

\* A step that makes no new pair keeps the count of the pairs right.
LEMMA PairsKept ==
    ASSUME ShareInv,
           \A q, r \in Procs, u, w \in VPages : PairKept(q, u, r, w)
    PROVE  PairsCounted' /\ NoThree'
<1>1. ASSUME NEW q \in Procs, NEW r \in Procs, NEW u \in VPages, NEW w \in VPages,
             Pair(q, u, r, w)'
      PROVE  /\ Pair(q, u, r, w) /\ Same(q, u) /\ Same(r, w)
             /\ ref_count'[FrameOf(q, u)] = ref_count[FrameOf(q, u)]
  BY <1>1 DEF PairKept, Pair, Same
<1>2. PairsCounted'
  <2> SUFFICES ASSUME NEW q \in Procs, NEW r \in Procs, NEW u \in VPages, NEW w \in VPages,
                      Pair(q, u, r, w)'
               PROVE  /\ q # r
                      /\ KindOf(q, u)' = "cow" /\ KindOf(r, w)' = "cow"
                      /\ ref_count'[FrameOf(q, u)'] = 2
    BY DEF PairsCounted
  <2>1. /\ Pair(q, u, r, w) /\ Same(q, u) /\ Same(r, w)
        /\ ref_count'[FrameOf(q, u)] = ref_count[FrameOf(q, u)]
    BY <1>1
  <2>2. /\ q # r /\ KindOf(q, u) = "cow" /\ KindOf(r, w) = "cow"
        /\ ref_count[FrameOf(q, u)] = 2
    BY <2>1 DEF ShareInv, PairsCounted
  <2> QED
    BY <2>1, <2>2 DEF Same
<1>3. NoThree'
  BY <1>1 DEF ShareInv, NoThree
<1> QED
  BY <1>2, <1>3

\* Entries that go away leave the others shared as they were.
LEMMA ShareShrinks ==
    ASSUME FrameInv, ShareInv,
           \A q \in Procs, w \in VPages : FrameOf(q, w)' # Page0 => Same(q, w),
           \A g \in Page : ref_count[g] > 0 => ref_count'[g] = ref_count[g],
           content' = content, view' = view
    PROVE  ShareInv'
<1>1. ASSUME NEW q \in Procs, NEW r \in Procs, NEW u \in VPages, NEW w \in VPages
      PROVE  PairKept(q, u, r, w)
  <2> SUFFICES ASSUME Pair(q, u, r, w)'
               PROVE  /\ Same(q, u) /\ Same(r, w)
                      /\ ref_count'[FrameOf(q, u)] = ref_count[FrameOf(q, u)]
    BY DEF PairKept
  <2>1. Same(q, u) /\ Same(r, w) /\ FrameOf(q, u) # Page0
    BY DEF Pair, Same
  <2>2. FrameOf(q, u) \in Page /\ ref_count[FrameOf(q, u)] > 0
    BY <2>1, EntryInUse
  <2> QED
    BY <2>1, <2>2
<1>2. \A q \in Procs, w \in VPages : Isolated(q, w)'
  BY DEF ShareInv, Isolated, Same
<1> QED
  BY <1>1, <1>2, PairsKept DEF ShareInv

\* Page v of p moves to a frame that nobody maps (or to page 0), with x in it.
\* A frame that others still share keeps its ref_count.
LEMMA ShareFresh ==
    ASSUME FrameInv, ShareInv,
           NEW p \in Procs, NEW v \in VPages, NEW x \in Vals, NEW f \in Page,
           f = Page0 \/ ref_count[f] = 0,
           FrameOf(p, v)' = f,
           \A q \in Procs, w \in VPages : q # p \/ w # v => Same(q, w),
           content' = [content EXCEPT ![f] = x],
           view' = [view EXCEPT ![p][v] = x],
           \A q, r \in Procs, u, w \in VPages :
              Pair(q, u, r, w) /\ (q # p \/ u # v) /\ (r # p \/ w # v)
                 => ref_count'[FrameOf(q, u)] = ref_count[FrameOf(q, u)]
    PROVE  ShareInv'
<1>1. ASSUME NEW q \in Procs, NEW w \in VPages, FrameOf(q, w) # Page0
      PROVE  FrameOf(q, w) # f
  <2>1. ref_count[FrameOf(q, w)] > 0
    BY <1>1, EntryInUse
  <2> QED
    BY <1>1, <2>1
<1>2. ASSUME NEW q \in Procs, NEW r \in Procs, NEW u \in VPages, NEW w \in VPages
      PROVE  PairKept(q, u, r, w)
  <2> SUFFICES ASSUME Pair(q, u, r, w)'
               PROVE  /\ Same(q, u) /\ Same(r, w)
                      /\ ref_count'[FrameOf(q, u)] = ref_count[FrameOf(q, u)]
    BY DEF PairKept
  <2>1. (q # p \/ u # v) /\ (r # p \/ w # v)
    BY <1>1 DEF Pair, Same
  <2>2. Same(q, u) /\ Same(r, w) /\ Pair(q, u, r, w)
    BY <2>1 DEF Pair, Same
  <2> QED
    BY <2>1, <2>2
<1>3. ASSUME NEW q \in Procs, NEW w \in VPages PROVE Isolated(q, w)'
  <2>0. content \in [Page -> Vals] /\ view \in [Procs -> [VPages -> Vals]]
    BY SMTT(30) DEF FrameInv, TypeOK
  <2>1. CASE q = p /\ w = v
    BY <2>0, <2>1 DEF Isolated
  <2>2. CASE q # p \/ w # v
    <3> SUFFICES ASSUME FrameOf(q, w)' # Page0
                 PROVE  content'[FrameOf(q, w)'] = view'[q][w]
      BY DEF Isolated
    <3>1. FrameOf(q, w)' = FrameOf(q, w)
      BY <2>2 DEF Same
    <3>2. FrameOf(q, w) # f /\ FrameOf(q, w) \in Page
      BY <1>1, <3>1, EntryInUse
    <3>3. content[FrameOf(q, w)] = view[q][w]
      BY <3>1 DEF ShareInv, Isolated
    <3>4. view'[q][w] = view[q][w]
      BY <2>0, <2>2
    <3>5. content'[FrameOf(q, w)] = content[FrameOf(q, w)]
      BY <2>0, <3>2
    <3> QED
      BY <3>1, <3>3, <3>4, <3>5
  <2> QED
    BY <2>1, <2>2
<1> QED
  BY <1>2, <1>3, PairsKept DEF ShareInv

\* p stores x in its page v, on a frame that no other entry maps, and keeps it.
LEMMA ShareOwnWrite ==
    ASSUME FrameInv, ShareInv,
           NEW p \in Procs, NEW v \in VPages, NEW x \in Vals,
           \A q \in Procs, w \in VPages : ~Pair(p, v, q, w),
           FrameOf(p, v)' = FrameOf(p, v),
           \A q \in Procs, w \in VPages : q # p \/ w # v => Same(q, w),
           content' = [content EXCEPT ![FrameOf(p, v)] = x],
           view' = [view EXCEPT ![p][v] = x],
           ref_count' = ref_count
    PROVE  ShareInv'
<1>1. ASSUME NEW q \in Procs, NEW r \in Procs, NEW u \in VPages, NEW w \in VPages
      PROVE  PairKept(q, u, r, w)
  <2> SUFFICES ASSUME Pair(q, u, r, w)' PROVE Same(q, u) /\ Same(r, w)
    BY DEF PairKept
  <2>1. FrameOf(q, u)' = FrameOf(q, u) /\ FrameOf(r, w)' = FrameOf(r, w)
    BY DEF Same
  <2>2. (q # p \/ u # v) /\ (r # p \/ w # v)
    BY <2>1, ZenonT(30) DEF Pair
  <2> QED
    BY <2>2
<1>2. ASSUME NEW q \in Procs, NEW w \in VPages PROVE Isolated(q, w)'
  <2>0. /\ content \in [Page -> Vals] /\ view \in [Procs -> [VPages -> Vals]]
        /\ FrameOf(p, v) \in Page /\ FrameOf(q, w) \in Page
    BY EntryInUse DEF FrameInv, TypeOK
  <2>1. CASE q = p /\ w = v
    BY <2>0, <2>1 DEF Isolated
  <2>2. CASE q # p \/ w # v
    <3> SUFFICES ASSUME FrameOf(q, w)' # Page0
                 PROVE  content'[FrameOf(q, w)'] = view'[q][w]
      BY DEF Isolated
    <3>1. FrameOf(q, w)' = FrameOf(q, w)
      BY <2>2 DEF Same
    <3>2. FrameOf(q, w) # FrameOf(p, v)
      BY <2>2, <3>1 DEF Pair
    <3>3. content[FrameOf(q, w)] = view[q][w]
      BY <3>1 DEF ShareInv, Isolated
    <3>4. view'[q][w] = view[q][w]
      BY <2>0, <2>2
    <3>5. content'[FrameOf(q, w)] = content[FrameOf(q, w)]
      BY <2>0, <3>2
    <3> QED
      BY <3>1, <3>3, <3>4, <3>5
  <2> QED
    BY <2>1, <2>2
<1> QED
  BY <1>1, <1>2, PairsKept DEF ShareInv

\* boot and exec_vpe() keep ShareInv: the old entries go away.
LEMMA NewAddressSpaceShareInv ==
    ASSUME FrameInv, ShareInv, NEW p \in Procs, NewAddressSpace(p)
    PROVE  ShareInv'
<1>1. PICK f \in Frames : get_free_page(f) /\ ref_count' = Taken(ref_count, f)
  BY DEF NewAddressSpace
<1>2. f \in Page /\ f # Page0
  BY PagingAssumption DEF Page, Frames, Page0
<1>3. ref_count[f] = 0
  BY <1>1, <1>2, Allocated
<1>4. \A g \in Page : g # f => ref_count'[g] = ref_count[g]
  BY <1>1, <1>2, TakenFacts, SMTT(30) DEF FrameInv, TypeOK
<1>5. \A g \in Page : ref_count[g] > 0 => ref_count'[g] = ref_count[g]
  BY <1>3, <1>4
<1>6. \A q \in Procs, w \in VPages : FrameOf(q, w)' # Page0 => Same(q, w)
  BY ClearedEntries, Zenon DEF NewAddressSpace
<1>7. content' = content /\ view' = view
  BY DEF NewAddressSpace
<1> QED
  BY <1>5, <1>6, <1>7, ShareShrinks

\* load_file() keeps ShareInv.
LEMMA LoadShareInv ==
    ASSUME FrameInv, ShareInv, NEW p \in Procs, NEW v \in VPages, load_file(p, v)
    PROVE  ShareInv'
<1>1. PICK f \in Page : /\ get_free_page(f)
                        /\ ref_count' = Taken(ref_count, f)
                        /\ pte' = [pte EXCEPT ![p][v] = [kind |-> "rw", frame |-> f]]
                        /\ content' = [content EXCEPT ![f] = Loaded]
  BY Zenon DEF load_file
<1>2. view' = [view EXCEPT ![p][v] = Loaded]
  BY DEF load_file
<1>3. f = Page0 \/ ref_count[f] = 0
  BY <1>1, Allocated
<1>4. /\ FrameOf(p, v)' = f
      /\ \A q \in Procs, w \in VPages : q # p \/ w # v => Same(q, w)
  BY <1>1, MovedEntries, ZenonT(30)
<1>5. \A g \in Page : ref_count[g] > 0 => ref_count'[g] = ref_count[g]
  <2>1. /\ \A g \in Page : g # f => ref_count'[g] = ref_count[g]
        /\ f = Page0 => ref_count' = ref_count
    BY <1>1, TakenFacts DEF FrameInv, TypeOK
  <2> QED
    BY <1>3, <2>1
<1>6. \A q \in Procs, u \in VPages :
         FrameOf(q, u) # Page0 => ref_count'[FrameOf(q, u)] = ref_count[FrameOf(q, u)]
  BY <1>5, EntryInUse
<1>7. \A q, r \in Procs, u, w \in VPages :
         Pair(q, u, r, w) /\ (q # p \/ u # v) /\ (r # p \/ w # v)
            => ref_count'[FrameOf(q, u)] = ref_count[FrameOf(q, u)]
  BY <1>6 DEF Pair
<1>8. Loaded \in Vals /\ content' = [content EXCEPT ![f] = Loaded]
  BY <1>1, PagingAssumption
<1> QED
  BY <1>2, <1>3, <1>4, <1>7, <1>8, ShareFresh, Zenon

\* The page fault that copies keeps ShareInv: besides p one process at most has
\* the old frame, so ref_count 1 is right for it.
LEMMA CopyShareInv ==
    ASSUME FrameInv, ShareInv, NEW p \in Procs, NEW v \in VPages, NEW x \in Vals,
           page_fault_copy(p, v, x)
    PROVE  ShareInv'
<1>1. PICK f \in Page : /\ get_free_page(f)
                        /\ ref_count' = [Taken(ref_count, f) EXCEPT ![FrameOf(p, v)] = 1]
                        /\ pte' = [pte EXCEPT ![p][v] = [kind |-> "rw", frame |-> f]]
                        /\ content' = [content EXCEPT ![f] = x]
  BY CopyStep
<1>2. view' = [view EXCEPT ![p][v] = x]
  BY CopyStep
<1>3. f = Page0 \/ ref_count[f] = 0
  BY <1>1, Allocated
<1>4. /\ FrameOf(p, v)' = f
      /\ \A q \in Procs, w \in VPages : q # p \/ w # v => Same(q, w)
  BY <1>1, MovedEntries, ZenonT(30)
<1>5. FrameOf(p, v) # Page0 /\ FrameOf(p, v) \in Page
  BY CopyStep, EntryInUse
<1>6. \A g \in Page : g # FrameOf(p, v) /\ ref_count[g] > 0 => ref_count'[g] = ref_count[g]
  <2>1. /\ Taken(ref_count, f) \in [Page -> 0 .. 2]
        /\ \A g \in Page : g # f => Taken(ref_count, f)[g] = ref_count[g]
        /\ f = Page0 => Taken(ref_count, f) = ref_count
    BY TakenFacts, Zenon DEF FrameInv, TypeOK
  <2>2. \A g \in Page : g # FrameOf(p, v) => ref_count'[g] = Taken(ref_count, f)[g]
    BY <1>1, <2>1
  <2> QED
    BY <1>3, <2>1, <2>2
<1>7. ASSUME NEW q \in Procs, NEW r \in Procs, NEW u \in VPages, NEW w \in VPages,
             Pair(q, u, r, w), q # p \/ u # v, r # p \/ w # v
      PROVE  ref_count'[FrameOf(q, u)] = ref_count[FrameOf(q, u)]
  <2>1. FrameOf(q, u) # FrameOf(p, v)
    <3> SUFFICES ASSUME FrameOf(q, u) = FrameOf(p, v) PROVE FALSE
      OBVIOUS
    <3>1. Pair(q, u, p, v) /\ Pair(p, v, r, w)
      BY <1>7 DEF Pair
    <3>2. q # r
      BY <1>7 DEF ShareInv, PairsCounted
    <3> QED
      BY <3>1, <3>2 DEF ShareInv, NoThree
  <2>2. FrameOf(q, u) \in Page /\ ref_count[FrameOf(q, u)] > 0
    BY <1>7, EntryInUse, SMTT(30) DEF Pair
  <2> QED
    BY <1>6, <2>1, <2>2
<1>8. \A q, r \in Procs, u, w \in VPages :
         Pair(q, u, r, w) /\ (q # p \/ u # v) /\ (r # p \/ w # v)
            => ref_count'[FrameOf(q, u)] = ref_count[FrameOf(q, u)]
  BY <1>7
<1>9. content' = [content EXCEPT ![f] = x]
  BY <1>1
<1> QED
  BY <1>2, <1>3, <1>4, <1>8, <1>9, ShareFresh, ZenonT(30)

\* A store to a writable page keeps ShareInv: nobody else maps the frame.
LEMMA StoreShareInv ==
    ASSUME FrameInv, ShareInv, NEW p \in Procs, NEW v \in VPages, NEW x \in Vals,
           Store(p, v, x)
    PROVE  ShareInv'
<1>1. KindOf(p, v) # "cow"
  BY DEF Store, CanStore, KindOf
<1>2. \A q \in Procs, w \in VPages : ~Pair(p, v, q, w)
  BY <1>1 DEF ShareInv, PairsCounted
<1>3. /\ ref_count' = ref_count
      /\ content' = [content EXCEPT ![FrameOf(p, v)] = x]
      /\ view' = [view EXCEPT ![p][v] = x]
  BY DEF Store, FrameOf
<1>4. \A q \in Procs, w \in VPages : Same(q, w)
  BY DEF Store, Same, FrameOf, KindOf
<1>5. FrameOf(p, v)' = FrameOf(p, v)
  BY <1>4 DEF Same
<1> QED
  BY <1>2, <1>3, <1>4, <1>5, ShareOwnWrite, ZenonT(30)

\* The page fault that makes a page writable in place keeps ShareInv: with
\* ref_count 1 nobody else maps the frame.
LEMMA InPlaceShareInv ==
    ASSUME FrameInv, ShareInv, NEW p \in Procs, NEW v \in VPages, NEW x \in Vals,
           page_fault_in_place(p, v, x)
    PROVE  ShareInv'
<1>1. Present(p, v) /\ ref_count[FrameOf(p, v)] = 1
  BY DEF page_fault_in_place, CanStore, Present, KindOf, FrameOf
<1>2. \A q \in Procs, w \in VPages : ~Pair(p, v, q, w)
  BY <1>1 DEF ShareInv, PairsCounted
<1>3. /\ ref_count' = ref_count
      /\ content' = [content EXCEPT ![FrameOf(p, v)] = x]
      /\ view' = [view EXCEPT ![p][v] = x]
  BY DEF page_fault_in_place, FrameOf
<1>4. pte' = [pte EXCEPT ![p][v].kind = "rw"]
  BY DEF page_fault_in_place
<1>5. /\ FrameOf(p, v)' = FrameOf(p, v)
      /\ \A q \in Procs, w \in VPages : q # p \/ w # v => Same(q, w)
  BY <1>1, <1>4, InPlaceEntries, Zenon
<1> QED
  BY <1>2, <1>3, <1>5, ShareOwnWrite, Zenon

\* The reaper and exit keep ShareInv.
LEMMA ExitShareInv ==
    ASSUME FrameInv, ShareInv, NEW p \in Procs, kill_process(p) \/ reap_process(p)
    PROVE  ShareInv'
<1>1. ref_count' = ref_count /\ content' = content /\ view' = view
  BY ExitReturnsNothing, ReaperReturnsNothing DEF reap_process
<1>2. \A q \in Procs, w \in VPages : FrameOf(q, w)' # Page0 => Same(q, w)
  <2>1. CASE kill_process(p)
    <3>1. pte' = pte
      BY <2>1, ExitReturnsNothing
    <3> QED
      BY <3>1 DEF Same, FrameOf, KindOf
  <2>2. CASE reap_process(p)
    BY <2>2, ClearedEntries, ZenonT(30) DEF reap_process
  <2> QED
    BY <2>1, <2>2
<1> QED
  BY <1>1, <1>2, ShareShrinks

\* cow_page_tables() keeps ShareInv when none of the caller's frames is shared:
\* afterwards the caller and the child share each of them, with ref_count 2.
LEMMA ForkShareInv ==
    ASSUME ~Resharing, FrameInv, ShareInv, NEW p \in Procs, NEW c \in Procs, fork(p, c)
    PROVE  ShareInv'
<1>1. PICK f \in Frames : get_free_page(f) /\ ref_count' = Taken(RefAfterFork(p), f)
  BY DEF fork
<1>2. f \in Page /\ f # Page0
  BY PagingAssumption DEF Page, Frames, Page0
<1>3. ref_count[f] = 0
  BY <1>1, <1>2, Allocated
<1>4. \A g \in Page : ref_count[g] > 0 => ref_count'[g] = RefAfterFork(p)[g]
  <2>1. RefAfterFork(p) \in [Page -> 0 .. 2]
    BY DEF RefAfterFork, FrameInv, TypeOK
  <2>2. \A g \in Page : g # f => ref_count'[g] = RefAfterFork(p)[g]
    BY <1>1, <1>2, <2>1, TakenFacts
  <2> QED
    BY <1>3, <2>2
<1>5. /\ p # c
      /\ \A q \in {p, c}, w \in VPages : FrameOf(q, w)' = FrameOf(p, w)
      /\ \A q \in {p, c}, w \in VPages : FrameOf(q, w)' # Page0 => KindOf(q, w)' = "cow"
      /\ \A q \in Procs \ {p, c}, w \in VPages : Same(q, w)
  BY ForkEntries
<1>6. ASSUME NEW q \in Procs, NEW u \in VPages, NEW w \in VPages, q # p
      PROVE  ~Pair(p, u, q, w)
  <2> SUFFICES ASSUME Pair(p, u, q, w) PROVE FALSE
    OBVIOUS
  <2>1. FrameOf(p, u) \in Frames
    BY EntryInUse DEF Pair, Page
  <2>2. Maps(p, FrameOf(p, u))
    BY EntryInUse DEF Maps, Pair, Present, FrameOf, KindOf
  <2>3. Maps(q, FrameOf(p, u))
    BY EntryInUse DEF Maps, Pair, Present, FrameOf, KindOf
  <2> QED
    BY <1>6, <2>1, <2>2, <2>3 DEF fork
<1>7. ASSUME NEW q \in {p, c}, NEW r \in Procs \ {p, c}, NEW u \in VPages, NEW w \in VPages
      PROVE  ~Pair(q, u, r, w)' /\ ~Pair(r, w, q, u)'
  <2>1. FrameOf(q, u)' = FrameOf(p, u) /\ FrameOf(r, w)' = FrameOf(r, w)
    BY <1>5 DEF Same
  <2>2. ~Pair(p, u, r, w) /\ r # p
    BY <1>6, SMTT(30)
  <2> QED
    BY <2>1, <2>2 DEF Pair
<1>8. ASSUME NEW q \in {p, c}, NEW r \in {p, c}, NEW u \in VPages, NEW w \in VPages,
             Pair(q, u, r, w)'
      PROVE  /\ q # r
             /\ KindOf(q, u)' = "cow" /\ KindOf(r, w)' = "cow"
             /\ ref_count'[FrameOf(q, u)'] = 2
  <2>1. /\ FrameOf(q, u)' = FrameOf(p, u) /\ FrameOf(r, w)' = FrameOf(p, w)
        /\ FrameOf(p, u) = FrameOf(p, w) /\ FrameOf(p, u) # Page0
        /\ q # r \/ u # w
    BY <1>5, <1>8 DEF Pair
  <2>2. u = w
    BY <2>1 DEF ShareInv, PairsCounted, Pair
  <2>3. KindOf(q, u)' = "cow" /\ KindOf(r, w)' = "cow"
    BY <1>5, <2>1
  <2>4. /\ FrameOf(p, u) \in Page
        /\ ref_count[FrameOf(p, u)] \in 0 .. 2 /\ ref_count[FrameOf(p, u)] > 0
    BY <2>1, EntryInUse, SMTT(30)
  <2>5. Maps(p, FrameOf(p, u))
    BY <2>1, EntryInUse DEF Maps, Present, FrameOf, KindOf
  <2>6. RefAfterFork(p)[FrameOf(p, u)] = 2
    BY <2>4, <2>5 DEF RefAfterFork
  <2> QED
    BY <1>4, <2>1, <2>2, <2>3, <2>4, <2>6, SMTT(30)
<1>9. ASSUME NEW q \in Procs \ {p, c}, NEW r \in Procs \ {p, c}, NEW u \in VPages,
             NEW w \in VPages, Pair(q, u, r, w)'
      PROVE  /\ Pair(q, u, r, w) /\ q # r
             /\ KindOf(q, u)' = "cow" /\ KindOf(r, w)' = "cow"
             /\ ref_count'[FrameOf(q, u)'] = 2
  <2>1. Same(q, u) /\ Same(r, w)
    BY <1>5
  <2>2. Pair(q, u, r, w)
    BY <1>9, <2>1, ZenonT(30) DEF Pair, Same
  <2>3. /\ q # r /\ KindOf(q, u) = "cow" /\ KindOf(r, w) = "cow"
        /\ ref_count[FrameOf(q, u)] = 2
    BY <2>2 DEF ShareInv, PairsCounted
  <2>4. FrameOf(q, u) \in Page
    BY EntryInUse
  <2>5. RefAfterFork(p)[FrameOf(q, u)] = 2
    BY <2>3, <2>4 DEF RefAfterFork
  <2>6. ref_count'[FrameOf(q, u)] = 2
    BY <1>4, <2>3, <2>4, <2>5
  <2> QED
    BY <2>1, <2>2, <2>3, <2>6 DEF Same
<1>10. PairsCounted'
  <2> SUFFICES ASSUME NEW q \in Procs, NEW r \in Procs, NEW u \in VPages, NEW w \in VPages,
                      Pair(q, u, r, w)'
               PROVE  /\ q # r
                      /\ KindOf(q, u)' = "cow" /\ KindOf(r, w)' = "cow"
                      /\ ref_count'[FrameOf(q, u)'] = 2
    BY DEF PairsCounted
  <2>1. CASE q \in {p, c}
    <3>1. r \in {p, c}
      BY <1>7, <2>1
    <3> QED
      BY <1>8, <2>1, <3>1
  <2>2. CASE q \notin {p, c}
    <3>1. r \notin {p, c}
      BY <1>7, <2>2
    <3> QED
      BY <1>9, <2>2, <3>1
  <2> QED
    BY <2>1, <2>2
<1>11. NoThree'
  <2> SUFFICES ASSUME NEW q \in Procs, NEW r \in Procs, NEW s \in Procs,
                      NEW t \in VPages, NEW u \in VPages, NEW w \in VPages,
                      q # s, Pair(q, t, r, u)', Pair(r, u, s, w)'
               PROVE  FALSE
    BY DEF NoThree
  <2>1. CASE r \in {p, c}
    <3>1. q \in {p, c} /\ s \in {p, c}
      BY <1>7, <2>1
    <3>2. q # r /\ r # s
      BY <1>8, <2>1, <3>1
    <3> QED
      BY <2>1, <3>1, <3>2
  <2>2. CASE r \notin {p, c}
    <3>1. q \notin {p, c} /\ s \notin {p, c}
      BY <1>7, <2>2
    <3>2. Pair(q, t, r, u) /\ Pair(r, u, s, w)
      BY <1>9, <2>2, <3>1
    <3> QED
      BY <3>2 DEF ShareInv, NoThree
  <2> QED
    BY <2>1, <2>2
<1>12. ASSUME NEW q \in Procs, NEW w \in VPages PROVE Isolated(q, w)'
  <2>1. content' = content /\ view'[c] = view[p] /\ \A o \in Procs : o # c => view'[o] = view[o]
    BY DEF fork, FrameInv, TypeOK
  <2>2. Isolated(p, w) /\ Isolated(q, w)
    BY SMTT(30) DEF ShareInv
  <2>3. CASE q \in {p, c}
    <3>1. FrameOf(q, w)' = FrameOf(p, w)
      BY <1>5, <2>3
    <3>2. view'[q] = view[p]
      BY <1>5, <2>1, <2>3, SMTT(30)
    <3> QED
      BY <2>1, <2>2, <3>1, <3>2 DEF Isolated
  <2>4. CASE q \notin {p, c}
    BY <1>5, <2>1, <2>2, <2>4 DEF Isolated, Same
  <2> QED
    BY <2>3, <2>4
<1> QED
  BY <1>10, <1>11, <1>12 DEF ShareInv

\* Every step keeps ShareInv when no process forks with a shared page.
LEMMA NextShareInv ==
    ASSUME ~Resharing
    PROVE  FrameInv /\ ShareInv /\ [Next]_vars => ShareInv'
<1> SUFFICES ASSUME FrameInv, ShareInv, [Next]_vars PROVE ShareInv'
  OBVIOUS
<1>1. CASE UNCHANGED vars
  <2>1. \A q \in Procs, w \in VPages : Same(q, w)
    BY <1>1 DEF vars, Same, FrameOf, KindOf
  <2>2. ref_count' = ref_count /\ content' = content /\ view' = view
    BY <1>1 DEF vars
  <2> QED
    BY <2>1, <2>2, ShareShrinks
<1>2. CASE create_process
  BY <1>2, NewAddressSpaceShareInv, PagingAssumption DEF create_process
<1>3. ASSUME NEW p \in Procs, NEW c \in Procs, fork(p, c) PROVE ShareInv'
  BY <1>3, ForkShareInv
<1>4. ASSUME NEW p \in Procs, NEW v \in VPages, NEW x \in Vals, Store(p, v, x) PROVE ShareInv'
  BY <1>4, StoreShareInv
<1>5. ASSUME NEW p \in Procs, NEW v \in VPages, NEW x \in Vals, page_fault_copy(p, v, x)
      PROVE  ShareInv'
  BY <1>5, CopyShareInv
<1>6. ASSUME NEW p \in Procs, NEW v \in VPages, NEW x \in Vals, page_fault_in_place(p, v, x)
      PROVE  ShareInv'
  BY <1>6, InPlaceShareInv
<1>7. ASSUME NEW p \in Procs, NEW v \in VPages, load_file(p, v) PROVE ShareInv'
  BY <1>7, LoadShareInv
<1>8. ASSUME NEW p \in Procs, exec_vpe(p) PROVE ShareInv'
  BY <1>8, NewAddressSpaceShareInv DEF exec_vpe
<1>9. ASSUME NEW p \in Procs, kill_process(p) \/ reap_process(p) PROVE ShareInv'
  BY <1>9, ExitShareInv
<1> QED
  BY <1>1, <1>2, <1>3, <1>4, <1>5, <1>6, <1>7, <1>8, <1>9, SMTT(30) DEF Next

\* ShareInv holds in every reachable state when no process forks with a shared
\* page.
THEOREM ShareInvariance ==
    ASSUME ~Resharing
    PROVE  Spec => []ShareInv
<1>1. FrameInv /\ ShareInv /\ [Next]_vars => ShareInv'
  BY NextShareInv
<1> QED
  BY <1>1, InitShareInv, FrameInvariance, PTL DEF Spec

\* COW fork isolates: when no process forks with a shared page, each process
\* finds in its pages what it stored or inherited.
THEOREM ForkIsolates ==
    ASSUME ~Resharing
    PROVE  Spec => []Isolation
<1>1. ShareInv => Isolation
  BY DEF ShareInv, Isolated, Isolation, FrameOf
<1> QED
  BY <1>1, ShareInvariance, PTL

\* When no process forks with a shared page, a frame that two processes map has
\* ref_count 2, and the page fault of the first of them to store makes a copy.
THEOREM SharingIsCounted ==
    ASSUME ~Resharing
    PROVE  Spec => []SharedIsCounted
<1>1. ShareInv => SharedIsCounted
  <2> SUFFICES ASSUME ShareInv, NEW p \in Procs, NEW q \in Procs, NEW f \in Frames,
                      p # q, Maps(p, f), Maps(q, f)
               PROVE  ref_count[f] = 2
    BY DEF SharedIsCounted
  <2>1. PICK v \in VPages : FrameOf(p, v) = f
    BY DEF Maps, FrameOf
  <2>2. PICK w \in VPages : FrameOf(q, w) = f
    BY DEF Maps, FrameOf
  <2>3. f # Page0
    BY PagingAssumption DEF Frames, Page0
  <2>4. Pair(p, v, q, w)
    BY <2>1, <2>2, <2>3 DEF Pair
  <2> QED
    BY <2>1, <2>4 DEF ShareInv, PairsCounted
<1> QED
  BY <1>1, ShareInvariance, PTL
=============================================================================
