----------------------------- MODULE PageTables -----------------------------
(***************************************************************************)
(* The four levels of page tables in sys/paging.c: update_page_tables()    *)
(* and setup_page_tables(), which differ only in where they find the root, *)
(* walk_page_table(), get_flags(), remove_page_table_mapping(),            *)
(* setup_user_page_tables(), cow_page_tables() and set_new_cr3().          *)
(*                                                                         *)
(* A table is a frame that holds ENTRIES entries, each with a frame and a  *)
(* set of flags.  Tables are numbered in the order get_free_page() hands   *)
(* them out; a fresh frame is zero.  The kernel lies under the last entry  *)
(* of a root, the programs under the others, and the root of a new address *)
(* space copies that last entry, so the tables below it are shared.        *)
(***************************************************************************)
EXTENDS Integers, FiniteSets, SequencesExt

CONSTANTS
    ENTRIES,     \* entries of a table (512)
    Phys,        \* physical pages that are mapped; positive numbers
    DirectMap,   \* kernel pages that init_paging() maps
    Touched,     \* bound: pages mapped and unmapped later
    Watched,     \* bound: pages that PageMapSpec speaks of
    NumTables,   \* bound: frames for tables
    MaxSpaces    \* bound: address spaces

Idx    == 0 .. ENTRIES - 1
VPages == 0 .. ENTRIES * ENTRIES * ENTRIES * ENTRIES - 1
KPages == {v \in VPages : v \div (ENTRIES * ENTRIES * ENTRIES) = ENTRIES - 1}
UPages == VPages \ KPages
Tables == 1 .. NumTables

PAGING_KERNEL_R_W_FLAGS == {"P", "W"}
PAGING_USER_R_W_FLAGS   == {"P", "W", "U"}
FlagsFor(v) == IF v \in KPages THEN PAGING_KERNEL_R_W_FLAGS ELSE PAGING_USER_R_W_FLAGS

\* What the values of the constants are to satisfy.
PageTablesAssumption ==
    /\ ENTRIES \in Nat /\ ENTRIES > 1
    /\ Phys # {} /\ Phys \subseteq Nat \ {0}
    /\ DirectMap # {} /\ DirectMap \subseteq KPages
    /\ Touched \subseteq Watched /\ Watched \subseteq VPages

VARIABLES
    table,  \* the contents of the frames that hold tables
    used,   \* how many of them are handed out
    roots,  \* the roots of the address spaces, in the order of creation
    cr3     \* the current root

vars == <<table, used, roots, cr3>>

Zero == [frame |-> 0, flags |-> {}]
Present(e) == "P" \in e.flags

-----------------------------------------------------------------------------
(***************************************************************************)
(* Mutated forms, used to show that the properties notice such a slip.     *)
(***************************************************************************)
\* A table that exists is replaced by a new one.
AlwaysNewTable(e) == TRUE

\* walk_page_table() indexes the last table with the bits of the one above.
OffsetOfPde(v) == (v \div ENTRIES) % ENTRIES

-----------------------------------------------------------------------------
(***************************************************************************)
(* The indices into the four tables.                                       *)
(***************************************************************************)
offset_pte(v)  == v % ENTRIES
offset_pde(v)  == (v \div ENTRIES) % ENTRIES
offset_pdpe(v) == (v \div (ENTRIES * ENTRIES)) % ENTRIES
offset_pml4(v) == (v \div (ENTRIES * ENTRIES * ENTRIES)) % ENTRIES

(***************************************************************************)
(* update_page_tables() on m = [table, used].  An entry on the way that is *)
(* not present gets a new table; every entry on the way gets the flags.    *)
(***************************************************************************)
Missing(e) == ~Present(e)

Descend(m, t, i, flags) ==
    IF Missing(m.table[t][i])
    THEN [table |-> [m.table EXCEPT ![t][i] = [frame |-> m.used + 1, flags |-> flags]],
          used  |-> m.used + 1]
    ELSE [m EXCEPT !.table[t][i].flags = flags]

Updated(m, root, v, f, flags) ==
    LET m4  == Descend(m, root, offset_pml4(v), flags)
        pdp == m4.table[root][offset_pml4(v)].frame
        m3  == Descend(m4, pdp, offset_pdpe(v), flags)
        pd  == m3.table[pdp][offset_pdpe(v)].frame
        m2  == Descend(m3, pd, offset_pde(v), flags)
        pt  == m2.table[pd][offset_pde(v)].frame
    IN  [m2 EXCEPT !.table[pt][offset_pte(v)] = [frame |-> f, flags |-> flags]]

-----------------------------------------------------------------------------
(***************************************************************************)
(* The walks.  LastTable is 0 where a table is missing on the way.         *)
(***************************************************************************)
Below(t, i) == IF t # 0 /\ Present(table[t][i]) THEN table[t][i].frame ELSE 0

LastTable(root, v) ==
    Below(Below(Below(root, offset_pml4(v)), offset_pdpe(v)), offset_pde(v))

\* How many tables are missing on the way to v; used for the bound only.
NewTables(v) ==
    Cardinality({k \in 1 .. 3 :
        CASE k = 1 -> Below(cr3, offset_pml4(v)) = 0
          [] k = 2 -> Below(Below(cr3, offset_pml4(v)), offset_pdpe(v)) = 0
          [] k = 3 -> LastTable(cr3, v) = 0})

update_page_tables(v, f) ==
    /\ used + NewTables(v) <= NumTables
    /\ LET m == Updated([table |-> table, used |-> used], cr3, v, f, FlagsFor(v))
       IN table' = m.table /\ used' = m.used
    /\ UNCHANGED <<roots, cr3>>

WalkOffset(v) == offset_pte(v)

LastEntry(v) ==
    IF LastTable(cr3, v) = 0 THEN Zero ELSE table[LastTable(cr3, v)][WalkOffset(v)]

walk_page_table(v) == LastEntry(v).frame
get_flags(v) == LastEntry(v).flags

remove_page_table_mapping(v) ==
    /\ LastTable(cr3, v) # 0
    /\ table' = [table EXCEPT ![LastTable(cr3, v)][offset_pte(v)] = Zero]
    /\ UNCHANGED <<used, roots, cr3>>

-----------------------------------------------------------------------------
(***************************************************************************)
(* New roots.                                                              *)
(***************************************************************************)
KernelEntry(root) == [i \in Idx |-> IF i = ENTRIES - 1 THEN table[root][i] ELSE Zero]

setup_user_page_tables ==
    /\ Len(roots) < MaxSpaces /\ used < NumTables
    /\ table' = [table EXCEPT ![used + 1] = KernelEntry(cr3)]
    /\ used' = used + 1
    /\ roots' = Append(roots, used + 1)
    /\ UNCHANGED cr3

set_new_cr3(r) ==
    /\ r \in Range(roots)
    /\ cr3' = r
    /\ UNCHANGED <<table, used, roots>>

\* The tables below a root that hold user pages, upper ones and last ones.
Children(S, I) == {Below(t, i) : t \in S, i \in I} \ {0}
UpperTables(root) ==
    LET pdps == Children({root}, Idx \ {ENTRIES - 1}) IN pdps \cup Children(pdps, Idx)
LastTables(root) ==
    Children(Children(Children({root}, Idx \ {ENTRIES - 1}), Idx), Idx)

\* R/W is turned off and the COW flag set in a present entry.
Cow(e) ==
    IF Present(e) THEN [e EXCEPT !.flags = (@ \ {"W"}) \cup {"COW"}] ELSE Zero
ParentEntry(e) == Cow(e)

cow_page_tables ==
    LET old   == SetToSeq(UpperTables(cr3) \cup LastTables(cr3))
        copy  == [t \in Range(old) |-> used + 1 + CHOOSE k \in DOMAIN old : old[k] = t]
        Moved(e) == IF Present(e) THEN [e EXCEPT !.frame = copy[@]] ELSE Zero
        Child(t) == CASE t = used + 1 ->
                            [i \in Idx |-> IF i = ENTRIES - 1 THEN table[cr3][i]
                                           ELSE Moved(table[cr3][i])]
                      [] \E s \in UpperTables(cr3) : copy[s] = t ->
                            LET s == CHOOSE s \in UpperTables(cr3) : copy[s] = t
                            IN [i \in Idx |-> Moved(table[s][i])]
                      [] OTHER ->
                            LET s == CHOOSE s \in LastTables(cr3) : copy[s] = t
                            IN [i \in Idx |-> Cow(table[s][i])]
    IN  /\ Len(roots) < MaxSpaces /\ used + 1 + Len(old) <= NumTables
        /\ table' = [t \in Tables |->
                CASE t \in LastTables(cr3) ->
                            [i \in Idx |-> IF Present(table[t][i]) THEN ParentEntry(table[t][i])
                                           ELSE table[t][i]]
                  [] t \in used + 1 .. used + 1 + Len(old) -> Child(t)
                  [] OTHER -> table[t]]
        /\ used' = used + 1 + Len(old)
        /\ roots' = Append(roots, used + 1)
        /\ UNCHANGED cr3

-----------------------------------------------------------------------------
\* After init_paging(): the pages of DirectMap are mapped.  Which physical
\* page each one gets is in KernelMemory.
Booted ==
    FoldSet(LAMBDA v, m : Updated(m, 1, v, Min(Phys), PAGING_KERNEL_R_W_FLAGS),
            [table |-> [t \in Tables |-> [i \in Idx |-> Zero]], used |-> 1], DirectMap)

Init ==
    /\ table = Booted.table
    /\ used = Booted.used
    /\ roots = <<1>>
    /\ cr3 = 1

Next ==
    \/ \E v \in Touched, f \in Phys : update_page_tables(v, f)
    \/ \E v \in Touched : remove_page_table_mapping(v)
    \/ setup_user_page_tables
    \/ cow_page_tables
    \/ \E r \in Tables : set_new_cr3(r)

Spec == Init /\ [][Next]_vars

-----------------------------------------------------------------------------
(***************************************************************************)
(* Properties.                                                             *)
(***************************************************************************)

\* What the processor makes of an address: every entry on the way must be
\* present, and a right must be given by all of them.
Translate(root, v) ==
    LET pdp == Below(root, offset_pml4(v))
        pd  == Below(pdp, offset_pdpe(v))
        pt  == Below(pd, offset_pde(v))
        e   == table[pt][offset_pte(v)]
    IN IF pt = 0 THEN Zero ELSE IF ~Present(e) THEN Zero
       ELSE [frame |-> e.frame,
             flags |-> e.flags \ ({"W", "U"} \ (table[root][offset_pml4(v)].flags
                                                \cap table[pdp][offset_pdpe(v)].flags
                                                \cap table[pd][offset_pde(v)].flags))]

Map == INSTANCE PageMap WITH
    KPages  <- KPages \cap Watched,
    UPages  <- UPages \cap Watched,
    Kernel  <- PAGING_KERNEL_R_W_FLAGS,
    User    <- PAGING_USER_R_W_FLAGS,
    kernel  <- [v \in KPages \cap Watched |-> Translate(cr3, v)],
    user    <- [k \in DOMAIN roots |-> [v \in UPages \cap Watched |-> Translate(roots[k], v)]],
    current <- CHOOSE k \in DOMAIN roots : roots[k] = cr3

\* The four levels implement PageMap.  A mapping of a kernel page made in
\* one address space is seen in all of them, one of a user page in no other;
\* making or removing a mapping changes no other page and takes no right from
\* one, although entries that many pages share are written on the way; fork
\* takes the right to write from parent and child alike.
PageMapSpec == Map!Spec

\* walk_page_table() and get_flags() return what the processor uses.  kfree()
\* and the copy-on-write fault decide by them.
WalkAgrees ==
    \A v \in VPages :
        /\ walk_page_table(v) = Translate(cr3, v).frame
        /\ get_flags(v) = Translate(cr3, v).flags
=============================================================================
