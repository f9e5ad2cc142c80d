------------------------------ MODULE MCMemory ------------------------------
(***************************************************************************)
(* KernelMemory, PageTables and AddressSpace in one run.  They are three   *)
(* views of sys/physical_memory.c, sys/paging.c and sys/process.c that     *)
(* share no variable, so what one of them does is seen in behaviours in    *)
(* which it alone moves.  "part" says which one that is, once the kernel   *)
(* has booted.                                                             *)
(***************************************************************************)
EXTENDS KernelMemory

CONSTANTS Procs

VARIABLES
    part,                     \* "kernel", "tables" or "areas"
    table, used, roots, cr3,  \* of PageTables
    mm, mapped                \* of AddressSpace

T == INSTANCE PageTables WITH
    ENTRIES   <- 2,
    Phys      <- {101, 102},
    DirectMap <- {8},
    Touched   <- {0, 3, 13},
    Watched   <- {0, 3, 8, 13},
    NumTables <- 13,
    MaxSpaces <- 2

\* Pages of two bytes.  The first program has a text and a data segment, each
\* ending inside a page; the second has one segment that ends on a page boundary.
A == INSTANCE AddressSpace WITH
    PAGE_SIZE   <- 2,
    LastPage    <- 14,
    HEAP_START  <- 10,
    STACK_START <- 26,
    StackGap    <- 1,
    LIMIT_STACK <- 4,
    Programs    <- {<<[vaddr |-> 0, memsz |-> 3], [vaddr |-> 4, memsz |-> 3]>>,
                    <<[vaddr |-> 2, memsz |-> 4]>>},
    Sizes       <- {0, 2, 3},
    MaxHeap     <- 4,
    Reach       <- 2

ASSUME PartsAssumption == T!PageTablesAssumption /\ A!AddressSpaceAssumption

-----------------------------------------------------------------------------
tableVars == <<table, used, roots, cr3>>
areaVars  == <<mm, mapped>>
all == <<vars, part, tableVars, areaVars>>

MCInit ==
    /\ Init /\ T!Init /\ A!Init
    /\ part \in {"kernel", "tables", "areas"}

MCNext ==
    \/ Booting /\ Next /\ UNCHANGED <<part, tableVars, areaVars>>
    \/ ~Booting /\ part = "kernel" /\ Next /\ UNCHANGED <<part, tableVars, areaVars>>
    \/ ~Booting /\ part = "tables" /\ T!Next /\ UNCHANGED <<part, vars, areaVars>>
    \/ ~Booting /\ part = "areas" /\ A!Next /\ UNCHANGED <<part, vars, tableVars>>

MCSpec == MCInit /\ [][MCNext]_all

-----------------------------------------------------------------------------
(***************************************************************************)
(* The properties of the parts, each where its part moves.                 *)
(***************************************************************************)

\* walk_page_table() and get_flags() return what the processor uses, for every
\* page, after any order of mapping, unmapping, new roots and fork.
WalkAgrees == part = "tables" => T!WalkAgrees

\* The four levels of tables implement PageMap: one map of the kernel that all
\* address spaces see, and a map of its own for the programs of each.
PageMapSpec == T!Map!Init /\ [][part = "tables" => T!Map!Next]_(T!Map!vars)

\* Every page of an area and of the stack of a process that has not gone astray
\* is mapped for it, and for one area only, through any order of exec, malloc,
\* fork and stack growth.
AreasKeepPages == part = "areas" => A!AreasKeepPages

\* The stack of such a process passes LIMIT_STACK by no more than one growth,
\* and a growth includes the page that was touched.
StackGrowth == part = "areas" => A!StackGrowth
=============================================================================
