------------------------------ MODULE PageMap -------------------------------
(***************************************************************************)
(* What page tables promise to the rest of the kernel: one map of kernel   *)
(* pages that every address space sees, and a map of user pages for each   *)
(* address space.                                                          *)
(***************************************************************************)
EXTENDS Integers, Sequences

CONSTANTS KPages, UPages, Phys, Kernel, User, MaxSpaces

VARIABLES kernel, user, current

vars == <<kernel, user, current>>

Absent == [frame |-> 0, flags |-> {}]
Nothing == [v \in UPages |-> Absent]
Mapping(flags) == {Absent} \cup [frame : Phys, flags : {flags}]

\* What fork makes of a page, in the parent and in the child.
Shared(m) == IF m = Absent THEN m ELSE [m EXCEPT !.flags = (@ \ {"W"}) \cup {"COW"}]

\* A page is mapped to a frame, or is mapped no longer.
SetKernelPage ==
    /\ UNCHANGED <<user, current>>
    /\ \E v \in KPages : \E m \in Mapping(Kernel) : kernel' = [kernel EXCEPT ![v] = m]

SetUserPage ==
    /\ UNCHANGED <<kernel, current>>
    /\ LET mine == user[current] IN
       \E v \in UPages : \E m \in Mapping(User) :
            user' = [user EXCEPT ![current] = [mine EXCEPT ![v] = m]]

New ==
    /\ Len(user) < MaxSpaces
    /\ user' = Append(user, Nothing)
    /\ UNCHANGED <<kernel, current>>

Fork ==
    LET copy == [v \in UPages |-> Shared(user[current][v])] IN
    /\ Len(user) < MaxSpaces
    /\ user' = Append([user EXCEPT ![current] = copy], copy)
    /\ UNCHANGED <<kernel, current>>

Switch == UNCHANGED <<kernel, user>> /\ current' \in DOMAIN user

Init ==
    /\ kernel \in [KPages -> Mapping(Kernel)]
    /\ user = <<Nothing>>
    /\ current = 1

Next ==
    \/ Switch
    \/ New
    \/ SetKernelPage
    \/ SetUserPage
    \/ Fork

Spec == Init /\ [][Next]_vars
=============================================================================
