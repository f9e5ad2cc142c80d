------------------------------ MODULE MCFiles -------------------------------
(***************************************************************************)
(* Files for TLC.  Descriptors and directory streams have no state in      *)
(* common, so a behaviour uses the ones or the others.                     *)
(***************************************************************************)
EXTENDS Files

VARIABLE uses    \* "descriptors" or "directories"

(***************************************************************************)
(* Archives, with three characters in a block.                             *)
(***************************************************************************)
Dir(name) == [name |-> name, type |-> DirType, data |-> <<>>]
File(name, data) == [name |-> name, type |-> FileType, data |-> data]

B  == <<"b", "/">>
Bc == <<"b", "c", "/">>
Bx == <<"b", "/", "x">>
By == <<"b", "/", "y">>
Bz == <<"b", "/", "z">>

\* No file fills its last block.  One is empty, one is shorter and one longer
\* than a block.
Ragged == <<Dir(B), File(Bx, <<"1">>), File(By, <<"1", "2", "3", "4", "5">>),
            File(Bz, <<>>), Dir(Bc)>>
Reversed == <<Dir(Bc), Dir(B), File(Bx, <<"1", "2", "3", "4">>), File(By, <<"1", "2">>)>>

\* A file fills its last block.  Behind it the walk misses a directory.
Full == <<Dir(B), File(Bx, <<"1", "2", "3">>), Dir(Bc), File(By, <<"1">>)>>

SomeArchives == {Ragged, Reversed, Full}

FileNames == {Bx, By}
DirNames  == {<<"b">>, B, <<"b", "c">>, Bc}
AllNames  == FileNames \cup DirNames

-----------------------------------------------------------------------------
MCInit == Init /\ uses \in {"descriptors", "directories"}

FileCall(p) ==
    \/ \E name \in FileNames : open(p, name)
    \/ \E n \in Fds, len \in Lens : read(p, n, len)
    \/ \E n \in Fds : close(p, n)

DirectoryCall(p) ==
    \/ \E name \in DirNames : opendir(p, name) \/ ch_dir(p, name)
    \/ readdir(p)
    \/ closedir(p)

ProcessCall(p) ==
    \/ \E c \in Procs \ {p} : copy_process(p, c)
    \/ exec_vpe(p)
    \/ exit_current_process(p)

MCNext ==
    /\ \E p \in Procs :
        \/ uses = "descriptors" /\ FileCall(p)
        \/ uses = "directories" /\ DirectoryCall(p)
        \/ ProcessCall(p)
    /\ UNCHANGED uses

MCSpec == MCInit /\ [][MCNext]_<<vars, uses>>
=============================================================================
