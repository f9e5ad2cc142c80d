------------------------------- MODULE Files --------------------------------
(***************************************************************************)
(* Files and directories as the programs see them: the descriptor table of *)
(* a process and the calls open, read, write and close of sys/syscalls.c,  *)
(* the directory streams and the working directory, and what fork, execvpe *)
(* and exit do to them.                                                    *)
(*                                                                         *)
(* Descriptors 0, 1 and 2 are the terminal's and are never opened or       *)
(* closed; reading from 0 is in Terminal.  A file object and a stream live *)
(* in a page of the kernel, so both have identities of their own.  A new   *)
(* kern_thread lies in fresh pages, which are zero: its descriptors from 3 *)
(* on are NULL.  The same holds for current_point of a new stream.         *)
(***************************************************************************)
EXTENDS Tarfs, FiniteSets

CONSTANTS
    Archives,  \* the archives that the kernel may be built with
    Names,     \* names that the programs pass to open, opendir and chdir
    Procs,     \* processes
    NUM_FDS,
    Lens,      \* lengths passed to read()
    Ids,       \* bound: file objects, and streams, in use; a set of numbers
    None

ASSUME FilesAssumption == Ids \subseteq Nat /\ NUM_FDS \in Nat /\ None \notin Ids

VARIABLES
    archive,   \* the archive in the kernel's image
    fds,       \* fds[p][n]: the file object of descriptor n of p, or None
    fo,        \* file objects: entry, offset, ref_count
    cwd,       \* cwd[p]: the working directory of p, None if p is no process
    dirp,      \* dirp[p]: the stream in the DIR of the libc of p, or None
    streams,   \* struct dir_header: files, current_point
    got,       \* history: got[o]: what reads of file object o have returned
    listed     \* history: listed[s]: what reads of stream s have returned

vars == <<archive, fds, fo, cwd, dirp, streams, got, listed>>
fileVars == <<fds, fo, got>>
dirVars  == <<dirp, streams, listed>>

Fds == 3 .. NUM_FDS - 1
Alive(p) == cwd[p] # None

NoFds == [n \in Fds |-> None]
NoObject == [entry |-> 0, offset |-> 0, ref_count |-> 0]
NoStream == [name |-> <<>>, files |-> <<>>, current_point |-> 0]

\* A page nobody refers to.
Unused(refs) == Ids \ refs
InUse == UNION {{fds[p][n] : n \in Fds} : p \in Procs}
StreamsInUse == {dirp[p] : p \in Procs}

\* The DIR of p changes to s; a stream nobody refers to any more is forgotten.
SetDirp(p, s) ==
    LET kept == {dirp[q] : q \in Procs \ {p}} \cup {s} IN
    /\ dirp' = [dirp EXCEPT ![p] = s]
    /\ streams' = [t \in Ids |-> IF t \in kept THEN streams[t] ELSE NoStream]
    /\ listed' = [t \in Ids |-> IF t \in kept THEN listed[t] ELSE <<>>]

-----------------------------------------------------------------------------
(***************************************************************************)
(* Mutated forms, used to show that the properties notice such a slip.     *)
(***************************************************************************)
\* fork hands the descriptors on, as it does with 0, 1 and 2.
ChildFdsShared(p) == fds[p]

\* read() does not move the offset.
OffsetKept(old, n) == old

\* readdir() skips every second entry.
PointAfter(d) == d.current_point + 2

-----------------------------------------------------------------------------
(***************************************************************************)
(* SYSCALL_OPEN, SYSCALL_READ, SYSCALL_WRITE and SYSCALL_CLOSE.            *)
(***************************************************************************)
FreeFds(p) == {n \in Fds : fds[p][n] = None}

\* -1 when there is no such file and -2 when the table is full change nothing.
open(p, name) ==
    LET entry == get_file_binary(archive, name) IN
    /\ Alive(p)
    /\ entry # 0
    /\ \E n \in FreeFds(p), o \in Unused(InUse) :
          /\ \A m \in FreeFds(p) : n <= m
          /\ \A i \in Unused(InUse) : o <= i
          /\ fds' = [fds EXCEPT ![p] = [m \in Fds \cup {n} |-> IF m = n THEN o ELSE @[m]]]
          /\ fo' = [fo EXCEPT ![o] = [entry |-> entry, offset |-> 0, ref_count |-> 1]]
          /\ got' = [got EXCEPT ![o] = <<>>]
    /\ UNCHANGED <<archive, cwd, dirVars>>

OffsetAfter(old, n) == IF n > 0 THEN old + n ELSE old

read(p, n, len) ==
    /\ Alive(p)
    /\ fds[p][n] # None
    /\ LET o == fds[p][n]
           f == fo[o]
           len_read == tarfs_read(archive, f.entry, len, f.offset)
           text == [k \in 1 .. len_read |-> CharAfter(archive, f.entry, f.offset + k - 1)]
       IN /\ fo' = [fo EXCEPT ![o].offset = OffsetAfter(f.offset, len_read)]
          /\ got' = [got EXCEPT ![o] = @ \o text]
    /\ UNCHANGED <<archive, fds, cwd, dirVars>>

close(p, n) ==
    /\ Alive(p)
    /\ fds[p][n] # None
    /\ LET o    == fds[p][n]
           refs == fo[o].ref_count - 1
       IN IF refs = 0
          THEN /\ fds' = [fds EXCEPT ![p][n] = None]
               /\ fo' = [fo EXCEPT ![o] = NoObject]
               /\ got' = [got EXCEPT ![o] = <<>>]
          ELSE /\ fo' = [fo EXCEPT ![o].ref_count = refs]
               /\ UNCHANGED <<fds, got>>
    /\ UNCHANGED <<archive, cwd, dirVars>>

-----------------------------------------------------------------------------
(***************************************************************************)
(* Directory streams.  The libc has one DIR; a program closes it before it *)
(* opens another directory.  opendir() of a name that does not exist       *)
(* returns NULL and leaves everything as it is.                            *)
(***************************************************************************)
opendir(p, name) ==
    LET d == get_folder(archive, name) IN
    /\ Alive(p)
    /\ Unused(StreamsInUse) # {} /\ dirp[p] = None
    /\ d.exists
    /\ LET s == Min(Unused(StreamsInUse))
       IN /\ dirp' = [dirp EXCEPT ![p] = s]
          /\ streams' = [streams EXCEPT ![s] =
                    [name |-> name, files |-> d.files, current_point |-> 0]]
          /\ listed' = [listed EXCEPT ![s] = <<>>]
    /\ UNCHANGED <<archive, cwd, fileVars>>

NextPoint(d) == d.current_point + 1

\* read_dir() returns -1, and changes nothing, at the end.
readdir(p) ==
    /\ Alive(p)
    /\ dirp[p] # None
    /\ LET s == dirp[p]
           d == streams[s]
       IN /\ d.current_point < Len(d.files)
          /\ listed' = [listed EXCEPT ![s] = Append(@, d.files[d.current_point + 1])]
          /\ streams' = [streams EXCEPT ![s].current_point = NextPoint(d)]
    /\ UNCHANGED <<archive, dirp, cwd, fileVars>>

\* kfree() leaves the page of the stream as it is (Paging); a program does
\* not use its DIR afterwards.
closedir(p) ==
    /\ Alive(p)
    /\ dirp[p] # None
    /\ SetDirp(p, None)
    /\ UNCHANGED <<archive, cwd, fileVars>>

MayChdir(name) == dir_exists(archive, name)

ch_dir(p, name) ==
    /\ Alive(p)
    /\ MayChdir(name)
    /\ cwd' = [cwd EXCEPT ![p] = name]
    /\ UNCHANGED <<archive, fileVars, dirVars>>

-----------------------------------------------------------------------------
(***************************************************************************)
(* The life of a process.  The memory of the libc, the DIR included, is    *)
(* copied by fork and is new after execvpe.                                *)
(***************************************************************************)
ChildFds(p) == NoFds

copy_process(p, c) ==
    /\ Alive(p) /\ ~Alive(c)
    /\ cwd' = [cwd EXCEPT ![c] = cwd[p]]
    /\ fds' = [fds EXCEPT ![c] = ChildFds(p)]
    /\ dirp' = [dirp EXCEPT ![c] = dirp[p]]
    /\ UNCHANGED <<archive, fo, streams, got, listed>>

\* Nobody refers to the file objects of p any more.
Forget(p) ==
    LET lost == {fds[p][n] : n \in Fds} IN
    /\ fds' = [fds EXCEPT ![p] = NoFds]
    /\ fo' = [o \in Ids |-> IF o \in lost THEN NoObject ELSE fo[o]]
    /\ got' = [o \in Ids |-> IF o \in lost THEN <<>> ELSE got[o]]
    /\ SetDirp(p, None)
    /\ UNCHANGED archive

exec_vpe(p) ==
    /\ Alive(p)
    /\ Forget(p)
    /\ UNCHANGED cwd

exit_current_process(p) ==
    /\ Alive(p)
    /\ Forget(p)
    /\ cwd' = [cwd EXCEPT ![p] = None]

-----------------------------------------------------------------------------
\* create_process("bin/init") takes the directory of the file as cwd.
Init ==
    /\ archive \in Archives
    /\ \E p \in Procs, e \in Range(archive) :
            /\ e.type = DirType
            /\ cwd = [q \in Procs |-> IF q = p THEN e.name ELSE None]
    /\ fds = [p \in Procs |-> NoFds]
    /\ fo = [o \in Ids |-> NoObject]
    /\ dirp = [p \in Procs |-> None]
    /\ streams = [s \in Ids |-> NoStream]
    /\ got = [o \in Ids |-> <<>>]
    /\ listed = [s \in Ids |-> <<>>]

Next ==
    \E p \in Procs :
        \/ \E name \in Names : open(p, name)
        \/ \E n \in Fds, len \in Lens : read(p, n, len)
        \/ \E n \in Fds : close(p, n)
        \/ \E name \in Names : opendir(p, name)
        \/ readdir(p)
        \/ closedir(p)
        \/ \E name \in Names : ch_dir(p, name)
        \/ \E c \in Procs \ {p} : copy_process(p, c)
        \/ exec_vpe(p)
        \/ exit_current_process(p)

Spec == Init /\ [][Next]_vars

-----------------------------------------------------------------------------
(***************************************************************************)
(* Properties.                                                             *)
(***************************************************************************)
Inside(name) == {i \in DOMAIN archive : IsPrefix(name, archive[i].name)}

\* Every descriptor has a file object of its own, in use once: what one
\* process, or one open(), reads never moves the offset of another, through
\* every order of open, close, fork, execvpe and exit.
DescriptorsPrivate ==
    \A p, q \in Procs : \A m, n \in Fds :
        fds[p][m] # None =>
            /\ fo[fds[p][m]].ref_count = 1
            /\ fds[p][m] = fds[q][n] => p = q /\ m = n

\* The file fills its last block, and no zero byte follows it.
FillsBlocks(e) == Len(e.data) > 0 /\ Len(e.data) % BLOCK = 0

\* The reads of a text file return the file, piece by piece, and nothing
\* after its end, whatever lengths the program asks for, unless the file fills
\* its last block.
ReadsFile ==
    \A p \in Procs, n \in Fds :
        fds[p][n] # None =>
            LET f == fo[fds[p][n]]
                e == archive[f.entry]
            IN  ~FillsBlocks(e) => /\ f.offset <= Len(e.data)
                                   /\ got[fds[p][n]] = SubSeq(e.data, 1, f.offset)

\* The entries in front of which no file fills its last block.
Reachable == {i \in DOMAIN archive : \A j \in 1 .. i - 1 : ~FillsBlocks(archive[j])}

\* "Printing all available files in the tarfs": the walk over the headers meets
\* every entry, up to the first file that fills its last block.
WalkComplete == Reachable \subseteq Range(Walk(archive))

\* The name of a directory in the archive: with a slash at its end.
DirName(name) == IF Last(name) = "/" THEN name ELSE Append(name, "/")

\* When readdir() has come to the end of a stream, it has returned every
\* entry of the directory that the walk can meet, once, also when a forked
\* process has read from the same stream.
ListingComplete ==
    \A p \in Procs :
        dirp[p] # None =>
            LET s == dirp[p] IN
            streams[s].current_point >= Len(streams[s].files) =>
                /\ \A i \in Reachable \cap Inside(DirName(streams[s].name)) :
                        archive[i].name # DirName(streams[s].name)
                            => i \in Range(listed[s])
                /\ \A j, k \in DOMAIN listed[s] : listed[s][j] = listed[s][k] => j = k
=============================================================================
