----------------------------- MODULE FilesProofs ----------------------------
(***************************************************************************)
(* The descriptors of Files are private, for every archive, every number   *)
(* of processes and every size of the descriptor table.                    *)
(***************************************************************************)
EXTENDS Files, TLAPS

(***************************************************************************)
(* DescriptorsPrivate is inductive once the shapes of the tables are       *)
(* known: close() decides by ref_count, which DescriptorsPrivate fixes at  *)
(* 1, and fork leaves the child without descriptors.                       *)
(***************************************************************************)
Tables ==
    /\ fds \in [Procs -> [Fds -> Ids \cup {None}]]
    /\ DOMAIN fo = Ids
    /\ \A o \in Ids : "ref_count" \in DOMAIN fo[o]

IInv == Tables /\ DescriptorsPrivate

\* At the start only the first process is alive and it has no descriptor.
LEMMA IInvInit == Init => IInv
BY FilesAssumption DEF Init, IInv, Tables, DescriptorsPrivate, NoFds, NoObject

\* The file object that open() takes is nobody's, and so is the descriptor.
LEMMA IInvOpen ==
    ASSUME IInv, NEW p \in Procs, NEW name, open(p, name)
    PROVE  IInv'
<1> USE FilesAssumption
<1>1. PICK n \in FreeFds(p), o \in Unused(InUse) :
        /\ fds' = [fds EXCEPT ![p] = [m \in Fds \cup {n} |-> IF m = n THEN o ELSE @[m]]]
        /\ \E e : fo' = [fo EXCEPT ![o] = [entry |-> e, offset |-> 0, ref_count |-> 1]]
  BY DEF open
<1>2. n \in Fds /\ fds[p][n] = None
  BY DEF FreeFds
<1>3. o \in Ids /\ \A q \in Procs : \A m \in Fds : fds[q][m] # o
  BY DEF Unused, InUse
<1>4. Fds \cup {n} = Fds
  BY <1>2
<1>5. /\ fds' \in [Procs -> [Fds -> Ids \cup {None}]]
      /\ \A q \in Procs : \A m \in Fds :
            fds'[q][m] = IF q = p /\ m = n THEN o ELSE fds[q][m]
  BY <1>1, <1>2, <1>3, <1>4 DEF IInv, Tables
<1>6. /\ DOMAIN fo' = Ids
      /\ \A i \in Ids : "ref_count" \in DOMAIN fo'[i]
      /\ fo'[o].ref_count = 1
      /\ \A i \in Ids \ {o} : fo'[i] = fo[i]
  BY <1>1, <1>3 DEF IInv, Tables
<1>7. DescriptorsPrivate'
  <2> SUFFICES ASSUME NEW q \in Procs, NEW r \in Procs, NEW m \in Fds, NEW k \in Fds,
                      fds'[q][m] # None
               PROVE  /\ fo'[fds'[q][m]].ref_count = 1
                      /\ fds'[q][m] = fds'[r][k] => q = r /\ m = k
    BY DEF DescriptorsPrivate
  <2>1. CASE q = p /\ m = n
    BY <1>3, <1>5, <1>6, <2>1
  <2>2. CASE ~(q = p /\ m = n)
    <3>1. fds'[q][m] = fds[q][m] /\ fds[q][m] \in Ids \ {o}
      BY <1>3, <1>5, <2>2 DEF IInv, Tables
    <3>2. fo[fds[q][m]].ref_count = 1 /\ (fds[q][m] = fds[r][k] => q = r /\ m = k)
      BY <3>1 DEF IInv, DescriptorsPrivate
    <3> QED BY <1>5, <1>6, <3>1, <3>2
  <2> QED BY <2>1, <2>2
<1> QED BY <1>5, <1>6, <1>7 DEF IInv, Tables

\* read() moves the offset of a file object and leaves its ref_count alone.
LEMMA IInvReadCall ==
    ASSUME IInv, NEW p \in Procs, NEW n \in Fds, NEW l, read(p, n, l)
    PROVE  IInv'
<1>1. UNCHANGED fds
  BY DEF read
<1>2. PICK x : fo' = [fo EXCEPT ![fds[p][n]].offset = x]
  BY DEF read
<1>3. /\ DOMAIN fo' = Ids
      /\ \A i \in Ids : "ref_count" \in DOMAIN fo'[i] /\ fo'[i].ref_count = fo[i].ref_count
  BY <1>2 DEF IInv, Tables
<1> QED BY <1>1, <1>3 DEF IInv, Tables, DescriptorsPrivate

\* close() finds ref_count 1 and clears the one descriptor of the file object.
LEMMA IInvClose ==
    ASSUME IInv, NEW p \in Procs, NEW n \in Fds, close(p, n)
    PROVE  IInv'
<1> USE FilesAssumption
<1>1. fds[p][n] \in Ids /\ fo[fds[p][n]].ref_count = 1
  BY DEF close, IInv, Tables, DescriptorsPrivate
<1>2. /\ fds' = [fds EXCEPT ![p][n] = None]
      /\ fo' = [fo EXCEPT ![fds[p][n]] = NoObject]
  BY <1>1 DEF close
<1>3. /\ fds' \in [Procs -> [Fds -> Ids \cup {None}]]
      /\ \A q \in Procs : \A m \in Fds :
            fds'[q][m] = IF q = p /\ m = n THEN None ELSE fds[q][m]
  BY <1>2 DEF IInv, Tables
<1>4. /\ DOMAIN fo' = Ids
      /\ \A i \in Ids : "ref_count" \in DOMAIN fo'[i]
      /\ \A i \in Ids \ {fds[p][n]} : fo'[i] = fo[i]
  BY <1>2 DEF IInv, Tables, NoObject
<1>5. DescriptorsPrivate'
  <2> SUFFICES ASSUME NEW q \in Procs, NEW r \in Procs, NEW m \in Fds, NEW k \in Fds,
                      fds'[q][m] # None
               PROVE  /\ fo'[fds'[q][m]].ref_count = 1
                      /\ fds'[q][m] = fds'[r][k] => q = r /\ m = k
    BY DEF DescriptorsPrivate
  <2>1. fds'[q][m] = fds[q][m] /\ ~(q = p /\ m = n) /\ fds[q][m] \in Ids
    BY <1>3 DEF IInv, Tables
  <2>2. fds[q][m] # fds[p][n]
    BY <2>1 DEF IInv, DescriptorsPrivate
  <2>3. fo[fds[q][m]].ref_count = 1 /\ (fds[q][m] = fds[r][k] => q = r /\ m = k)
    BY <2>1 DEF IInv, DescriptorsPrivate
  <2> QED BY <1>3, <1>4, <2>1, <2>2, <2>3
<1> QED BY <1>3, <1>4, <1>5 DEF IInv, Tables

\* A process that ends or executes a program gives up its own file objects.
LEMMA IInvForget ==
    ASSUME IInv, NEW p \in Procs, Forget(p)
    PROVE  IInv'
<1> USE FilesAssumption
<1>1. /\ fds' \in [Procs -> [Fds -> Ids \cup {None}]]
      /\ \A q \in Procs : \A m \in Fds : fds'[q][m] = IF q = p THEN None ELSE fds[q][m]
  BY DEF IInv, Tables, Forget, NoFds
<1>2. /\ DOMAIN fo' = Ids
      /\ \A i \in Ids : "ref_count" \in DOMAIN fo'[i]
      /\ \A i \in Ids : (\A m \in Fds : fds[p][m] # i) => fo'[i] = fo[i]
  BY DEF IInv, Tables, Forget, NoObject
<1>3. DescriptorsPrivate'
  <2> SUFFICES ASSUME NEW q \in Procs, NEW r \in Procs, NEW m \in Fds, NEW k \in Fds,
                      fds'[q][m] # None
               PROVE  /\ fo'[fds'[q][m]].ref_count = 1
                      /\ fds'[q][m] = fds'[r][k] => q = r /\ m = k
    BY DEF DescriptorsPrivate
  <2>1. fds'[q][m] = fds[q][m] /\ q # p /\ fds[q][m] \in Ids
    BY <1>1 DEF IInv, Tables
  <2>2. \A i \in Fds : fds[p][i] # fds[q][m]
    BY <2>1 DEF IInv, DescriptorsPrivate
  <2>3. fo[fds[q][m]].ref_count = 1 /\ (fds[q][m] = fds[r][k] => q = r /\ m = k)
    BY <2>1 DEF IInv, DescriptorsPrivate
  <2> QED BY <1>1, <1>2, <2>1, <2>2, <2>3
<1> QED BY <1>1, <1>2, <1>3 DEF IInv, Tables

\* The child of a fork has no descriptor.
LEMMA IInvFork ==
    ASSUME IInv, NEW p \in Procs, NEW c \in Procs, copy_process(p, c)
    PROVE  IInv'
<1> USE FilesAssumption
<1>1. /\ fds' \in [Procs -> [Fds -> Ids \cup {None}]]
      /\ \A q \in Procs : \A m \in Fds : fds'[q][m] = IF q = c THEN None ELSE fds[q][m]
  BY DEF IInv, Tables, copy_process, ChildFds, NoFds
<1>2. UNCHANGED fo
  BY DEF copy_process
<1> QED BY <1>1, <1>2 DEF IInv, Tables, DescriptorsPrivate

\* Every call keeps the tables and the privacy of descriptors.
LEMMA IInvNext == IInv /\ [Next]_vars => IInv'
<1> SUFFICES ASSUME IInv, [Next]_vars PROVE IInv'
  OBVIOUS
<1>1. ASSUME UNCHANGED <<fds, fo>> PROVE IInv'
  BY <1>1 DEF IInv, Tables, DescriptorsPrivate
<1>2. ASSUME NEW p \in Procs,
             \/ \E name \in Names : opendir(p, name)
             \/ readdir(p) \/ closedir(p)
             \/ \E name \in Names : ch_dir(p, name)
      PROVE  IInv'
  BY <1>1, <1>2 DEF opendir, readdir, closedir, ch_dir, fileVars
<1>3. ASSUME NEW p \in Procs, NEW name \in Names, open(p, name) PROVE IInv'
  BY <1>3, IInvOpen
<1>4. ASSUME NEW p \in Procs, NEW n \in Fds, NEW l \in Lens, read(p, n, l) PROVE IInv'
  BY <1>4, IInvReadCall
<1>5. ASSUME NEW p \in Procs, NEW n \in Fds, close(p, n) PROVE IInv'
  BY <1>5, IInvClose
<1>6. ASSUME NEW p \in Procs, exec_vpe(p) \/ exit_current_process(p) PROVE IInv'
  BY <1>6, IInvForget DEF exec_vpe, exit_current_process
<1>7. ASSUME NEW p \in Procs, NEW c \in Procs, copy_process(p, c) PROVE IInv'
  BY <1>7, IInvFork
<1>8. CASE UNCHANGED vars
  BY <1>1, <1>8 DEF vars
<1> QED BY <1>2, <1>3, <1>4, <1>5, <1>6, <1>7, <1>8 DEF Next

-----------------------------------------------------------------------------
\* Every descriptor has a file object of its own, through every order of open,
\* read, close, fork, execvpe and exit, for any number of processes.
THEOREM DescriptorsStayPrivate == Spec => []DescriptorsPrivate
<1>1. IInv => DescriptorsPrivate
  BY DEF IInv
<1> QED
  BY <1>1, IInvInit, IInvNext, PTL DEF Spec
=============================================================================
