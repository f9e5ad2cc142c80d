--------------------------- MODULE UserlandProofs ---------------------------
(***************************************************************************)
(* init and the shell use the kernel as Process describes it: every step   *)
(* of Userland is a step of Process or leaves the process table alone.  So *)
(* what ProcessProofs shows of the kernel holds while they run, whatever   *)
(* the user types.                                                         *)
(***************************************************************************)
EXTENDS Userland, ProcessProofs

(***************************************************************************)
(* Process bounds the argument of waitpid().  The shell passes what fork() *)
(* returned to it, which lies within the bound.                            *)
(***************************************************************************)
CPidBounded == c_pid \in PidArgs

\* Every pid, 0 and -1 lie within the bound.
LEMMA PidArgsFacts == 0 \in PidArgs /\ -1 .. MAX_P - 1 \subseteq PidArgs
BY ProcessAssumption DEF PidArgs

\* fork() returns a pid, or the -1 of a full table.
LEMMA ForkReturnsPid == fork => sysret'.val \in PidArgs
BY PidArgsFacts DEF fork, Return

\* c_pid is 0 before the first fork.
LEMMA CPidInit == UInit => CPidBounded
BY PidArgsFacts DEF UInit, CPidBounded

\* Only exec_binary() changes c_pid, and it takes what fork() returned.
LEMMA CPidNext == CPidBounded /\ [UNext]_uvars => CPidBounded'
<1> SUFFICES ASSUME CPidBounded, [UNext]_uvars PROVE CPidBounded'
  OBVIOUS
<1>1. CASE exec_binary
  BY <1>1, ForkReturnsPid DEF exec_binary, CPidBounded
<1>2. CASE UNCHANGED c_pid
  BY <1>2 DEF CPidBounded
<1>3. KernelStep \/ InitStep \/ JobStep => UNCHANGED c_pid
  BY DEF KernelStep, InitStep, JobStep, init_fork, init_exec, init_yield, child_exec,
         child_exec_failed, program_end, program_yield, exit, shellVars
<1>4. ShellStep => UNCHANGED c_pid \/ exec_binary
  BY DEF ShellStep, shell_init, shell_read, input_done, shell_parse, shell_wait, shell_wait_resumed,
         shellVars
<1>5. UNCHANGED uvars => UNCHANGED c_pid
  BY DEF uvars
<1> QED BY <1>1, <1>2, <1>3, <1>4, <1>5 DEF UNext

\* Every step of init, of the shell and of its children is a step of Process.
LEMMA StepSimulation == CPidBounded /\ [UNext]_uvars => [Next]_vars
<1> SUFFICES ASSUME CPidBounded, [UNext]_uvars PROVE [Next]_vars
  OBVIOUS
<1>1. KernelStep => Next
  BY DEF KernelStep, Next
<1>2. InitStep => Next
  BY DEF InitStep, init_fork, init_exec, init_yield, Next
<1>3. ShellStep => Next \/ UNCHANGED vars
  BY DEF ShellStep, shell_init, shell_read, input_done, shell_parse, exec_binary, shell_wait,
         shell_wait_resumed, BeforeRead, CPidBounded, Next
<1>4. JobStep => Next \/ UNCHANGED vars
  BY DEF JobStep, child_exec, child_exec_failed, program_end, program_yield, exit, Next
<1>5. UNCHANGED uvars => UNCHANGED vars
  BY DEF uvars
<1> QED BY <1>1, <1>2, <1>3, <1>4, <1>5 DEF UNext

-----------------------------------------------------------------------------
\* The system of kernel, init and shell implements Process, but for the
\* fairness that Process asks of its programs.
THEOREM UserlandImplementsProcess == USpec => Init /\ [][Next]_vars
<1>1. UInit => Init
  BY DEF UInit
<1> QED
  BY <1>1, CPidInit, CPidNext, StepSimulation, PTL DEF USpec

\* Under init and the shell the pid table is exact, the idle process survives and
\* one process runs, for every table size and all that users type.
THEOREM UserlandKeepsProcesses ==
    USpec => [](PidTableExact /\ IdleNeverDies /\ OneRunner /\ ZombieWaitsLast)
<1>1. IInv => PidTableExact /\ IdleNeverDies /\ OneRunner /\ ZombieWaitsLast
  BY DEF IInv
<1> QED
  BY <1>1, UserlandImplementsProcess, InitIInv, NextIInv, PTL
=============================================================================
