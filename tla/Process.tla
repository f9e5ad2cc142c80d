------------------------------ MODULE Process ------------------------------
(***************************************************************************)
(* The process table, the run list and the cooperative scheduler of        *)
(* sys/process.c.                                                          *)
(*                                                                         *)
(* The kernel keeps every process on one circular list.  The model walks   *)
(* that list from current_process: ring[1] is current_process and          *)
(* ring[i + 1] is ring[i]->next.  A kern_thread is a record of the fields  *)
(* that the control flow reads: pid, ppid, state, and the place where the  *)
(* thread is suspended in the kernel (op, arg).                            *)
(*                                                                         *)
(* Nothing preempts a process.  A system call runs until it returns or     *)
(* until it calls scheduler(), so one action is one call, except that the  *)
(* two halves of scheduler(), the loop of wait_all() and switch_process(), *)
(* are steps of their own while pc = "scheduler".  No other action is      *)
(* enabled in between.                                                     *)
(***************************************************************************)
EXTENDS Integers, Sequences

CONSTANTS
    MAX_P,        \* size of the pid table (include/sys/process.h)
    MaxThreads,   \* bound: fork() is not called on a longer run list
    Syscalls      \* the system calls that the user programs issue

AllSyscalls == {"fork", "execvpe", "yield", "exit", "kill", "wait", "waitpid"}

\* Boot hands out pid 1 (idle) and pid 2 (init).
ASSUME ProcessAssumption ==
    /\ MAX_P \in Nat /\ MAX_P > 2
    /\ MaxThreads \in Nat
    /\ Syscalls \subseteq AllSyscalls

VARIABLES
    ring,         \* the run list from current_process on
    processes,    \* the pid table: processes[p] = 1 when p is handed out
    pc,           \* "scheduler" while the current thread is inside scheduler()
    sysret        \* the system call that returned last and what it returned

vars == <<ring, processes, pc, sysret>>

Pids    == 1 .. MAX_P - 1
PidArgs == -1 .. MAX_P          \* what a program may pass to kill and waitpid
States  == {"RUNNING", "ZOMBIE", "QUEUED"}
Ops     == {"none", "idle", "wait", "waitpid"}
Results == AllSyscalls \cup {"boot"}

kern_thread == [pid : {-1} \cup Pids, ppid : {-1, 0} \cup Pids,
                state : States, op : Ops, arg : PidArgs]

Others  == 2 .. Len(ring)       \* every index but that of current_process

\* The list r with its i-th element linked out.
Without(r, i) == SubSeq(r, 1, i - 1) \o SubSeq(r, i + 1, Len(r))

Return(call, arg, val) == sysret' = [call |-> call, arg |-> arg, val |-> val]

-----------------------------------------------------------------------------
(***************************************************************************)
(* Mutated forms of the definitions below, each a slip this code could     *)
(* have; the properties must tell them from the originals.                 *)
(***************************************************************************)
\* getPID() starts its search at pid 0.
GetPIDFromZero(p) ==
    LET free == {q \in 0 .. MAX_P - 1 : processes[q] = 0}
    IN  IF free = {} THEN p = -1 ELSE p \in free /\ \A q \in free : p <= q

\* fork() forgets child_task->next = last.
ForkLinkBack(child) == <<ring[1], child>>

\* reap_process() forgets to clear the pid.
ReapLeavesPid(r, i) ==
    /\ ring' = Without(r, i)
    /\ UNCHANGED processes

\* kill_process() does not hand over the children.
KillProcessNoReparent ==
    IF Len(ring) = 1
    THEN ring
    ELSE [ring EXCEPT ![1].state = "ZOMBIE"]

\* wait_all() looks only at the children of the current process.
WaitAllOwnChildren == {i \in Others : /\ ring[i].state = "ZOMBIE"
                                      /\ ring[i].ppid = ring[1].pid}

\* switch_process() lets the old and the new process change places.
RotateSwaps(r, i) ==
    <<r[i]>> \o SubSeq(r, 2, i - 1) \o <<r[1]>> \o SubSeq(r, i + 1, Len(r))

\* wait() does not look at ppid.
IsChildAnyParent(i, op, p) == op = "waitpid" => ring[i].pid = p

\* kill_kern() marks whoever has the pid, the idle process included.
KillAnybody(p) ==
    IF p \notin Pids \/ \A i \in DOMAIN ring : ring[i].pid # p
    THEN /\ Return("kill", p, -1)
         /\ UNCHANGED ring
    ELSE /\ ring' = [i \in DOMAIN ring |->
                       IF ring[i].pid = p THEN [ring[i] EXCEPT !.state = "ZOMBIE"]
                                          ELSE ring[i]]
         /\ Return("kill", p, 0)

-----------------------------------------------------------------------------
(***************************************************************************)
(* Helpers shared by the system calls.                                     *)
(***************************************************************************)

\* getPID() picks the lowest free pid, or -1 when the table is full.
getPID(p) ==
    LET free == {q \in Pids : processes[q] = 0}
    IN  IF free = {} THEN p = -1 ELSE p \in free /\ \A q \in free : p <= q

\* The table once p has been handed out (-1 marks nothing).
Marked(p) == [q \in DOMAIN processes |-> IF q = p THEN 1 ELSE processes[q]]

NewThread(p, parent) ==
    [pid |-> p, ppid |-> parent, state |-> "QUEUED", op |-> "none", arg |-> 0]

\* reap_process(it) for the thread at index i of the list r, never the current
\* one.  For a thread with pid -1 the write processes[-1] falls outside the table.
reap_process(r, i) ==
    /\ ring' = Without(r, i)
    /\ processes' = [q \in DOMAIN processes |->
                       IF q = r[i].pid THEN 0 ELSE processes[q]]

\* The run list after kill_process(current_process): the children go to the
\* idle process, the caller becomes a zombie.
kill_process ==
    IF Len(ring) = 1
    THEN ring
    ELSE [i \in DOMAIN ring |->
            IF i = 1 THEN [ring[1] EXCEPT !.state = "ZOMBIE"]
            ELSE IF ring[i].ppid = ring[1].pid THEN [ring[i] EXCEPT !.ppid = 1]
            ELSE ring[i]]

-----------------------------------------------------------------------------
(***************************************************************************)
(* scheduler(): reap every zombie but the caller, then switch.             *)
(***************************************************************************)
WaitAllZombies == {i \in Others : ring[i].state = "ZOMBIE"}

\* One round of the loop of wait_all() that meets a zombie.
wait_all ==
    /\ pc = "scheduler"
    /\ \E i \in WaitAllZombies :
         /\ \A j \in WaitAllZombies : i <= j
         /\ reap_process(ring, i)
    /\ UNCHANGED <<pc, sysret>>

\* The current process goes back to the queue unless it is a zombie.
Requeue(t) == IF t.state = "RUNNING" THEN [t EXCEPT !.state = "QUEUED"] ELSE t

\* The list r seen from its i-th element.
RotateTo(r, i) == SubSeq(r, i, Len(r)) \o SubSeq(r, 1, i - 1)

\* Nobody is queued: create_process("bin/sbush") links the new process and
\* the current one to each other and to nothing else.
create_process ==
    \E p \in -1 .. MAX_P - 1 :
        /\ getPID(p)
        /\ processes' = Marked(p)
        /\ ring' = <<ring[1], NewThread(p, 0)>>

\* The first queued process after the current one runs next.
SwitchTo(i) ==
    /\ ring[i].state = "QUEUED"
    /\ \A j \in 2 .. i - 1 : ring[j].state # "QUEUED"
    /\ ring' = IF ring[1].state \in {"RUNNING", "ZOMBIE"}
               THEN RotateTo([ring EXCEPT ![1] = Requeue(ring[1]),
                                          ![i].state = "RUNNING"], i)
               ELSE ring
    /\ UNCHANGED processes

switch_process ==
    /\ pc = "scheduler"
    /\ WaitAllZombies = {}
    /\ IF Len(ring) = 1
       THEN UNCHANGED <<ring, processes>>
       ELSE IF \A i \in Others : ring[i].state # "QUEUED"
       THEN create_process
       ELSE \E i \in Others : SwitchTo(i)
    /\ pc' = "run"
    /\ UNCHANGED sysret

\* The caller, with its list changed to r, enters scheduler().
CallScheduler(r) ==
    /\ ring' = r
    /\ pc' = "scheduler"

-----------------------------------------------------------------------------
(***************************************************************************)
(* The idle process and the system calls of the current process.           *)
(***************************************************************************)
Init ==
    /\ ring = << [pid |-> 1, ppid |-> 0, state |-> "RUNNING", op |-> "idle", arg |-> 0],
                 NewThread(2, 0) >>
    /\ processes = [q \in 0 .. MAX_P - 1 |-> IF q \in {1, 2} THEN 1 ELSE 0]
    /\ pc = "run"
    /\ sysret = [call |-> "boot", arg |-> 0, val |-> 0]

\* init_scheduler(): the idle process calls scheduler() for ever.
init_scheduler ==
    /\ pc = "run"
    /\ ring[1].op = "idle"
    /\ CallScheduler(ring)
    /\ UNCHANGED <<processes, sysret>>

\* The current process is in user mode and issues the given call.
Issues(call) ==
    /\ pc = "run"
    /\ ring[1].op = "none"
    /\ call \in Syscalls

\* fork() links the child in right behind its parent.
ForkLink(child) == <<ring[1], child>> \o Tail(ring)

fork ==
    /\ Issues("fork")
    /\ Len(ring) < MaxThreads
    /\ \E p \in -1 .. MAX_P - 1 :
         /\ getPID(p)
         /\ processes' = Marked(p)
         /\ ring' = ForkLink(NewThread(p, ring[1].pid))
         /\ Return("fork", 0, p)
    /\ UNCHANGED pc

\* exec_vpe(): -1 when the file does not exist; otherwise a new thread with
\* the caller's pid and ppid takes the caller's place and is RUNNING.
exec_vpe(found) ==
    /\ Issues("execvpe")
    /\ ring' = IF found THEN [ring EXCEPT ![1].state = "RUNNING"] ELSE ring
    /\ Return("execvpe", 0, IF found THEN 0 ELSE -1)
    /\ UNCHANGED <<processes, pc>>

yield ==
    /\ Issues("yield")
    /\ CallScheduler(ring)
    /\ Return("yield", 0, 0)
    /\ UNCHANGED processes

\* exit_current_process(), from exit() or from a fault outside every area.
exit_current_process ==
    /\ Issues("exit")
    /\ CallScheduler(kill_process)
    /\ UNCHANGED <<processes, sysret>>

\* kill_kern() refuses every pid that another process on the list has.
KillCaller(p) ==
    IF \/ p \notin Pids \ {1}
       \/ processes[p] = 0
       \/ Len(ring) = 1 /\ ring[1].pid = p
       \/ \E i \in Others : ring[i].pid = p
       \/ ring[1].pid # p
    THEN /\ Return("kill", p, -1)
         /\ UNCHANGED ring
    ELSE /\ ring' = kill_process
         /\ Return("kill", p, 0)

kill_kern(p) ==
    /\ Issues("kill")
    /\ KillCaller(p)
    /\ UNCHANGED <<processes, pc>>

-----------------------------------------------------------------------------
(***************************************************************************)
(* wait() and wait_pid(): the same loop, over all children or over one.    *)
(***************************************************************************)

\* The thread at index i is one that the current process waits for.
IsChild(i, op, p) ==
    /\ ring[i].ppid = ring[1].pid
    /\ op = "waitpid" => ring[i].pid = p

\* One round of the loop over the threads that `it' has still to visit.
WaitRound(op, p, visit) ==
    LET children == {i \in visit : IsChild(i, op, p)}
        exited   == {i \in children : ring[i].state = "ZOMBIE"}
        inUser   == [ring EXCEPT ![1].op = "none", ![1].arg = 0]
    IN  \/ /\ exited # {}
           /\ \E i \in exited :
                /\ \A j \in exited : i <= j
                /\ reap_process(inUser, i)
                /\ Return(op, p, ring[i].pid)
           /\ UNCHANGED pc
        \/ /\ exited = {} /\ children # {}
           /\ CallScheduler([ring EXCEPT ![1].op = op, ![1].arg = p])
           /\ UNCHANGED <<processes, sysret>>
        \/ /\ children = {}
           /\ ring' = inUser
           /\ Return(op, p, -1)
           /\ UNCHANGED <<processes, pc>>

wait == Issues("wait") /\ WaitRound("wait", 0, Others)

wait_pid(p) == Issues("waitpid") /\ WaitRound("waitpid", p, Others)

\* What is left to visit when scheduler() comes back: the loop ended with
\* `it' on current_process and nothing moves it on, so nothing is left.
LeftToVisit == {}

wait_resumed ==
    /\ pc = "run"
    /\ ring[1].op \in {"wait", "waitpid"}
    /\ WaitRound(ring[1].op, ring[1].arg, LeftToVisit)

-----------------------------------------------------------------------------
SchedulerStep == wait_all \/ switch_process

Next ==
    \/ wait_all
    \/ switch_process
    \/ init_scheduler
    \/ fork
    \/ \E found \in BOOLEAN : exec_vpe(found)
    \/ yield
    \/ exit_current_process
    \/ \E p \in PidArgs : kill_kern(p)
    \/ wait
    \/ \E p \in PidArgs : wait_pid(p)
    \/ wait_resumed

\* The kernel's own code does not stop, and every program is cooperative: it
\* ends or yields after finitely many other calls.
Fairness ==
    /\ WF_vars(SchedulerStep)
    /\ WF_vars(init_scheduler)
    /\ WF_vars(wait_resumed)
    /\ WF_vars(yield \/ exit_current_process)

Spec == Init /\ [][Next]_vars /\ Fairness

-----------------------------------------------------------------------------
(***************************************************************************)
(* Properties.                                                             *)
(***************************************************************************)

\* The types of the variables; pids stay inside the table or are -1, and the
\* run list is never empty.
TypeOK ==
    /\ ring \in Seq(kern_thread)
    /\ Len(ring) > 0
    /\ processes \in [0 .. MAX_P - 1 -> {0, 1}]
    /\ pc \in {"run", "scheduler"}
    /\ sysret \in [call : Results, arg : PidArgs, val : -1 .. MAX_P - 1]

\* The current process, and no other, is RUNNING or has just turned itself
\* into a zombie: switch_process() never loses track of who runs.
OneRunner ==
    /\ ring[1].state \in {"RUNNING", "ZOMBIE"}
    /\ \A i \in Others : ring[i].state # "RUNNING"

\* Besides the current process at most one zombie is on the run list, and it
\* is the process that ran last: every pass through scheduler() reaps it.
ZombieWaitsLast ==
    \A i \in Others : ring[i].state = "ZOMBIE" => i = Len(ring)

\* The pid table marks exactly the pids on the run list, and no two processes
\* share a pid: getPID(), exec_vpe() and reap_process() agree on who owns it.
PidTableExact ==
    /\ \A p \in Pids : processes[p] = 1 <=> \E i \in DOMAIN ring : ring[i].pid = p
    /\ \A i, j \in DOMAIN ring : ring[i].pid = ring[j].pid /\ i # j => ring[i].pid = -1

\* The idle process stays on the run list and is never a zombie, whatever the
\* programs kill, so orphans always have a parent to go to.
IdleNeverDies ==
    \E i \in DOMAIN ring : ring[i].pid = 1 /\ ring[i].op = "idle" /\ ring[i].state # "ZOMBIE"

\* switch_process() on a list of two or more always finds a queued process
\* and a current one it can put away: the branches that restart the shell and
\* that report "Some problem with process states" are dead code.
SchedulerFindsNext ==
    pc = "scheduler" /\ WaitAllZombies = {} /\ Len(ring) > 1 =>
        /\ \E i \in Others : ring[i].state = "QUEUED"
        /\ ring[1].state \in {"RUNNING", "ZOMBIE"}

\* What scheduler() relies on, whatever was forked, killed, reaped or waited
\* for before: the head of the list alone runs, one zombie at most is left
\* behind, the idle process is there, and a queued process is found.
SchedulerSound == OneRunner /\ ZombieWaitsLast /\ IdleNeverDies /\ SchedulerFindsNext

\* A process leaves the run list only as a zombie: no step of fork, exec,
\* wait or the scheduler loses one that could still run.
NoProcessLost ==
    [][\A i \in DOMAIN ring : ring[i].state # "ZOMBIE" /\ ring[i].pid # -1 =>
         \E j \in 1 .. Len(ring') : ring'[j].pid = ring[i].pid]_vars

\* The parent of every process is on the run list (0 stands for the boot
\* code): kill_process() hands the children of an exiting process to idle, so
\* a pid that is used again never makes a stranger somebody's parent.
OrphansAdopted ==
    \A i \in DOMAIN ring :
        ring[i].ppid # 0 => \E j \in DOMAIN ring : ring[j].pid = ring[i].ppid

\* When wait() or waitpid() returns a pid, that process was a zombie child of
\* the caller (the one asked for), and its pid is free again.
WaitReportsExitedChild ==
    [][sysret'.call \in {"wait", "waitpid"} /\ sysret'.val > 0 /\ sysret' # sysret =>
         \E i \in Others :
            /\ ring[i].pid = sysret'.val
            /\ ring[i].state = "ZOMBIE"
            /\ ring[i].ppid = ring[1].pid
            /\ sysret'.call = "waitpid" => sysret'.val = sysret'.arg
            /\ processes'[sysret'.val] = 0]_vars

\* README: "Reaper/Idle process to cleanup zombie processes".  Every zombie
\* other than the current process is reaped, whoever its parent is.
ZombieAt(p) == \E i \in Others : ring[i].pid = p /\ ring[i].state = "ZOMBIE"
ZombiesReaped == \A p \in Pids : ZombieAt(p) ~> ~ZombieAt(p)

\* Round robin: once the programs stop forking (a new child goes in front of
\* everybody who waits), every process on the list gets to run.
Alive(p) == \E i \in Others : ring[i].pid = p /\ ring[i].state # "ZOMBIE"
RoundRobin ==
    <>[][Len(ring') <= Len(ring)]_vars => \A p \in Pids : Alive(p) ~> ~Alive(p)

-----------------------------------------------------------------------------
(***************************************************************************)
(* What the documentation says and the code does not do.                   *)
(***************************************************************************)

\* README: "kill -9: kills the process with given pid".  A kill of a process
\* that exists, other than the idle process, turns it into a zombie.
KillKills ==
    [][\A p \in Pids \ {1} :
         sysret'.call = "kill" /\ sysret'.arg = p /\ sysret' # sysret =>
            \A i \in DOMAIN ring : ring[i].pid = p => ring'[i].state = "ZOMBIE"]_vars

\* waitpid() returns -1 only when the caller has no such child: it waits for
\* a child that exists.
WaitpidWaits ==
    [][sysret'.call = "waitpid" /\ sysret'.val = -1 /\ sysret' # sysret =>
         ~\E i \in Others : ring[i].pid = sysret'.arg /\ ring[i].ppid = ring[1].pid]_vars
=============================================================================
