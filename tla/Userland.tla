------------------------------ MODULE Userland ------------------------------
(***************************************************************************)
(* The programs bin/init and bin/sbush on top of Process: which system     *)
(* calls they issue, in which order, and what comes of it under the        *)
(* cooperative scheduler.                                                  *)
(*                                                                         *)
(* at[p] is the place in its program of the process with pid p.  A process *)
(* that is in the kernel, inside wait_pid() or waiting to be switched to,  *)
(* keeps its place.  read() of descriptor 0 in the C library yields once,  *)
(* and then the kernel polls the terminal: nobody else runs while the      *)
(* shell waits for a line.                                                 *)
(*                                                                         *)
(* An input is the sequence of lines that one read at the prompt leads to: *)
(* none, the line itself, or the lines of a script.                        *)
(***************************************************************************)
EXTENDS Process, FiniteSets

CONSTANTS
    Inputs     \* sequences of [cmd, amp]: what the user types

VARIABLES
    at,             \* at[p]: where the process with pid p is in its program
    lines,          \* the lines that the shell has yet to execute
    is_background,  \* the variable of the shell
    c_pid,          \* what fork() returned to the shell
    fg              \* history: processes started with is_background off that
                    \* have not ended, but for those that yield

uvars == <<vars, at, lines, is_background, c_pid, fg>>
shellVars == <<lines, is_background, c_pid>>

Commands == {"program", "builtin", "cd"}    \* "cd" is cd without an argument
InitPlaces  == {"init_fork", "init_child", "init_yield"}
ShellPlaces == {"prompt", "read", "parse", "launch", "waitpid"}
Running     == {"main", "yielding"}    \* a program that never yields, one that does
JobPlaces   == {"child", "exit"} \cup Running

Me == ring[1].pid

\* The current process is in user mode, at the given place.
At(place) == pc = "run" /\ ring[1].op = "none" /\ ring[1].state = "RUNNING" /\ at[Me] = place
Goto(place) == at' = [at EXCEPT ![Me] = place]

-----------------------------------------------------------------------------
(***************************************************************************)
(* Mutated forms, used to show that the properties notice such a slip.     *)
(***************************************************************************)
\* The shell does not wait for its child.
NeverWaits(background) == "parse"

\* A child whose execvpe() failed does not exit.
ChildStays == "parse"

\* The shell calls waitpid() until it returns 0.
WaitAgain == Goto("waitpid") /\ UNCHANGED lines

\* read() does not yield.
ReadAtOnce == UNCHANGED vars

-----------------------------------------------------------------------------
(***************************************************************************)
(* bin/init: launch_process() of the one line of /etc/rc.                  *)
(***************************************************************************)
init_fork ==
    /\ At("init_fork")
    /\ fork
    /\ at' = [at EXCEPT ![Me] = "init_yield", ![sysret'.val] = "init_child"]
    /\ UNCHANGED <<shellVars, fg>>

init_exec ==
    /\ At("init_child")
    /\ exec_vpe(TRUE)
    /\ Goto("prompt")
    /\ UNCHANGED <<shellVars, fg>>

init_yield ==
    /\ At("init_yield")
    /\ yield
    /\ UNCHANGED <<at, shellVars, fg>>

-----------------------------------------------------------------------------
(***************************************************************************)
(* bin/sbush: shell_init(), shell_execfile(), shell_parse() and            *)
(* exec_binary().                                                          *)
(***************************************************************************)
\* What read() of descriptor 0 does before the system call.
BeforeRead == yield

shell_init ==
    /\ At("prompt")
    /\ BeforeRead
    /\ is_background' = FALSE
    /\ Goto("read")
    /\ UNCHANGED <<lines, c_pid, fg>>

\* The user types a line.  Bound: there is room for the processes of the lines.
shell_read(input) ==
    /\ At("read")
    /\ Len(ring) + Len(input) <= MaxThreads
    /\ lines' = input
    /\ Goto("parse")
    /\ UNCHANGED <<vars, is_background, c_pid, fg>>

input_done ==
    /\ At("parse") /\ lines = <<>>
    /\ Goto("prompt")
    /\ UNCHANGED <<vars, shellVars, fg>>

\* A "&" at the end of the line sets is_background.
shell_parse ==
    /\ At("parse") /\ lines # <<>>
    /\ is_background' = (is_background \/ Head(lines).amp)
    /\ CASE Head(lines).cmd = "program" -> Goto("launch") /\ UNCHANGED lines
         [] Head(lines).cmd = "builtin" -> lines' = Tail(lines) /\ UNCHANGED at
         [] Head(lines).cmd = "cd"      -> Goto("exit") /\ UNCHANGED lines
    /\ UNCHANGED <<vars, c_pid, fg>>

AfterFork(background) == IF background THEN "parse" ELSE "waitpid"

exec_binary ==
    /\ At("launch")
    /\ fork
    /\ c_pid' = sysret'.val
    /\ at' = [at EXCEPT ![Me] = AfterFork(is_background), ![sysret'.val] = "child"]
    /\ fg' = IF is_background THEN fg ELSE fg \cup {sysret'.val}
    /\ lines' = IF at'[Me] = "parse" THEN Tail(lines) ELSE lines
    /\ UNCHANGED is_background

\* What the shell does when waitpid() returns, whatever it returns.
AfterWait == Goto("parse") /\ lines' = Tail(lines)

Waited ==
    IF ring'[1].op = "none" THEN AfterWait ELSE UNCHANGED <<at, lines>>

shell_wait ==
    /\ At("waitpid")
    /\ wait_pid(c_pid)
    /\ Waited
    /\ UNCHANGED <<is_background, c_pid, fg>>

shell_wait_resumed ==
    /\ wait_resumed
    /\ Waited
    /\ UNCHANGED <<is_background, c_pid, fg>>

-----------------------------------------------------------------------------
(***************************************************************************)
(* The children of the shell.                                              *)
(***************************************************************************)
ExecFailed == "exit"

child_exec(place) ==
    /\ At("child")
    /\ exec_vpe(TRUE)
    /\ Goto(place)
    /\ fg' = IF place = "yielding" THEN fg \ {Me} ELSE fg
    /\ UNCHANGED shellVars

child_exec_failed ==
    /\ At("child")
    /\ exec_vpe(FALSE)
    /\ Goto(ExecFailed)
    /\ UNCHANGED <<shellVars, fg>>

program_end ==
    /\ \E place \in Running : At(place)
    /\ Goto("exit")
    /\ UNCHANGED <<vars, shellVars, fg>>

program_yield ==
    /\ At("yielding")
    /\ yield
    /\ UNCHANGED <<at, shellVars, fg>>

\* exit(), or the page fault handler when a program faults.
exit ==
    /\ At("exit")
    /\ exit_current_process
    /\ Goto("none")
    /\ fg' = fg \ {Me}
    /\ UNCHANGED shellVars

-----------------------------------------------------------------------------
UInit ==
    /\ Init
    /\ at = [p \in Pids |-> IF p = 2 THEN "init_fork" ELSE "none"]
    /\ lines = <<>>
    /\ is_background = FALSE
    /\ c_pid = 0
    /\ fg = {}

KernelStep ==
    /\ wait_all \/ switch_process \/ init_scheduler
    /\ UNCHANGED <<at, shellVars, fg>>

InitStep == init_fork \/ init_exec \/ init_yield

ShellStep ==
    \/ shell_init
    \/ \E input \in Inputs : shell_read(input)
    \/ input_done
    \/ shell_parse
    \/ exec_binary
    \/ shell_wait
    \/ shell_wait_resumed

JobStep ==
    \/ \E place \in Running : child_exec(place)
    \/ child_exec_failed
    \/ program_end
    \/ program_yield
    \/ exit

UNext == KernelStep \/ InitStep \/ ShellStep \/ JobStep

\* The processor goes on, the user goes on typing lines, perhaps empty ones,
\* and no program yields for ever.
USpec ==
    /\ UInit /\ [][UNext]_uvars /\ WF_uvars(UNext)
    /\ \A p \in Pids : SF_uvars(Me = p /\ program_end)

-----------------------------------------------------------------------------
(***************************************************************************)
(* Properties.                                                             *)
(***************************************************************************)
Live(p) == \E i \in DOMAIN ring : ring[i].pid = p /\ ring[i].state # "ZOMBIE"
Shells == {p \in Pids : at[p] \in ShellPlaces}
Prompting == \E p \in Shells : at[p] = "prompt"
Job(p) == at[p] \in JobPlaces

\* The processes that are alive, other than idle, are the ones that have a
\* program to run, and each is in its program once: a pid that getPID() hands
\* out again never brings the place of its last owner with it.  One of them at
\* most is a shell, also after an execvpe() that failed, and while it lives it
\* is the parent of every job.
ProgramsMatchProcesses ==
    /\ \A p \in Pids \ {1} : Live(p) <=> at[p] # "none"
    /\ Cardinality(Shells) <= 1
    /\ \A i \in DOMAIN ring :
            at[ring[i].pid] \in {"child"} \cup Running => Shells = {} \/ ring[i].ppid \in Shells

\* The shell takes the next line of a script, or prompts, only after the process
\* that it started with is_background off has ended, if its program does not
\* yield.  waitpid() goes through the scheduler once.
ForegroundDone ==
    (\E p \in Shells : at[p] \in {"prompt", "read", "parse"}) => \A p \in fg : ~Live(p)

\* When the shell reads a line, all the jobs have ended, the ones in the
\* background as well, however many a script has started, but for the programs
\* that yield: the jobs run when read() yields, and each runs to its end.
JobsDoneAtRead ==
    At("read") => \A p \in Pids : Job(p) => at[p] = "yielding"

\* The shell comes back to its prompt, whatever it was told to run; "cd" without
\* an argument ends it.
PromptReturns == (Shells # {} /\ ~Prompting) ~> (Prompting \/ Shells = {})

\* "execution of background process": a job gets the processor and ends, whatever
\* the user types next, and also if the shell has gone.
BackgroundRuns == \A p \in Pids : Job(p) ~> ~Job(p)
=============================================================================
