----------------------------- MODULE MCUserland -----------------------------
(***************************************************************************)
(* Inputs of the shell for TLC.                                            *)
(***************************************************************************)
EXTENDS Userland

Line(cmd)       == [cmd |-> cmd, amp |-> FALSE]
Background(cmd) == [cmd |-> cmd, amp |-> TRUE]

Empty   == <<>>
Run     == <<Line("program")>>
RunBack == <<Background("program")>>

\* Single lines, and scripts: a job in front of a program and behind one, several
\* jobs, and one that ends the shell while its job has yet to run.
Lines   == {Empty, Run, RunBack, <<Line("builtin")>>, <<Line("cd")>>}
Scripts == {<<Background("program"), Line("program")>>,
            <<Line("program"), Background("builtin"), Background("program")>>,
            <<Background("program"), Background("program"), Background("program"),
              Line("program")>>,
            <<Background("program"), Line("cd")>>}
SomeInputs == Lines \cup Scripts
=============================================================================
