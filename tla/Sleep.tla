------------------------------- MODULE Sleep --------------------------------
(***************************************************************************)
(* The timer interrupt and sleeping: sys/pit.c, sys/sleep.c, and the       *)
(* program bin/sleep.                                                      *)
(*                                                                         *)
(* The kernel has one sleep_val.  A caller of sleep() polls it in the      *)
(* kernel and does not yield, so there is one sleeper at a time and the    *)
(* timer interrupt is the only other actor.                                *)
(***************************************************************************)
EXTENDS Integers, Sequences

CONSTANTS
    HZ,         \* timer interrupts in a second
    Word,       \* the number of values of an unsigned int
    Arguments   \* the argument lists of bin/sleep, after atoi()

ASSUME SleepAssumption ==
    /\ HZ \in Nat \ {0}
    /\ Word \in Nat \ {0}
    /\ Arguments \subseteq Seq(0 .. Word - 1)

VARIABLES
    time_since_boot,  \* modulo HZ
    sleep_val,        \* seconds left to sleep
    pc,               \* "idle", "main", or "poll": in the kernel's sleep()
    vals,             \* the arguments that bin/sleep has yet to serve
    seconds,          \* the argument of the current sleep()
    elapsed           \* history: timer interrupts since sleep() set sleep_val

vars == <<time_since_boot, sleep_val, pc, vals, seconds, elapsed>>

-----------------------------------------------------------------------------
(***************************************************************************)
(* Mutated forms, used to show that the properties notice such a slip.     *)
(***************************************************************************)
\* sleep() counts one second less.
SecondsLess(n) == IF n = 0 THEN 0 ELSE n - 1

\* sleep() waits for the counter to fall below 0.
AwakeBelowZero == sleep_val = Word - 1

-----------------------------------------------------------------------------
(***************************************************************************)
(* The timer interrupt.                                                    *)
(***************************************************************************)
on_second_tick(v) == IF v = 0 THEN 0 ELSE (v - 1) % Word

pit_intr_handler ==
    /\ time_since_boot' = (time_since_boot + 1) % HZ
    /\ sleep_val' = IF time_since_boot' = 0 THEN on_second_tick(sleep_val) ELSE sleep_val
    /\ elapsed' = IF sleep_val = 0 THEN elapsed ELSE elapsed + 1
    /\ UNCHANGED <<pc, vals, seconds>>

-----------------------------------------------------------------------------
(***************************************************************************)
(* bin/sleep and the system call.                                          *)
(***************************************************************************)

\* atoi() returns -1 for what is not a number.
Invalid == Word - 1
AllValid(argv) == \A i \in DOMAIN argv : argv[i] # Invalid

\* The program checks all its arguments before it sleeps.
main(argv) ==
    /\ pc = "idle"
    /\ argv # <<>> /\ AllValid(argv)
    /\ pc' = "main"
    /\ vals' = argv
    /\ UNCHANGED <<time_since_boot, sleep_val, seconds, elapsed>>

main_done ==
    /\ pc = "main" /\ vals = <<>>
    /\ pc' = "idle"
    /\ UNCHANGED <<time_since_boot, sleep_val, vals, seconds, elapsed>>

\* What sleep() stores.
SecondsStored(n) == n

sleep ==
    /\ pc = "main" /\ vals # <<>>
    /\ sleep_val' = SecondsStored(Head(vals))
    /\ seconds' = Head(vals)
    /\ vals' = Tail(vals)
    /\ elapsed' = 0
    /\ pc' = "poll"
    /\ UNCHANGED time_since_boot

\* What sleep() polls for.
Awake == sleep_val = 0

poll ==
    /\ pc = "poll" /\ Awake
    /\ pc' = "main"
    /\ UNCHANGED <<time_since_boot, sleep_val, vals, seconds, elapsed>>

-----------------------------------------------------------------------------
Init ==
    /\ time_since_boot = 0
    /\ sleep_val = 0
    /\ pc = "idle"
    /\ vals = <<>>
    /\ seconds = 0
    /\ elapsed = 0

Next ==
    \/ pit_intr_handler
    \/ \E argv \in Arguments : main(argv)
    \/ main_done
    \/ sleep
    \/ poll

\* The timer never stops, and the program runs when it is not interrupted.
Spec ==
    /\ Init /\ [][Next]_vars
    /\ WF_vars(pit_intr_handler)
    /\ WF_vars(main_done \/ sleep \/ poll)

-----------------------------------------------------------------------------
(***************************************************************************)
(* Properties.                                                             *)
(***************************************************************************)

\* The types of the variables.
TypeOK ==
    /\ time_since_boot \in 0 .. HZ - 1
    /\ sleep_val \in 0 .. Word - 1
    /\ pc \in {"idle", "main", "poll"}
    /\ vals \in Seq(0 .. Word - 1)
    /\ seconds \in 0 .. Word - 1
    /\ elapsed \in Nat

\* sleep(n) waits for n ticks of the second hand, whatever n is: it ends within n
\* seconds, and less than one second early.
SleepTakesSeconds ==
    pc = "poll" =>
        /\ sleep_val # 0 => elapsed < seconds * HZ
        /\ sleep_val = 0 => elapsed <= seconds * HZ /\ elapsed >= (seconds - 1) * HZ

\* Outside sleep() the counter rests at 0: a tick that comes when nobody sleeps
\* does not start it, and the next sleep() finds no remainder.
CounterRests == pc # "poll" => sleep_val = 0

\* bin/sleep ends.
SleepEnds == pc = "main" ~> pc = "idle"

\* bin/sleep sleeps not at all when one of its arguments is no number.
InvalidNeverSlept ==
    /\ \A i \in DOMAIN vals : vals[i] # Invalid
    /\ pc = "poll" => seconds # Invalid
=============================================================================
