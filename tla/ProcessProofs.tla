--------------------------- MODULE ProcessProofs ---------------------------
(***************************************************************************)
(* Proofs about Process, for a pid table and a run list of any size and    *)
(* for programs that issue any set of system calls.                        *)
(*                                                                         *)
(* First the list operations of the model, element by element; then the    *)
(* inductive invariant IInv, action by action; then its consequences.      *)
(***************************************************************************)
EXTENDS Process, SequenceTheorems, TLAPS

\* A function on 1 .. n is a sequence of length n; the lists built elementwise
\* in kill_process() are of this form.
LEMMA FunctionIsSeq ==
    ASSUME NEW S, NEW n \in Nat, NEW f \in [1 .. n -> S]
    PROVE  f \in Seq(S) /\ Len(f) = n
OBVIOUS

\* Linking out element i, as reap_process() does, keeps the elements before it
\* and moves those behind it one place forward.
LEMMA RemovedProperties ==
    ASSUME NEW S, NEW r \in Seq(S), NEW i \in 2 .. Len(r)
    PROVE  /\ Without(r, i) \in Seq(S)
           /\ Len(Without(r, i)) = Len(r) - 1
           /\ \A j \in 1 .. Len(r) - 1 :
                Without(r, i)[j] = IF j < i THEN r[j] ELSE r[j + 1]
<1> DEFINE s == Without(r, i)
           a == SubSeq(r, 1, i - 1)
           b == SubSeq(r, i + 1, Len(r))
<1>1. Len(r) \in Nat /\ \A j \in 1 .. Len(r) : r[j] \in S
  BY LenProperties, ElementOfSeq
<1>2. /\ a \in Seq(S) /\ Len(a) = i - 1
      /\ \A j \in 1 .. i - 1 : a[j] = r[j]
  <2>1. \A j \in 1 .. i - 1 : r[j] \in S
    BY <1>1
  <2> QED
    BY <1>1, <2>1, SubSeqProperties
<1>3. /\ b \in Seq(S) /\ Len(b) = Len(r) - i
      /\ \A j \in 1 .. Len(r) - i : b[j] = r[i + j]
  <2>1. \A j \in i + 1 .. Len(r) : r[j] \in S
    BY <1>1
  <2> QED
    BY <1>1, <2>1, SubSeqProperties
<1> HIDE DEF s, a, b
<1>4. /\ a \o b \in Seq(S)
      /\ Len(a \o b) = Len(a) + Len(b)
      /\ \A j \in 1 .. Len(a) + Len(b) :
            (a \o b)[j] = IF j <= Len(a) THEN a[j] ELSE b[j - Len(a)]
  BY <1>2, <1>3, ConcatProperties
<1>5. s = a \o b
  BY DEF s, a, b, Without
<1>6. \A j \in 1 .. Len(r) - 1 : s[j] = IF j < i THEN r[j] ELSE r[j + 1]
  <2> TAKE j \in 1 .. Len(r) - 1
  <2>1. s[j] = IF j <= Len(a) THEN a[j] ELSE b[j - Len(a)]
    BY <1>1, <1>2, <1>3, <1>4, <1>5
  <2>2. CASE j < i
    BY <1>2, <2>1, <2>2
  <2>3. CASE ~(j < i)
    <3>1. s[j] = b[j - (i - 1)]
      BY <1>2, <2>1, <2>3
    <3>2. j - (i - 1) \in 1 .. Len(r) - i
      BY <1>1, <2>3
    <3>3. b[j - (i - 1)] = r[i + (j - (i - 1))]
      BY <1>3, <3>2
    <3>4. i + (j - (i - 1)) = j + 1
      BY <1>1
    <3> QED
      BY <2>3, <3>1, <3>3, <3>4
  <2> QED
    BY <2>2, <2>3
<1>7. s \in Seq(S)
  BY <1>4, <1>5
<1>8. Len(s) = Len(r) - 1
  <2>1. Len(s) = Len(a) + Len(b)
    BY <1>4, <1>5
  <2>2. Len(a) = i - 1 /\ Len(b) = Len(r) - i
    BY <1>2, <1>3
  <2>3. Len(r) \in Nat
    BY <1>1
  <2> QED
    BY <2>1, <2>2, <2>3
<1> QED
  BY <1>6, <1>7, <1>8 DEF s

\* The run list seen from its i-th element, where switch_process() puts
\* current_process: the same elements, shifted cyclically.
LEMMA RotatedProperties ==
    ASSUME NEW S, NEW r \in Seq(S), NEW i \in 2 .. Len(r)
    PROVE  /\ RotateTo(r, i) \in Seq(S)
           /\ Len(RotateTo(r, i)) = Len(r)
           /\ \A j \in 1 .. Len(r) :
                RotateTo(r, i)[j] =
                  IF j <= Len(r) - i + 1 THEN r[j + i - 1] ELSE r[j - (Len(r) - i + 1)]
<1> DEFINE s == RotateTo(r, i)
           a == SubSeq(r, i, Len(r))
           b == SubSeq(r, 1, i - 1)
<1>1. Len(r) \in Nat /\ \A j \in 1 .. Len(r) : r[j] \in S
  BY LenProperties, ElementOfSeq
<1>2. /\ a \in Seq(S) /\ Len(a) = Len(r) - i + 1
      /\ \A j \in 1 .. Len(r) - i + 1 : a[j] = r[i + j - 1]
  <2>1. \A j \in i .. Len(r) : r[j] \in S
    BY <1>1
  <2> QED
    BY <1>1, <2>1, SubSeqProperties
<1>3. /\ b \in Seq(S) /\ Len(b) = i - 1
      /\ \A j \in 1 .. i - 1 : b[j] = r[j]
  <2>1. \A j \in 1 .. i - 1 : r[j] \in S
    BY <1>1
  <2> QED
    BY <1>1, <2>1, SubSeqProperties
<1> HIDE DEF s, a, b
<1>4. /\ a \o b \in Seq(S)
      /\ Len(a \o b) = Len(a) + Len(b)
      /\ \A j \in 1 .. Len(a) + Len(b) :
            (a \o b)[j] = IF j <= Len(a) THEN a[j] ELSE b[j - Len(a)]
  BY <1>2, <1>3, ConcatProperties
<1>5. s = a \o b
  BY DEF s, a, b, RotateTo
<1>6. /\ s \in Seq(S)
      /\ Len(s) = Len(r)
      /\ \A j \in 1 .. Len(r) :
           s[j] = IF j <= Len(r) - i + 1 THEN r[j + i - 1] ELSE r[j - (Len(r) - i + 1)]
  BY <1>1, <1>2, <1>3, <1>4, <1>5
<1> QED
  BY <1>6 DEF s

\* fork() links the child in as the second element and moves the others that
\* follow the parent one place back.
LEMMA ForkLinkProperties ==
    ASSUME TypeOK, NEW c \in kern_thread
    PROVE  /\ ForkLink(c) \in Seq(kern_thread)
           /\ Len(ForkLink(c)) = Len(ring) + 1
           /\ ForkLink(c)[1] = ring[1] /\ ForkLink(c)[2] = c
           /\ \A j \in 3 .. Len(ring) + 1 : ForkLink(c)[j] = ring[j - 1]
<1> DEFINE a == <<ring[1], c>>
           b == Tail(ring)
<1>1. Len(ring) \in Nat \ {0} /\ ring[1] \in kern_thread /\ ring # << >>
  BY LenProperties, ElementOfSeq, EmptySeq DEF TypeOK
<1>2. /\ b \in Seq(kern_thread)
      /\ Len(b) = Len(ring) - 1
      /\ \A j \in 1 .. Len(ring) - 1 : b[j] = ring[j + 1]
  BY <1>1, HeadTailProperties DEF TypeOK
<1>3. a \in Seq(kern_thread) /\ Len(a) = 2 /\ a[1] = ring[1] /\ a[2] = c
  BY <1>1
<1> HIDE DEF a, b
<1>4. /\ a \o b \in Seq(kern_thread)
      /\ Len(a \o b) = Len(a) + Len(b)
      /\ \A j \in 1 .. Len(a) + Len(b) :
            (a \o b)[j] = IF j <= Len(a) THEN a[j] ELSE b[j - Len(a)]
  BY <1>2, <1>3, ConcatProperties
<1>5. ForkLink(c) = a \o b
  BY DEF ForkLink, a, b
<1>6. Len(ring) \in Nat /\ Len(ring) > 0 /\ Len(a) + Len(b) = Len(ring) + 1
  BY <1>1, <1>2, <1>3
<1>7. (a \o b)[1] = ring[1] /\ (a \o b)[2] = c
  <2>1. 1 \in 1 .. Len(a) + Len(b) /\ 2 \in 1 .. Len(a) + Len(b)
    BY <1>6
  <2> QED
    BY <1>3, <1>4, <2>1
<1>8. \A j \in 3 .. Len(ring) + 1 : (a \o b)[j] = ring[j - 1]
  <2> TAKE j \in 3 .. Len(ring) + 1
  <2>1. /\ j \in 1 .. Len(a) + Len(b) /\ ~(j <= 2)
        /\ j - 2 \in 1 .. Len(ring) - 1 /\ (j - 2) + 1 = j - 1
    BY <1>6
  <2>2. (a \o b)[j] = b[j - 2]
    BY <1>3, <1>4, <2>1
  <2> QED
    BY <1>2, <2>1, <2>2
<1> QED
  BY <1>4, <1>5, <1>6, <1>7, <1>8

-----------------------------------------------------------------------------
\* The inductive invariant.  ZombieWaitsLast needs OneRunner (who ran last is
\* the last of the list), and PidTableExact and IdleNeverDies need both: what
\* is reaped is a zombie, and the idle process is none.
IInv ==
    /\ TypeOK
    /\ OneRunner
    /\ ZombieWaitsLast
    /\ PidTableExact
    /\ IdleNeverDies

\* Boot leaves the idle process running, init queued, and their pids marked.
LEMMA InitIInv == Init => IInv
<1> SUFFICES ASSUME Init PROVE IInv
  OBVIOUS
<1> USE ProcessAssumption
<1>1. ring \in Seq(kern_thread) /\ Len(ring) = 2
  BY DEF Init, NewThread, kern_thread, Pids, PidArgs, States, Ops
<1>2. TypeOK
  BY <1>1 DEF Init, TypeOK, Results, AllSyscalls, PidArgs
<1>3. DOMAIN ring = 1 .. 2 /\ Others = {2}
  BY <1>1 DEF Others
<1>4. /\ ring[1].state = "RUNNING" /\ ring[1].pid = 1 /\ ring[1].op = "idle"
      /\ ring[2].state = "QUEUED" /\ ring[2].pid = 2
  BY DEF Init, NewThread
<1>5. OneRunner /\ ZombieWaitsLast /\ IdleNeverDies
  BY <1>3, <1>4 DEF OneRunner, ZombieWaitsLast, IdleNeverDies
<1>6. PidTableExact
  <2>1. \A p \in Pids : processes[p] = 1 <=> p \in {1, 2}
    BY DEF Init, Pids
  <2> QED
    BY <1>3, <1>4, <2>1 DEF PidTableExact
<1> QED
  BY <1>2, <1>5, <1>6 DEF IInv

\* The run list as a function: its domain and the type of its elements.
LEMMA RingFacts ==
    ASSUME TypeOK
    PROVE  /\ Len(ring) \in Nat \ {0}
           /\ DOMAIN ring = 1 .. Len(ring)
           /\ ring \in [1 .. Len(ring) -> kern_thread]
           /\ \A i \in 1 .. Len(ring) : ring[i] \in kern_thread
BY LenProperties, ElementOfSeq DEF TypeOK

\* A step that keeps every pid, and the state and op of every other process,
\* keeps IInv: what yield, exec, exit, kill and an unsuccessful wait do.
LEMMA HeadChange ==
    ASSUME IInv, NEW STATE r, r \in Seq(kern_thread), Len(r) = Len(ring),
           r[1].pid = ring[1].pid,
           r[1].state \in {"RUNNING", "ZOMBIE"},
           ring[1].op # "idle" \/ (r[1].op = "idle" /\ r[1].state = ring[1].state),
           \A i \in 2 .. Len(ring) : /\ r[i].pid = ring[i].pid
                                     /\ r[i].state = ring[i].state
                                     /\ r[i].op = ring[i].op,
           ring' = r, processes' = processes,
           pc' \in {"run", "scheduler"},
           sysret' \in [call : Results, arg : PidArgs, val : -1 .. MAX_P - 1]
    PROVE  IInv'
<1>1. /\ Len(ring) \in Nat \ {0} /\ DOMAIN ring = 1 .. Len(ring)
      /\ DOMAIN ring' = 1 .. Len(ring) /\ Len(ring') = Len(ring)
  BY RingFacts, LenProperties DEF IInv
<1>2. \A i \in 1 .. Len(ring) : ring'[i].pid = ring[i].pid
  BY <1>1
<1>3. TypeOK'
  BY <1>1 DEF IInv, TypeOK
<1>4. OneRunner' /\ ZombieWaitsLast'
  BY <1>1 DEF IInv, OneRunner, ZombieWaitsLast, Others
<1>5. PidTableExact'
  BY <1>1, <1>2 DEF IInv, PidTableExact
<1>6. IdleNeverDies'
  <2>1. PICK i \in 1 .. Len(ring) :
           ring[i].pid = 1 /\ ring[i].op = "idle" /\ ring[i].state # "ZOMBIE"
    BY <1>1 DEF IInv, IdleNeverDies
  <2>2. ring'[i].pid = 1 /\ ring'[i].op = "idle" /\ ring'[i].state # "ZOMBIE"
    BY <1>1, <2>1
  <2> QED
    BY <1>1, <2>2 DEF IdleNeverDies
<1> QED
  BY <1>3, <1>4, <1>5, <1>6 DEF IInv

\* A step that reaps a zombie other than the current process keeps IInv: what
\* wait_all() and a successful wait do.
LEMMA Removal ==
    ASSUME IInv, NEW STATE r, r \in Seq(kern_thread), Len(r) = Len(ring),
           \A j \in 1 .. Len(ring) : r[j].pid = ring[j].pid /\ r[j].state = ring[j].state,
           ring[1].op # "idle" \/ r[1].op = "idle",
           \A j \in 2 .. Len(ring) : r[j].op = ring[j].op,
           NEW i \in 2 .. Len(ring), r[i].state = "ZOMBIE", reap_process(r, i),
           pc' \in {"run", "scheduler"},
           sysret' \in [call : Results, arg : PidArgs, val : -1 .. MAX_P - 1]
    PROVE  IInv'
<1>1. /\ Len(ring) \in Nat \ {0} /\ DOMAIN ring = 1 .. Len(ring)
      /\ processes \in [0 .. MAX_P - 1 -> {0, 1}]
  BY RingFacts DEF IInv, TypeOK
<1>2. /\ ring' \in Seq(kern_thread)
      /\ Len(ring') = Len(ring) - 1
      /\ \A j \in 1 .. Len(ring) - 1 : ring'[j] = IF j < i THEN r[j] ELSE r[j + 1]
  <2>1. ring' = Without(r, i)
    BY DEF reap_process
  <2>2. /\ Without(r, i) \in Seq(kern_thread)
        /\ Len(Without(r, i)) = Len(r) - 1
        /\ \A j \in 1 .. Len(r) - 1 :
             Without(r, i)[j] = IF j < i THEN r[j] ELSE r[j + 1]
    <3>1. i \in 2 .. Len(r)
      OBVIOUS
    <3> QED
      BY ONLY <3>1, r \in Seq(kern_thread), RemovedProperties
  <2> QED
    BY <2>1, <2>2
<1>3. DOMAIN ring' = 1 .. Len(ring) - 1
  BY <1>2, LenProperties
<1>4. i = Len(ring)
  BY <1>1 DEF IInv, ZombieWaitsLast, Others
<1>5. \A j \in 1 .. Len(ring) - 1 :
         ring'[j] = r[j] /\ ring'[j].pid = ring[j].pid /\ ring'[j].state = ring[j].state
  BY <1>1, <1>2, <1>4
<1>6. processes' = [q \in 0 .. MAX_P - 1 |-> IF q = ring[i].pid THEN 0 ELSE processes[q]]
  BY <1>1 DEF reap_process
<1>7. TypeOK'
  BY <1>1, <1>2, <1>4, <1>6 DEF TypeOK
<1>8. OneRunner' /\ ZombieWaitsLast'
  <2>1. /\ ring[1].state \in {"RUNNING", "ZOMBIE"}
        /\ \A j \in 2 .. Len(ring) - 1 : ring[j].state # "RUNNING" /\ ring[j].state # "ZOMBIE"
    BY <1>1 DEF IInv, OneRunner, ZombieWaitsLast, Others
  <2>2. /\ ring'[1].state \in {"RUNNING", "ZOMBIE"}
        /\ \A j \in 2 .. Len(ring) - 1 : ring'[j].state # "RUNNING" /\ ring'[j].state # "ZOMBIE"
    BY <1>1, <1>4, <1>5, <2>1
  <2> QED
    BY <1>2, <2>2 DEF OneRunner, ZombieWaitsLast, Others
<1>9. PidTableExact'
  <2>1. \A j, k \in 1 .. Len(ring) - 1 :
           ring'[j].pid = ring'[k].pid /\ j # k => ring'[j].pid = -1
    <3>1. \A j, k \in 1 .. Len(ring) : ring[j].pid = ring[k].pid /\ j # k => ring[j].pid = -1
      BY <1>1 DEF IInv, PidTableExact
    <3> QED
      BY <1>1, <1>5, <3>1
  <2>2. ASSUME NEW p \in Pids
        PROVE  processes'[p] = 1 <=> \E j \in 1 .. Len(ring) - 1 : ring'[j].pid = p
    <3>1. processes'[p] = IF p = ring[i].pid THEN 0 ELSE processes[p]
      BY <1>6 DEF Pids
    <3>2. processes[p] = 1 <=> \E j \in 1 .. Len(ring) : ring[j].pid = p
      BY <1>1 DEF IInv, PidTableExact
    <3>3. CASE p = ring[i].pid
      <4>1. \A j \in 1 .. Len(ring) - 1 : ring[j].pid # p
        <5>1. \A j, k \in 1 .. Len(ring) : ring[j].pid = ring[k].pid /\ j # k => ring[j].pid = -1
          BY <1>1 DEF IInv, PidTableExact
        <5>2. p # -1
          BY ProcessAssumption DEF Pids
        <5> QED
          BY <1>1, <1>4, <3>3, <5>1, <5>2
      <4> QED
        BY <1>1, <1>5, <3>1, <3>3, <4>1
    <3>4. CASE p # ring[i].pid
      <4>1. \A j \in 1 .. Len(ring) : ring[j].pid = p => j \in 1 .. Len(ring) - 1
        BY <1>1, <1>4, <3>4
      <4>2. \A j \in 1 .. Len(ring) - 1 : j \in 1 .. Len(ring) /\ ring'[j].pid = ring[j].pid
        BY <1>1, <1>5
      <4> QED
        BY <3>1, <3>2, <3>4, <4>1, <4>2
    <3> QED
      BY <3>3, <3>4
  <2> QED
    BY <1>3, <2>1, <2>2 DEF PidTableExact
<1>10. IdleNeverDies'
  <2>1. PICK j \in 1 .. Len(ring) :
           ring[j].pid = 1 /\ ring[j].op = "idle" /\ ring[j].state # "ZOMBIE"
    BY <1>1 DEF IInv, IdleNeverDies
  <2>2. j \in 1 .. Len(ring) - 1
    BY <1>1, <1>4, <2>1
  <2>3. ring'[j].pid = 1 /\ ring'[j].op = "idle" /\ ring'[j].state # "ZOMBIE"
    BY <1>1, <1>5, <2>1, <2>2
  <2> QED
    BY <1>3, <2>2, <2>3 DEF IdleNeverDies
<1> QED
  BY <1>7, <1>8, <1>9, <1>10 DEF IInv

\* fork() keeps IInv: the pid that getPID() picks is on nobody's thread.
LEMMA ForkKeepsIInv == IInv /\ fork => IInv'
<1> SUFFICES ASSUME IInv, fork PROVE IInv'
  OBVIOUS
<1> USE ProcessAssumption
<1>1. PICK p \in {-1} \cup Pids :
        /\ getPID(p)
        /\ processes' = Marked(p)
        /\ ring' = ForkLink(NewThread(p, ring[1].pid))
        /\ Return("fork", 0, p)
  <2>1. PICK p \in -1 .. MAX_P - 1 :
          /\ getPID(p)
          /\ processes' = Marked(p)
          /\ ring' = ForkLink(NewThread(p, ring[1].pid))
          /\ Return("fork", 0, p)
    BY DEF fork
  <2>2. p \in {-1} \cup Pids
    BY <2>1 DEF getPID
  <2> QED
    BY <2>1, <2>2
<1> DEFINE c == NewThread(p, ring[1].pid)
<1>2. /\ Len(ring) \in Nat \ {0} /\ DOMAIN ring = 1 .. Len(ring)
      /\ \A j \in 1 .. Len(ring) : ring[j] \in kern_thread
      /\ processes \in [0 .. MAX_P - 1 -> {0, 1}]
  BY RingFacts DEF IInv, TypeOK
<1>3. c \in kern_thread /\ c.pid = p /\ c.state = "QUEUED"
  BY <1>2 DEF NewThread, kern_thread, Pids, PidArgs, States, Ops
<1>4. /\ ring' \in Seq(kern_thread)
      /\ Len(ring') = Len(ring) + 1
      /\ ring'[1] = ring[1] /\ ring'[2] = c
      /\ \A j \in 3 .. Len(ring) + 1 : ring'[j] = ring[j - 1]
  <2>1. ring' = ForkLink(c)
    BY <1>1
  <2> HIDE DEF c
  <2>2. /\ ForkLink(c) \in Seq(kern_thread)
        /\ Len(ForkLink(c)) = Len(ring) + 1
        /\ ForkLink(c)[1] = ring[1] /\ ForkLink(c)[2] = c
        /\ \A j \in 3 .. Len(ring) + 1 : ForkLink(c)[j] = ring[j - 1]
    BY <1>3, ForkLinkProperties DEF IInv
  <2> QED
    BY <2>1, <2>2
<1> HIDE DEF c
<1>5. DOMAIN ring' = 1 .. Len(ring) + 1
  BY <1>4, LenProperties
<1>6. processes' = [q \in 0 .. MAX_P - 1 |-> IF q = p THEN 1 ELSE processes[q]]
  BY <1>1, <1>2 DEF Marked
<1>7. TypeOK'
  <2>1. sysret' \in [call : Results, arg : PidArgs, val : -1 .. MAX_P - 1]
    BY <1>1 DEF Return, Results, AllSyscalls, PidArgs, Pids
  <2>2. pc' = pc
    BY DEF fork
  <2> QED
    BY <1>2, <1>4, <1>6, <2>1, <2>2 DEF IInv, TypeOK
<1>8. OneRunner' /\ ZombieWaitsLast'
  <2>1. /\ ring[1].state \in {"RUNNING", "ZOMBIE"}
        /\ \A j \in 2 .. Len(ring) : /\ ring[j].state # "RUNNING"
                                     /\ ring[j].state = "ZOMBIE" => j = Len(ring)
    BY DEF IInv, OneRunner, ZombieWaitsLast, Others
  <2>2. \A j \in 2 .. Len(ring) + 1 : /\ ring'[j].state # "RUNNING"
                                      /\ ring'[j].state = "ZOMBIE" => j = Len(ring) + 1
    <3> TAKE j \in 2 .. Len(ring) + 1
    <3>1. CASE j = 2
      BY <1>3, <1>4, <3>1
    <3>2. CASE j # 2
      <4>1. j - 1 \in 2 .. Len(ring) /\ ring'[j] = ring[j - 1]
        BY <1>2, <1>4, <3>2
      <4>2. /\ ring[j - 1].state # "RUNNING"
            /\ ring[j - 1].state = "ZOMBIE" => j - 1 = Len(ring)
        BY <2>1, <4>1
      <4> QED
        BY <1>2, <4>1, <4>2
    <3> QED
      BY <3>1, <3>2
  <2> QED
    BY <1>4, <2>1, <2>2 DEF OneRunner, ZombieWaitsLast, Others
<1>9. PidTableExact'
  <2>1. \A q \in Pids : processes[q] = 1 <=> \E j \in 1 .. Len(ring) : ring[j].pid = q
    BY <1>2 DEF IInv, PidTableExact
  <2>2. p \in Pids => processes[p] = 0
    <3>1. CASE {q \in Pids : processes[q] = 0} = {}
      BY <1>1, <3>1 DEF getPID, Pids
    <3>2. CASE {q \in Pids : processes[q] = 0} # {}
      BY <1>1, <3>2 DEF getPID
    <3> QED
      BY <3>1, <3>2
  <2>3. \A j \in 1 .. Len(ring) : ring[j].pid = p => p = -1
    BY <1>1, <2>1, <2>2
  <2>4. \A j, k \in 1 .. Len(ring) : ring[j].pid = ring[k].pid /\ j # k => ring[j].pid = -1
    BY <1>2 DEF IInv, PidTableExact
  <2>5. \A j \in 1 .. Len(ring) + 1 :
           \/ j = 2 /\ ring'[j].pid = p
           \/ j = 1 /\ ring'[j].pid = ring[1].pid
           \/ j > 2 /\ j - 1 \in 2 .. Len(ring) /\ ring'[j].pid = ring[j - 1].pid
    BY <1>2, <1>3, <1>4
  <2>6. \A j, k \in 1 .. Len(ring) + 1 :
           ring'[j].pid = ring'[k].pid /\ j # k => ring'[j].pid = -1
    BY <1>2, <2>3, <2>4, <2>5
  <2>7. ASSUME NEW q \in Pids
        PROVE  processes'[q] = 1 <=> \E j \in 1 .. Len(ring) + 1 : ring'[j].pid = q
    <3>1. processes'[q] = IF q = p THEN 1 ELSE processes[q]
      BY <1>6 DEF Pids
    <3>2. CASE q = p
      <4>1. 2 \in 1 .. Len(ring) + 1
        BY <1>2
      <4>2. ring'[2].pid = q
        BY <1>3, <1>4, <3>2
      <4> QED
        BY <3>1, <3>2, <4>1, <4>2
    <3>3. CASE q # p
      <4>1. ASSUME NEW j \in 1 .. Len(ring), ring[j].pid = q
            PROVE  \E k \in 1 .. Len(ring) + 1 : ring'[k].pid = q
        <5>1. CASE j = 1
          BY <1>2, <1>4, <4>1, <5>1
        <5>2. CASE j # 1
          <6>1. j + 1 \in 3 .. Len(ring) + 1 /\ j + 1 \in 1 .. Len(ring) + 1
            BY <1>2, <5>2
          <6>2. ring'[j + 1] = ring[j]
            BY <1>2, <1>4, <6>1
          <6> QED
            BY <4>1, <6>1, <6>2
        <5> QED
          BY <5>1, <5>2
      <4>2. ASSUME NEW k \in 1 .. Len(ring) + 1, ring'[k].pid = q
            PROVE  \E j \in 1 .. Len(ring) : ring[j].pid = q
        BY <1>2, <2>5, <3>3, <4>2
      <4> QED
        BY <2>1, <3>1, <3>3, <4>1, <4>2
    <3> QED
      BY <3>2, <3>3
  <2> QED
    BY <1>5, <2>6, <2>7 DEF PidTableExact
<1>10. IdleNeverDies'
  <2>1. PICK j \in 1 .. Len(ring) :
           ring[j].pid = 1 /\ ring[j].op = "idle" /\ ring[j].state # "ZOMBIE"
    BY <1>2 DEF IInv, IdleNeverDies
  <2>2. CASE j = 1
    BY <1>2, <1>4, <1>5, <2>1, <2>2 DEF IdleNeverDies
  <2>3. CASE j # 1
    <3>1. j + 1 \in 3 .. Len(ring) + 1 /\ ring'[j + 1] = ring[j]
      BY <1>2, <1>4, <2>3
    <3> QED
      BY <1>2, <1>5, <2>1, <3>1 DEF IdleNeverDies
  <2> QED
    BY <2>2, <2>3
<1> QED
  BY <1>7, <1>8, <1>9, <1>10 DEF IInv

\* switch_process() keeps IInv: it moves RUNNING to the next queued process,
\* and a zombie that gives up the processor becomes the last of the list.
LEMMA SwitchKeepsIInv == IInv /\ switch_process => IInv'
<1> SUFFICES ASSUME IInv, switch_process PROVE IInv'
  OBVIOUS
<1> USE ProcessAssumption
<1>1. /\ Len(ring) \in Nat \ {0} /\ DOMAIN ring = 1 .. Len(ring)
      /\ \A j \in 1 .. Len(ring) : ring[j] \in kern_thread
      /\ ring \in Seq(kern_thread)
  BY RingFacts DEF IInv, TypeOK
<1>2. \A j \in 2 .. Len(ring) : ring[j].state = "QUEUED"
  <2>1. \A j \in 2 .. Len(ring) : ring[j].state # "RUNNING" /\ ring[j].state # "ZOMBIE"
    BY DEF IInv, OneRunner, Others, switch_process, WaitAllZombies
  <2>2. \A j \in 2 .. Len(ring) : ring[j].state \in States
    BY <1>1 DEF kern_thread
  <2> QED
    BY <2>1, <2>2 DEF States
<1>3. CASE Len(ring) = 1
  <2>1. ring' = ring /\ processes' = processes /\ pc' = "run" /\ sysret' = sysret
    BY <1>3 DEF switch_process
  <2> QED
    BY <2>1 DEF IInv, TypeOK, OneRunner, ZombieWaitsLast, PidTableExact, IdleNeverDies, Others
<1>4. CASE Len(ring) > 1
  <2>0. Len(ring) \in Nat /\ Len(ring) > 1
    BY <1>1, <1>4
  <2>1. 2 \in 2 .. Len(ring) /\ 2 \in Others
    BY <1>1, <1>4 DEF Others
  <2>2. PICK i \in 2 .. Len(ring) : SwitchTo(i)
    <3>1. ~(\A i \in Others : ring[i].state # "QUEUED")
      BY <1>2, <2>1
    <3> QED
      BY <1>4, <3>1 DEF switch_process, Others
  <2>3. i = 2
    BY <1>1, <1>2, <2>1, <2>2 DEF SwitchTo
  <2> DEFINE t == Requeue(ring[1])
             u == [ring[2] EXCEPT !.state = "RUNNING"]
             r == [ring EXCEPT ![1] = t, ![2] = u]
  <2>4. t \in kern_thread /\ t.pid = ring[1].pid /\ t.op = ring[1].op
        /\ t.state \in {"QUEUED", "ZOMBIE"} /\ (t.state = "ZOMBIE" => ring[1].state = "ZOMBIE")
    BY <1>1 DEF Requeue, kern_thread, States, IInv, OneRunner
  <2>5. u \in kern_thread /\ u.pid = ring[2].pid /\ u.op = ring[2].op /\ u.state = "RUNNING"
    BY <1>1, <1>4 DEF kern_thread, States
  <2>6. ring' = RotateTo(r, 2) /\ processes' = processes
    BY <2>2, <2>3 DEF SwitchTo, IInv, OneRunner
  <2> HIDE DEF t, u
  <2>7. /\ r \in Seq(kern_thread) /\ Len(r) = Len(ring)
        /\ r[1] = t /\ r[2] = u
        /\ \A j \in 3 .. Len(ring) : r[j] = ring[j]
    BY <1>1, <1>4, <2>4, <2>5
  <2> HIDE DEF r
  <2>8. /\ RotateTo(r, 2) \in Seq(kern_thread)
        /\ Len(RotateTo(r, 2)) = Len(r)
        /\ \A j \in 1 .. Len(r) :
              RotateTo(r, 2)[j] = IF j <= Len(r) - 2 + 1 THEN r[j + 2 - 1]
                                  ELSE r[j - (Len(r) - 2 + 1)]
    BY <2>1, <2>7, RotatedProperties
  <2>9. /\ ring' \in Seq(kern_thread) /\ Len(ring') = Len(ring)
        /\ ring'[1] = u /\ ring'[Len(ring)] = t
        /\ \A j \in 2 .. Len(ring) - 1 : ring'[j] = ring[j + 1]
    <3>1. ring' \in Seq(kern_thread) /\ Len(ring') = Len(ring)
      BY <2>6, <2>7, <2>8
    <3>2. \A j \in 1 .. Len(ring) :
             ring'[j] = IF j <= Len(ring) - 2 + 1 THEN r[j + 2 - 1]
                        ELSE r[j - (Len(ring) - 2 + 1)]
      BY <2>6, <2>7, <2>8
    <3>3. \A j \in 1 .. Len(ring) - 1 : ring'[j] = r[j + 1]
      <4> TAKE j \in 1 .. Len(ring) - 1
      <4>1. j \in 1 .. Len(ring) /\ j <= Len(ring) - 2 + 1 /\ j + 2 - 1 = j + 1
        BY <2>0
      <4> QED
        BY <3>2, <4>1
    <3>4. ring'[Len(ring)] = r[1]
      <4>1. /\ Len(ring) \in 1 .. Len(ring)
            /\ ~(Len(ring) <= Len(ring) - 2 + 1)
            /\ Len(ring) - (Len(ring) - 2 + 1) = 1
        <5>1. Len(ring) - 2 + 1 = Len(ring) - 1
          BY <2>0
        <5>2. /\ Len(ring) \in 1 .. Len(ring)
              /\ ~(Len(ring) <= Len(ring) - 1)
              /\ Len(ring) - (Len(ring) - 1) = 1
          BY <2>0
        <5> QED
          BY <5>1, <5>2
      <4> QED
        BY <3>2, <4>1
    <3>5. ring'[1] = u
      BY <2>0, <2>7, <3>3
    <3>6. \A j \in 2 .. Len(ring) - 1 : ring'[j] = ring[j + 1]
      <4> TAKE j \in 2 .. Len(ring) - 1
      <4>1. j \in 1 .. Len(ring) - 1 /\ j + 1 \in 3 .. Len(ring)
        BY <2>0
      <4> QED
        BY <2>7, <3>3, <4>1
    <3> QED
      BY <2>7, <3>1, <3>4, <3>5, <3>6
  <2>10. DOMAIN ring' = 1 .. Len(ring)
    BY <2>9, LenProperties
  <2>11. TypeOK'
    BY <1>1, <2>6, <2>9 DEF IInv, TypeOK, switch_process
  <2>12. OneRunner' /\ ZombieWaitsLast'
    <3>1. \A j \in 2 .. Len(ring) - 1 : ring'[j].state = "QUEUED"
      BY <2>0, <1>2, <2>9
    <3>2. ring'[1].state = "RUNNING" /\ ring'[Len(ring)].state \in {"QUEUED", "ZOMBIE"}
      BY <2>4, <2>5, <2>9
    <3>3. \A j \in 2 .. Len(ring) : j = Len(ring) \/ j \in 2 .. Len(ring) - 1
      BY <2>0
    <3>4. \A j \in 2 .. Len(ring) : /\ ring'[j].state # "RUNNING"
                                    /\ ring'[j].state = "ZOMBIE" => j = Len(ring)
      BY <3>1, <3>2, <3>3
    <3> QED
      BY <2>9, <3>2, <3>4 DEF OneRunner, ZombieWaitsLast, Others
  <2>13. PidTableExact'
    <3>1. \A j \in 1 .. Len(ring) :
             \/ j = Len(ring) /\ ring'[j].pid = ring[1].pid
             \/ j < Len(ring) /\ j + 1 \in 2 .. Len(ring) /\ ring'[j].pid = ring[j + 1].pid
      <4> TAKE j \in 1 .. Len(ring)
      <4>1. CASE j = Len(ring)
        BY <2>4, <2>9, <4>1
      <4>2. CASE j = 1
        BY <2>0, <2>5, <2>9, <4>2
      <4>3. CASE j > 1 /\ j < Len(ring)
        <5>1. j \in 2 .. Len(ring) - 1 /\ j + 1 \in 2 .. Len(ring)
          BY <2>0, <4>3
        <5> QED
          BY <2>9, <4>3, <5>1
      <4> QED
        BY <2>0, <4>1, <4>2, <4>3
    <3>2. \A j \in 1 .. Len(ring) :
             \/ j = 1 /\ ring'[Len(ring)].pid = ring[j].pid
             \/ j > 1 /\ j - 1 \in 1 .. Len(ring) - 1 /\ ring'[j - 1].pid = ring[j].pid
      <4> TAKE j \in 1 .. Len(ring)
      <4>1. CASE j = 1
        BY <2>4, <2>9, <4>1
      <4>2. CASE j > 1
        <5>1. j - 1 \in 1 .. Len(ring) /\ j - 1 \in 1 .. Len(ring) - 1 /\ (j - 1) + 1 = j
          BY <2>0, <4>2
        <5>2. j - 1 # Len(ring)
          BY <2>0
        <5> QED
          BY <3>1, <4>2, <5>1, <5>2
      <4> QED
        BY <4>1, <4>2
    <3>4. \A p \in Pids : processes'[p] = 1 <=> \E j \in 1 .. Len(ring) : ring[j].pid = p
      BY <1>1, <2>6 DEF IInv, PidTableExact
    <3>5. \A j, k \in 1 .. Len(ring) : ring[j].pid = ring[k].pid /\ j # k => ring[j].pid = -1
      BY <1>1 DEF IInv, PidTableExact
    <3>6. \A j, k \in 1 .. Len(ring) : ring'[j].pid = ring'[k].pid /\ j # k => ring'[j].pid = -1
      <4> TAKE j, k \in 1 .. Len(ring)
      <4> HAVE ring'[j].pid = ring'[k].pid /\ j # k
      <4>1. CASE j = Len(ring)
        <5>1. k + 1 \in 1 .. Len(ring) /\ 1 \in 1 .. Len(ring) /\ k + 1 # 1
          BY <2>0, <4>1
        <5>2. ring'[j].pid = ring[1].pid /\ ring'[k].pid = ring[k + 1].pid
          BY <2>0, <3>1, <4>1
        <5> QED
          BY <3>5, <5>1, <5>2
      <4>2. CASE k = Len(ring)
        <5>1. j + 1 \in 1 .. Len(ring) /\ 1 \in 1 .. Len(ring) /\ j + 1 # 1
          BY <2>0, <4>2
        <5>2. ring'[k].pid = ring[1].pid /\ ring'[j].pid = ring[j + 1].pid
          BY <2>0, <3>1, <4>2
        <5> QED
          BY <3>5, <5>1, <5>2
      <4>3. CASE j # Len(ring) /\ k # Len(ring)
        <5>1. j + 1 \in 1 .. Len(ring) /\ k + 1 \in 1 .. Len(ring) /\ j + 1 # k + 1
          BY <2>0, <4>3
        <5>2. ring'[k].pid = ring[k + 1].pid /\ ring'[j].pid = ring[j + 1].pid
          BY <2>0, <3>1, <4>3
        <5> QED
          BY <3>5, <5>1, <5>2
      <4> QED
        BY <4>1, <4>2, <4>3
    <3>7. \A p \in Pids : processes'[p] = 1 <=> \E j \in 1 .. Len(ring) : ring'[j].pid = p
      <4> TAKE p \in Pids
      <4>1. ASSUME NEW j \in 1 .. Len(ring), ring[j].pid = p
            PROVE  \E k \in 1 .. Len(ring) : ring'[k].pid = p
        BY <2>0, <3>2, <4>1
      <4>2. ASSUME NEW k \in 1 .. Len(ring), ring'[k].pid = p
            PROVE  \E j \in 1 .. Len(ring) : ring[j].pid = p
        BY <2>0, <3>1, <4>2
      <4> QED
        BY <3>4, <4>1, <4>2
    <3> QED
      BY <2>10, <3>6, <3>7 DEF PidTableExact
  <2>14. IdleNeverDies'
    <3>1. PICK j \in 1 .. Len(ring) :
             ring[j].pid = 1 /\ ring[j].op = "idle" /\ ring[j].state # "ZOMBIE"
      BY <1>1 DEF IInv, IdleNeverDies
    <3>2. CASE j = 1
      BY <1>1, <2>4, <2>9, <2>10, <3>1, <3>2 DEF IdleNeverDies
    <3>3. CASE j = 2
      BY <1>1, <2>5, <2>9, <2>10, <3>1, <3>3 DEF IdleNeverDies
    <3>4. CASE j > 2
      <4>1. j - 1 \in 1 .. Len(ring) /\ ring'[j - 1] = ring[j]
        BY <1>1, <2>9, <3>4
      <4> QED
        BY <2>10, <3>1, <4>1 DEF IdleNeverDies
    <3> QED
      BY <1>1, <3>2, <3>3, <3>4
  <2> QED
    BY <2>11, <2>12, <2>13, <2>14 DEF IInv
<1> QED
  BY <1>1, <1>3, <1>4

\* kill_process() turns the current process into a zombie and changes
\* nothing but ppid elsewhere.
LEMMA KillProcessProperties ==
    ASSUME IInv
    PROVE  /\ kill_process \in Seq(kern_thread)
           /\ Len(kill_process) = Len(ring)
           /\ kill_process[1].pid = ring[1].pid
           /\ kill_process[1].state \in {"RUNNING", "ZOMBIE"}
           /\ \A i \in 2 .. Len(ring) : /\ kill_process[i].pid = ring[i].pid
                                        /\ kill_process[i].state = ring[i].state
                                        /\ kill_process[i].op = ring[i].op
<1> USE ProcessAssumption
<1>1. /\ Len(ring) \in Nat \ {0} /\ DOMAIN ring = 1 .. Len(ring)
      /\ \A j \in 1 .. Len(ring) : ring[j] \in kern_thread
  BY RingFacts DEF IInv
<1>2. CASE Len(ring) = 1
  BY <1>1, <1>2 DEF kill_process, IInv, TypeOK, OneRunner
<1>3. CASE Len(ring) # 1
  <2> DEFINE k(i) == IF i = 1 THEN [ring[1] EXCEPT !.state = "ZOMBIE"]
                     ELSE IF ring[i].ppid = ring[1].pid THEN [ring[i] EXCEPT !.ppid = 1]
                     ELSE ring[i]
  <2>1. kill_process = [i \in 1 .. Len(ring) |-> k(i)]
    BY <1>1, <1>3 DEF kill_process
  <2>2. \A i \in 1 .. Len(ring) :
           /\ k(i) \in kern_thread
           /\ k(i).pid = ring[i].pid /\ k(i).op = ring[i].op
           /\ i = 1 => k(i).state = "ZOMBIE"
           /\ i # 1 => k(i).state = ring[i].state
    BY <1>1 DEF kern_thread, States, Pids
  <2> HIDE DEF k
  <2>3. kill_process \in [1 .. Len(ring) -> kern_thread]
    BY <2>1, <2>2
  <2>4. kill_process \in Seq(kern_thread) /\ Len(kill_process) = Len(ring)
    BY <1>1, <2>3, FunctionIsSeq
  <2>5. 1 \in 1 .. Len(ring) /\ \A i \in 2 .. Len(ring) : i \in 1 .. Len(ring) /\ i # 1
    BY <1>1
  <2> QED
    BY <2>1, <2>2, <2>4, <2>5
<1> QED
  BY <1>2, <1>3

\* One round of the loop of wait() and wait_pid() keeps IInv.
LEMMA WaitRoundKeepsIInv ==
    ASSUME IInv, ring[1].op # "idle",
           NEW STATE op, op \in {"wait", "waitpid"}, NEW STATE p, p \in PidArgs,
           NEW STATE visit, visit \in SUBSET Others, WaitRound(op, p, visit)
    PROVE  IInv'
<1> USE ProcessAssumption
<1>1. /\ Len(ring) \in Nat \ {0} /\ DOMAIN ring = 1 .. Len(ring)
      /\ \A j \in 1 .. Len(ring) : ring[j] \in kern_thread
      /\ ring \in [1 .. Len(ring) -> kern_thread]
  BY RingFacts DEF IInv
<1>2. 1 \in 1 .. Len(ring)
  BY <1>1
<1>3. pc \in {"run", "scheduler"}
      /\ sysret \in [call : Results, arg : PidArgs, val : -1 .. MAX_P - 1]
  BY DEF IInv, TypeOK
<1> DEFINE At(o, a) == [ring EXCEPT ![1].op = o, ![1].arg = a]
           children == {i \in visit : IsChild(i, op, p)}
           exited   == {i \in children : ring[i].state = "ZOMBIE"}
<1>4. ASSUME NEW STATE o, o \in Ops, NEW STATE a, a \in PidArgs
      PROVE  /\ At(o, a) \in Seq(kern_thread) /\ Len(At(o, a)) = Len(ring)
             /\ At(o, a)[1].pid = ring[1].pid
             /\ At(o, a)[1].state = ring[1].state
             /\ \A j \in 2 .. Len(ring) : At(o, a)[j] = ring[j]
  <2> DEFINE h == [[ring[1] EXCEPT !.op = o] EXCEPT !.arg = a]
  <2>1. h \in kern_thread /\ h.pid = ring[1].pid /\ h.state = ring[1].state
    BY <1>1, <1>2, <1>4 DEF kern_thread
  <2>2. At(o, a) = [ring EXCEPT ![1] = h]
    BY <1>1, <1>2
  <2> HIDE DEF h, At
  <2>3. /\ [ring EXCEPT ![1] = h] \in [1 .. Len(ring) -> kern_thread]
        /\ [ring EXCEPT ![1] = h][1] = h
        /\ \A j \in 2 .. Len(ring) : [ring EXCEPT ![1] = h][j] = ring[j]
    BY <1>1, <1>2, <2>1
  <2>4. At(o, a) \in Seq(kern_thread) /\ Len(At(o, a)) = Len(ring)
    BY <1>1, <2>2, <2>3, FunctionIsSeq
  <2> QED
    BY <2>1, <2>2, <2>3, <2>4
<1>5. /\ "none" \in Ops /\ op \in Ops /\ 0 \in PidArgs /\ op \in Results
      /\ -1 \in -1 .. MAX_P - 1
  BY DEF Ops, PidArgs, Results, AllSyscalls
<1> HIDE DEF At
<1>6. \/ \E i \in exited : /\ reap_process(At("none", 0), i)
                           /\ Return(op, p, ring[i].pid)
                           /\ UNCHANGED pc
      \/ /\ CallScheduler(At(op, p))
         /\ UNCHANGED <<processes, sysret>>
      \/ /\ ring' = At("none", 0)
         /\ Return(op, p, -1)
         /\ UNCHANGED <<processes, pc>>
  BY DEF WaitRound, At
<1>7. ring[1].state \in {"RUNNING", "ZOMBIE"}
  BY DEF IInv, OneRunner
<1>8. ASSUME NEW i \in exited, reap_process(At("none", 0), i), Return(op, p, ring[i].pid),
             UNCHANGED pc
      PROVE  IInv'
  <2>1. i \in 2 .. Len(ring) /\ ring[i].state = "ZOMBIE"
    BY DEF Others
  <2>2. sysret' \in [call : Results, arg : PidArgs, val : -1 .. MAX_P - 1]
    <3>1. ring[i].pid \in -1 .. MAX_P - 1
      BY <1>1, <2>1 DEF kern_thread, Pids
    <3> QED
      BY <1>5, <1>8, <3>1 DEF Return
  <2>3. \A j \in 1 .. Len(ring) : At("none", 0)[j].pid = ring[j].pid
                                 /\ At("none", 0)[j].state = ring[j].state
    BY <1>1, <1>4, <1>5
  <2>4. /\ At("none", 0) \in Seq(kern_thread) /\ Len(At("none", 0)) = Len(ring)
        /\ At("none", 0)[i].state = "ZOMBIE"
        /\ \A j \in 2 .. Len(ring) : At("none", 0)[j].op = ring[j].op
    BY <1>4, <1>5, <2>1
  <2>5. pc' \in {"run", "scheduler"}
    BY <1>3, <1>8
  <2>6. reap_process(At("none", 0), i)
    BY <1>8
  <2> HIDE DEF exited
  <2> QED
    BY <2>1, <2>2, <2>3, <2>4, <2>5, <2>6, Removal
<1>9. CASE CallScheduler(At(op, p)) /\ UNCHANGED <<processes, sysret>>
  <2>1. ring' = At(op, p) /\ pc' = "scheduler" /\ processes' = processes /\ sysret' = sysret
    BY <1>9 DEF CallScheduler
  <2> QED
    BY <1>3, <1>4, <1>5, <1>7, <2>1, HeadChange
<1>10. CASE ring' = At("none", 0) /\ Return(op, p, -1) /\ UNCHANGED <<processes, pc>>
  <2>1. sysret' \in [call : Results, arg : PidArgs, val : -1 .. MAX_P - 1]
    BY <1>5, <1>10 DEF Return
  <2> QED
    BY <1>3, <1>4, <1>5, <1>7, <1>10, <2>1, HeadChange
<1> QED
  BY <1>6, <1>8, <1>9, <1>10

\* Every step of the system keeps IInv, one case per action.
LEMMA NextIInv == IInv /\ [Next]_vars => IInv'
<1> SUFFICES ASSUME IInv, [Next]_vars PROVE IInv'
  OBVIOUS
<1> USE ProcessAssumption
<1>1. /\ Len(ring) \in Nat \ {0}
      /\ ring \in Seq(kern_thread)
      /\ \A j \in 1 .. Len(ring) : ring[j] \in kern_thread
      /\ ring \in [1 .. Len(ring) -> kern_thread]
  BY RingFacts DEF IInv, TypeOK
<1>2. /\ pc \in {"run", "scheduler"}
      /\ sysret \in [call : Results, arg : PidArgs, val : -1 .. MAX_P - 1]
      /\ ring[1].state \in {"RUNNING", "ZOMBIE"}
      /\ 1 \in 1 .. Len(ring)
  BY <1>1 DEF IInv, TypeOK, OneRunner
<1>3. CASE wait_all
  <2>1. PICK i \in WaitAllZombies : reap_process(ring, i)
    BY <1>3 DEF wait_all
  <2>2. i \in 2 .. Len(ring) /\ ring[i].state = "ZOMBIE"
    BY DEF WaitAllZombies, Others
  <2>3. pc' = pc /\ sysret' = sysret
    BY <1>3 DEF wait_all
  <2> QED
    BY <1>1, <1>2, <2>1, <2>2, <2>3, Removal
<1>4. CASE switch_process
  BY <1>4, SwitchKeepsIInv
<1>5. CASE init_scheduler \/ yield
  <2>1. ring' = ring /\ processes' = processes /\ pc' = "scheduler"
    BY <1>5 DEF init_scheduler, yield, CallScheduler
  <2>2. sysret' \in [call : Results, arg : PidArgs, val : -1 .. MAX_P - 1]
    BY <1>2, <1>5 DEF init_scheduler, yield, Return, Results, AllSyscalls, PidArgs
  <2> QED
    BY <1>1, <1>2, <2>1, <2>2, HeadChange
<1>6. CASE fork
  BY <1>6, ForkKeepsIInv
<1>7. ASSUME NEW found \in BOOLEAN, exec_vpe(found)
      PROVE  IInv'
  <2>1. ring[1].op # "idle" /\ processes' = processes /\ pc' = pc
    BY <1>7 DEF exec_vpe, Issues
  <2>2. sysret' \in [call : Results, arg : PidArgs, val : -1 .. MAX_P - 1]
    BY <1>7 DEF exec_vpe, Return, Results, AllSyscalls, PidArgs
  <2>3. CASE ring' = ring
    BY <1>1, <1>2, <2>1, <2>2, <2>3, HeadChange
  <2>4. CASE ring' = [ring EXCEPT ![1].state = "RUNNING"]
    <3> DEFINE h == [ring[1] EXCEPT !.state = "RUNNING"]
               r == [ring EXCEPT ![1] = h]
    <3>1. h \in kern_thread /\ h.pid = ring[1].pid /\ h.state = "RUNNING"
      BY <1>1, <1>2 DEF kern_thread, States
    <3>2. ring' = r
      BY <2>4
    <3> HIDE DEF h
    <3>3. /\ r \in [1 .. Len(ring) -> kern_thread]
          /\ r[1] = h
          /\ \A j \in 2 .. Len(ring) : r[j] = ring[j]
      BY <1>1, <1>2, <3>1
    <3>4. r \in Seq(kern_thread) /\ Len(r) = Len(ring)
      BY <1>1, <3>3, FunctionIsSeq
    <3> HIDE DEF r
    <3> QED
      BY <1>2, <2>1, <2>2, <3>1, <3>2, <3>3, <3>4, HeadChange
  <2> QED
    BY <1>7, <2>3, <2>4 DEF exec_vpe
<1>8. CASE exit_current_process
  <2>1. /\ ring[1].op # "idle" /\ ring' = kill_process /\ pc' = "scheduler"
        /\ processes' = processes /\ sysret' = sysret
    BY <1>8 DEF exit_current_process, Issues, CallScheduler
  <2> QED
    BY <1>2, <2>1, KillProcessProperties, HeadChange
<1>9. ASSUME NEW p \in PidArgs, kill_kern(p)
      PROVE  IInv'
  <2>1. ring[1].op # "idle" /\ processes' = processes /\ pc' = pc
    BY <1>9 DEF kill_kern, Issues
  <2>2. \/ ring' = ring /\ Return("kill", p, -1)
        \/ ring' = kill_process /\ Return("kill", p, 0)
    BY <1>9 DEF kill_kern, KillCaller
  <2>3. sysret' \in [call : Results, arg : PidArgs, val : -1 .. MAX_P - 1]
    BY <2>2 DEF Return, Results, AllSyscalls
  <2>4. CASE ring' = ring
    BY <1>1, <1>2, <2>1, <2>3, <2>4, HeadChange
  <2>5. CASE ring' = kill_process
    BY <1>2, <2>1, <2>3, <2>5, KillProcessProperties, HeadChange
  <2> QED
    BY <2>2, <2>4, <2>5
<1>10. CASE wait
  <2>1. ring[1].op # "idle" /\ WaitRound("wait", 0, Others) /\ 0 \in PidArgs
    BY <1>10 DEF wait, Issues, PidArgs
  <2> QED
    BY <2>1, WaitRoundKeepsIInv
<1>11. ASSUME NEW p \in PidArgs, wait_pid(p)
       PROVE  IInv'
  <2>1. ring[1].op # "idle" /\ WaitRound("waitpid", p, Others)
    BY <1>11 DEF wait_pid, Issues
  <2> QED
    BY <2>1, WaitRoundKeepsIInv
<1>12. CASE wait_resumed
  <2>1. /\ ring[1].op \in {"wait", "waitpid"} /\ ring[1].op # "idle"
        /\ WaitRound(ring[1].op, ring[1].arg, LeftToVisit)
    BY <1>12 DEF wait_resumed
  <2>2. ring[1].arg \in PidArgs /\ LeftToVisit \in SUBSET Others
    BY <1>1, <1>2 DEF kern_thread, LeftToVisit
  <2> QED
    BY <2>1, <2>2, WaitRoundKeepsIInv
<1>13. CASE UNCHANGED vars
  <2>1. ring' = ring /\ processes' = processes /\ pc' = pc /\ sysret' = sysret
    BY <1>13 DEF vars
  <2> QED
    BY <1>1, <1>2, <2>1, HeadChange
<1> QED
  BY <1>3, <1>4, <1>5, <1>6, <1>7, <1>8, <1>9, <1>10, <1>11, <1>12, <1>13 DEF Next

\* IInv holds in every reachable state of the scheduler and its system calls.
THEOREM Invariance == Spec => []IInv
BY InitIInv, NextIInv, PTL DEF Spec

\* Every pid that fork(), exec_vpe() and the reaper leave on the run list is
\* inside the table or -1, and the list is never empty.
THEOREM TypeCorrect == Spec => []TypeOK
BY Invariance, PTL DEF IInv

\* Exactly the current process is RUNNING, or has just turned itself into a
\* zombie, and no zombie survives a second pass through scheduler().
THEOREM SchedulerState == Spec => [](OneRunner /\ ZombieWaitsLast)
BY Invariance, PTL DEF IInv

\* The pid table marks exactly the pids on the run list and no two processes
\* share one, however often getPID() hands out a reaped pid again.
THEOREM PidsExact == Spec => []PidTableExact
BY Invariance, PTL DEF IInv

\* No sequence of kill, exit and wait takes the idle process off the run list
\* or turns it into a zombie.
THEOREM IdleSurvives == Spec => []IdleNeverDies
BY Invariance, PTL DEF IInv

\* switch_process() always finds a queued process: the branch that starts the
\* shell again, which would cut the list to two processes, is never taken.
THEOREM RestartIsDeadCode == Spec => []SchedulerFindsNext
<1>1. IInv => SchedulerFindsNext
  <2> SUFFICES ASSUME IInv, WaitAllZombies = {}, Len(ring) > 1
               PROVE  /\ \E i \in Others : ring[i].state = "QUEUED"
                      /\ ring[1].state \in {"RUNNING", "ZOMBIE"}
    BY DEF SchedulerFindsNext
  <2>1. Len(ring) \in Nat /\ \A i \in 1 .. Len(ring) : ring[i] \in kern_thread
    BY RingFacts DEF IInv
  <2>2. 2 \in Others /\ 2 \in 1 .. Len(ring)
    BY <2>1 DEF Others
  <2>3. ring[2].state \in States /\ ring[2].state # "RUNNING" /\ ring[2].state # "ZOMBIE"
    BY <2>1, <2>2 DEF kern_thread, IInv, OneRunner, WaitAllZombies
  <2> QED
    BY <2>2, <2>3 DEF States, IInv, OneRunner
<1> QED
  BY <1>1, Invariance, PTL

\* What scheduler() relies on holds in every state: one process runs, at most one
\* zombie is left behind, the idle process lives, and a queued one is found.
THEOREM SchedulerIsSound == Spec => []SchedulerSound
BY SchedulerState, IdleSurvives, RestartIsDeadCode, PTL DEF SchedulerSound

\* A step leaves the pid of a process that is not a zombie marked in the table.
LEMMA OwnedPidStays ==
    ASSUME IInv, [Next]_vars, NEW i \in DOMAIN ring,
           ring[i].state # "ZOMBIE", ring[i].pid # -1
    PROVE  processes'[ring[i].pid] = 1
<1> USE ProcessAssumption
<1> DEFINE p == ring[i].pid
<1>1. /\ Len(ring) \in Nat \ {0} /\ DOMAIN ring = 1 .. Len(ring)
      /\ processes \in [0 .. MAX_P - 1 -> {0, 1}]
      /\ p \in Pids
  BY RingFacts DEF IInv, TypeOK, kern_thread
<1>2. processes[p] = 1
  BY <1>1 DEF IInv, PidTableExact
<1>3. \A j \in 1 .. Len(ring) : ring[j].state = "ZOMBIE" => ring[j].pid # p
  BY <1>1 DEF IInv, PidTableExact
<1>4. p \in DOMAIN processes
  BY <1>1 DEF Pids
<1>5. ASSUME NEW STATE r, NEW j \in 1 .. Len(ring), ring[j].state = "ZOMBIE",
             r[j].pid = ring[j].pid, reap_process(r, j)
      PROVE  processes'[p] = 1
  BY <1>2, <1>3, <1>4, <1>5 DEF reap_process
<1>6. ASSUME NEW q, processes' = Marked(q)
      PROVE  processes'[p] = 1
  BY <1>2, <1>4, <1>6 DEF Marked
<1>7. ASSUME NEW STATE op, NEW STATE a, NEW STATE visit, visit \in SUBSET Others,
             WaitRound(op, a, visit)
      PROVE  processes'[p] = 1
  <2> DEFINE u == [ring EXCEPT ![1].op = "none", ![1].arg = 0]
  <2>1. CASE processes' = processes
    BY <1>2, <2>1
  <2>2. CASE \E j \in visit : ring[j].state = "ZOMBIE" /\ reap_process(u, j)
    <3>1. PICK j \in visit : ring[j].state = "ZOMBIE" /\ reap_process(u, j)
      BY <2>2
    <3>2. j \in 2 .. Len(ring) /\ j \in 1 .. Len(ring) /\ j # 1
      BY <1>1, <1>7 DEF Others
    <3>3. u[j] = ring[j]
      BY <1>1, <3>2
    <3> QED
      BY <1>5, <3>1, <3>2, <3>3
  <2> QED
    BY <1>7, <2>1, <2>2 DEF WaitRound
<1>8. CASE wait_all
  BY <1>1, <1>5, <1>8 DEF wait_all, WaitAllZombies, Others
<1>9. CASE switch_process
  BY <1>2, <1>6, <1>9 DEF switch_process, create_process, SwitchTo
<1>10. CASE fork
  BY <1>6, <1>10 DEF fork
<1>11. CASE wait
  BY <1>7, <1>11 DEF wait
<1>12. CASE \E a \in PidArgs : wait_pid(a)
  BY <1>7, <1>12 DEF wait_pid
<1>13. CASE wait_resumed
  BY <1>7, <1>13 DEF wait_resumed, LeftToVisit
<1>14. CASE \/ init_scheduler \/ yield \/ exit_current_process \/ UNCHANGED vars
            \/ \E found \in BOOLEAN : exec_vpe(found)
            \/ \E a \in PidArgs : kill_kern(a)
  <2>1. processes' = processes
    BY <1>14 DEF init_scheduler, yield, exit_current_process, exec_vpe, kill_kern, vars
  <2> QED
    BY <1>2, <2>1
<1> QED
  BY <1>8, <1>9, <1>10, <1>11, <1>12, <1>13, <1>14 DEF Next

\* A process leaves the run list only as a zombie: the relinking in fork(),
\* exec_vpe(), reap_process() and switch_process() loses nobody who could run.
THEOREM NothingLost == Spec => NoProcessLost
<1> DEFINE Kept ==
      \A i \in DOMAIN ring : ring[i].state # "ZOMBIE" /\ ring[i].pid # -1 =>
         \E j \in 1 .. Len(ring') : ring'[j].pid = ring[i].pid
<1>1. IInv /\ IInv' /\ [Next]_vars => [Kept]_vars
  <2> SUFFICES ASSUME IInv, IInv', [Next]_vars, NEW i \in DOMAIN ring,
                      ring[i].state # "ZOMBIE", ring[i].pid # -1
               PROVE  \E j \in 1 .. Len(ring') : ring'[j].pid = ring[i].pid
    OBVIOUS
  <2>1. processes'[ring[i].pid] = 1
    BY OwnedPidStays
  <2>2. ring[i].pid \in Pids
    BY RingFacts DEF IInv, kern_thread
  <2>3. DOMAIN ring' = 1 .. Len(ring')
    BY LenProperties DEF IInv, TypeOK
  <2> QED
    BY <2>1, <2>2, <2>3 DEF IInv, PidTableExact
<1> QED
  BY <1>1, Invariance, PTL DEF Spec, NoProcessLost
=============================================================================
