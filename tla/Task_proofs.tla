----------------------------- MODULE Task_proofs ----------------------------
(***************************************************************************)
(* Proofs about a task as the kernel runs and interrupts it.               *)
(*                                                                         *)
(* Sched, for any set of user tasks: the run list and the task list stay   *)
(* consistent, the scheduler never panics, and the CPU always holds the    *)
(* current task's context; and the run list, followed by its pointers, is  *)
(* the round-robin queue of SchedAbs.                                      *)
(*                                                                         *)
(* Signal: handlers nest without re-entering and give back what they       *)
(* interrupted, for any actions, masks and depth.                          *)
(***************************************************************************)
EXTENDS Sched, Signal, WellFoundedInduction, TLAPS

(* ── The scheduler ─────────────────────────────────────────────────────── *)

\* Both pointers of every node of a run list, with the sentinel linked.
Linked(nr, pr) ==
  /\ nr \in [Node -> Node \cup {NULL}]
  /\ pr \in [Node -> Node \cup {NULL}]
  /\ nr[Sentinel] # NULL
  /\ \A n \in Node :
       /\ nr[n] = NULL <=> pr[n] = NULL
       /\ nr[n] # NULL => /\ nr[n] \in Node /\ pr[nr[n]] = n
                          /\ pr[n] \in Node /\ nr[pr[n]] = n

\* The tasks of a run list can be numbered in list order: apart from the
\* sentinel's own cycle the list has none, so no task is its own successor.
Ordered(nr) ==
  \E r \in [Node -> Nat] : \A n \in Node : nr[n] \notin {NULL, Sentinel} => r[n] < r[nr[n]]

\* run_list_insert_locked keeps the list linked, adds t and nothing else, and
\* keeps a head that is already there.
LEMMA InsertLinked ==
  ASSUME NEW nr, NEW pr, NEW t \in Task, Linked(nr, pr)
  PROVE  /\ Linked(InsertNext(nr, pr, t), InsertPrev(nr, pr, t))
         /\ \A n \in Node : InsertNext(nr, pr, t)[n] # NULL <=> nr[n] # NULL \/ n = t
         /\ nr[Sentinel] # Sentinel => InsertNext(nr, pr, t)[Sentinel] = nr[Sentinel]
         /\ nr[Sentinel] = Sentinel /\ nr[t] = NULL => InsertNext(nr, pr, t)[Sentinel] = t
<1>1. CASE nr[t] # NULL
  BY <1>1, TaskAssumption, Zenon DEF InsertNext, InsertPrev, Linked, Node, Task
<1>2. CASE nr[t] = NULL
  <2> DEFINE tail == pr[Sentinel]
             nr2 == [nr EXCEPT ![t] = Sentinel, ![tail] = t]
             pr2 == [pr EXCEPT ![t] = tail, ![Sentinel] = t]
  <2>1. /\ InsertNext(nr, pr, t) = nr2 /\ InsertPrev(nr, pr, t) = pr2
        /\ t \in Node /\ t # Sentinel /\ Sentinel \in Node /\ NULL \notin Node
        /\ tail \in Node /\ tail # t /\ nr[tail] = Sentinel
    BY <1>2, TaskAssumption, Zenon DEF InsertNext, InsertPrev, Linked, Node, Task
  <2>2. /\ nr2 \in [Node -> Node \cup {NULL}] /\ pr2 \in [Node -> Node \cup {NULL}]
        /\ nr2[t] = Sentinel /\ nr2[tail] = t /\ pr2[t] = tail /\ pr2[Sentinel] = t
        /\ \A n \in Node : n \notin {t, tail} => nr2[n] = nr[n]
        /\ \A n \in Node : n \notin {t, Sentinel} => pr2[n] = pr[n]
    BY <2>1 DEF Linked
  <2> HIDE DEF nr2, pr2
  <2>3. Linked(nr2, pr2)
    BY <1>2, <2>1, <2>2 DEF Linked
  <2>4. \A n \in Node : nr2[n] # NULL <=> nr[n] # NULL \/ n = t
    BY <1>2, <2>1, <2>2 DEF Linked
  <2>5. /\ nr[Sentinel] # Sentinel => nr2[Sentinel] = nr[Sentinel]
        /\ nr[Sentinel] = Sentinel => nr2[Sentinel] = t
    BY <2>1, <2>2 DEF Linked
  <2> QED BY <2>1, <2>3, <2>4, <2>5, Zenon
<1> QED BY <1>1, <1>2, Zenon

\* run_list_remove_locked keeps the list linked, drops t and nothing else, and
\* keeps a head other than t.
LEMMA RemoveLinked ==
  ASSUME NEW nr, NEW pr, NEW t \in Task, Linked(nr, pr)
  PROVE  /\ Linked(RemoveNext(nr, pr, t), RemovePrev(nr, pr, t))
         /\ \A n \in Node : RemoveNext(nr, pr, t)[n] # NULL <=> nr[n] # NULL /\ n # t
         /\ nr[Sentinel] # t => RemoveNext(nr, pr, t)[Sentinel] = nr[Sentinel]
<1>1. CASE nr[t] = NULL
  BY <1>1, TaskAssumption, Zenon DEF RemoveNext, RemovePrev, Linked, Node, Task
<1>2. CASE nr[t] # NULL
  <2> DEFINE p == pr[t]
             f == nr[t]
             nr2 == [nr EXCEPT ![p] = f, ![t] = NULL]
             pr2 == [pr EXCEPT ![f] = p, ![t] = NULL]
  <2>1. /\ RemoveNext(nr, pr, t) = nr2 /\ RemovePrev(nr, pr, t) = pr2
        /\ t \in Node /\ t # Sentinel /\ Sentinel \in Node /\ NULL \notin Node
        /\ p \in Node /\ f \in Node /\ nr[p] = t /\ pr[f] = t
    BY <1>2, TaskAssumption, Zenon DEF RemoveNext, RemovePrev, Linked, Node, Task
  <2>2. /\ nr2 \in [Node -> Node \cup {NULL}] /\ pr2 \in [Node -> Node \cup {NULL}]
        /\ nr2[t] = NULL /\ (p # t => nr2[p] = f) /\ pr2[t] = NULL /\ (f # t => pr2[f] = p)
        /\ \A n \in Node : n \notin {t, p} => nr2[n] = nr[n]
        /\ \A n \in Node : n \notin {t, f} => pr2[n] = pr[n]
    BY <2>1 DEF Linked
  <2>3. p = t <=> f = t
    BY <2>1, Zenon DEF Linked
  <2> HIDE DEF nr2, pr2
  <2>4. \A n \in Node : nr2[n] # NULL <=> nr[n] # NULL /\ n # t
    BY <1>2, <2>1, <2>2 DEF Linked
  <2>5. Linked(nr2, pr2)
    BY <1>2, <2>1, <2>2, <2>3, <2>4 DEF Linked
  <2>6. nr[Sentinel] # t => nr2[Sentinel] = nr[Sentinel]
    BY <2>1, <2>2, Zenon DEF Linked
  <2> QED BY <2>1, <2>4, <2>5, <2>6, Zenon
<1> QED BY <1>1, <1>2, Zenon
\* A task inserted at the tail is numbered after the old tail.
LEMMA InsertOrdered ==
  ASSUME NEW nr, NEW pr, NEW t \in Task, Linked(nr, pr), Ordered(nr)
  PROVE  Ordered(InsertNext(nr, pr, t))
<1>1. CASE nr[t] # NULL
  BY <1>1, Zenon DEF InsertNext
<1>2. CASE nr[t] = NULL
  <2> DEFINE tail == pr[Sentinel]
             nr2 == [nr EXCEPT ![t] = Sentinel, ![tail] = t]
  <2>1. /\ InsertNext(nr, pr, t) = nr2 /\ t \in Node /\ t # Sentinel /\ Sentinel \in Node
        /\ NULL \notin Node /\ tail \in Node /\ tail # t /\ nr[tail] = Sentinel
        /\ nr \in [Node -> Node \cup {NULL}]
        /\ \A n \in Node : nr[n] # t
    BY <1>2, TaskAssumption, Zenon DEF InsertNext, Linked, Node, Task
  <2>2. PICK r \in [Node -> Nat] :
          \A n \in Node : nr[n] \notin {NULL, Sentinel} => r[n] < r[nr[n]]
    BY Zenon DEF Ordered
  <2> DEFINE r2 == [r EXCEPT ![t] = r[tail] + 1]
  <2>3. r2 \in [Node -> Nat] /\ r2[t] = r[tail] + 1 /\ \A n \in Node : n # t => r2[n] = r[n]
    BY <2>1, <2>2
  <2>4. nr2[t] = Sentinel /\ nr2[tail] = t /\ \A n \in Node : n \notin {t, tail} => nr2[n] = nr[n]
    BY <2>1, Zenon
  <2> HIDE DEF r2, nr2
  <2>5. ASSUME NEW n \in Node, nr2[n] \notin {NULL, Sentinel} PROVE r2[n] < r2[nr2[n]]
    <3>1. CASE n = tail
      BY <3>1, <2>1, <2>2, <2>3, <2>4
    <3>2. CASE n # tail
      <4>1. n # t /\ nr2[n] = nr[n] /\ nr[n] \in Node /\ nr[n] # t
        BY <3>2, <2>1, <2>4, <2>5, Zenon
      <4> QED BY <4>1, <2>2, <2>3, <2>5, Zenon
    <3> QED BY <3>1, <3>2, Zenon
  <2> QED BY <2>1, <2>3, <2>5, Zenon DEF Ordered
<1> QED BY <1>1, <1>2, Zenon

\* Unlinking keeps the numbering: the follower comes after the predecessor.
LEMMA RemoveOrdered ==
  ASSUME NEW nr, NEW pr, NEW t \in Task, Linked(nr, pr), Ordered(nr)
  PROVE  Ordered(RemoveNext(nr, pr, t))
<1>1. CASE nr[t] = NULL
  BY <1>1, Zenon DEF RemoveNext
<1>2. CASE nr[t] # NULL
  <2> DEFINE p == pr[t]
             f == nr[t]
             nr2 == [nr EXCEPT ![p] = f, ![t] = NULL]
  <2>1. /\ RemoveNext(nr, pr, t) = nr2 /\ t \in Node /\ t # Sentinel /\ t # NULL
        /\ NULL \notin Node /\ p \in Node /\ f \in Node /\ nr[p] = t
        /\ nr \in [Node -> Node \cup {NULL}]
    BY <1>2, TaskAssumption, Zenon DEF RemoveNext, Linked, Node, Task
  <2>2. PICK r \in [Node -> Nat] :
          \A n \in Node : nr[n] \notin {NULL, Sentinel} => r[n] < r[nr[n]]
    BY Zenon DEF Ordered
  <2>3. nr2[t] = NULL /\ (p # t => nr2[p] = f) /\ \A n \in Node : n \notin {t, p} => nr2[n] = nr[n]
    BY <2>1, Zenon
  <2> HIDE DEF nr2
  <2>4. ASSUME NEW n \in Node, nr2[n] \notin {NULL, Sentinel} PROVE r[n] < r[nr2[n]]
    <3>1. n # t
      BY <2>3, <2>4, Zenon
    <3>2. CASE n = p
      <4>1. nr2[n] = f /\ f # Sentinel /\ f # NULL
        BY <3>1, <3>2, <2>1, <2>3, <2>4, Zenon
      <4>2. r[p] < r[t] /\ r[t] < r[f]
        BY <4>1, <2>1, <2>2, Zenon
      <4>3. r[p] \in Nat /\ r[t] \in Nat /\ r[f] \in Nat
        BY <2>1, <2>2, Zenon
      <4> QED BY <3>2, <4>1, <4>2, <4>3
    <3>3. CASE n # p
      BY <3>1, <3>3, <2>2, <2>3, <2>4, Zenon
    <3> QED BY <3>2, <3>3, Zenon
  <2> QED BY <2>1, <2>2, <2>4, Zenon DEF Ordered
<1> QED BY <1>1, <1>2, Zenon
-----------------------------------------------------------------------------
(* The inductive invariant.                                                *)

FullInv == IInv /\ Ordered(next_run)

\* The invariant says that next_run and prev_run form one list.
LEMMA InvLinked == ASSUME IInv PROVE Linked(next_run, prev_run)
BY Zenon DEF IInv, TypeOK, RunListLinked, IdleHeads, Linked

\* ... and such a list in the next state gives back its part of it.
LEMMA LinkedInv ==
  ASSUME Linked(next_run, prev_run)' PROVE RunListLinked' /\ (next_run[Sentinel] # NULL)'
BY Zenon DEF RunListLinked, Linked

\* A task that leaves the run list has a runnable successor other than itself.
LEMMA SuccessorRuns ==
  ASSUME NEW nr, NEW pr, Linked(nr, pr), Ordered(nr), nr[Sentinel] = Idle,
         NEW c \in User, nr[c] # NULL
  PROVE  LET to == Successor(RemoveNext(nr, pr, c), nr[c])
         IN  to \in Task /\ to # c /\ nr[to] # NULL
<1>1. c \in Task /\ c \in Node /\ Idle \in Task /\ Idle # c /\ c # Sentinel /\ c # NULL
      /\ Sentinel \in Node /\ NULL \notin Node /\ Sentinel \notin Task /\ Idle \in Node
  BY TaskAssumption, Zenon DEF Task, Node
<1>2. RemoveNext(nr, pr, c)[Sentinel] = Idle
  BY <1>1, RemoveLinked, Zenon
<1>3. nr[c] # c
  <2>1. PICK r \in [Node -> Nat] : \A n \in Node : nr[n] \notin {NULL, Sentinel} => r[n] < r[nr[n]]
    BY Zenon DEF Ordered
  <2> QED BY <1>1, <2>1
<1>4. nr[Idle] # NULL
  BY <1>1, Zenon DEF Linked
<1>5. CASE nr[c] = Sentinel
  BY <1>1, <1>2, <1>4, <1>5, Zenon DEF Successor
<1>6. CASE nr[c] # Sentinel
  <2>1. nr[c] \in Task /\ nr[nr[c]] # NULL
    BY <1>1, <1>6, Zenon DEF Linked, Node
  <2> QED BY <1>1, <1>3, <1>6, <2>1, Zenon DEF Successor
<1> QED BY <1>5, <1>6, Zenon

\* sched_block and sched_stop.
LEMMA LeaveInv ==
  ASSUME FullInv, Up, cur \in User, NEW to_state \in {"BLOCKED", "STOPPED"}, Leave(to_state),
         UNCHANGED <<next, ready, tick, scan, shutdown, saved_cr3>>,
         sleep' \in [Task -> NoDeadline..MaxSleep]
  PROVE  FullInv'
<1> DEFINE nr == RemoveNext(next_run, prev_run, cur)
           pr == RemovePrev(next_run, prev_run, cur)
           to == Successor(nr, next_run[cur])
<1>1. Linked(next_run, prev_run) /\ Ordered(next_run) /\ TypeOK
  BY InvLinked, Zenon DEF FullInv, IInv
<1>2. cur \in Task /\ cur # NULL /\ cur # Idle /\ next_run[Sentinel] = Idle /\ next_run[cur] # NULL
      /\ state[cur] = "RUNNING"
  BY TaskAssumption, Zenon DEF FullInv, IInv, IdleHeads, RunListMatchesState, Task, Node
<1>3. to \in Task /\ to # cur /\ next_run[to] # NULL /\ to # Sentinel /\ to # NULL
  BY <1>1, <1>2, SuccessorRuns, TaskAssumption DEF Task
<1>4. /\ Linked(nr, pr) /\ Ordered(nr)
      /\ \A n \in Node : nr[n] # NULL <=> next_run[n] # NULL /\ n # cur
      /\ nr[Sentinel] = Idle
  BY <1>1, <1>2, RemoveLinked, RemoveOrdered
<1> HIDE DEF nr, pr, to
<1>5. /\ state' = [state EXCEPT ![cur] = to_state] /\ next_run' = nr /\ prev_run' = pr
      /\ resume' = [resume EXCEPT ![cur] = "tail"] /\ SwitchTo(to, cr3) /\ halted' = halted
  BY <1>3, Zenon DEF Leave, nr, pr, to
<1>6. TypeOK'
  BY <1>1, <1>3, <1>4, <1>5, <1>2, TaskAssumption, Zenon DEF TypeOK, Linked, SwitchTo, ResumeCR3, Task, Up
<1>7. RunListLinked'
  BY <1>4, <1>5, LinkedInv, Zenon
<1>8. RunListMatchesState'
  BY <1>1, <1>2, <1>4, <1>5, Zenon DEF RunListMatchesState, TypeOK, Node, FullInv, IInv
<1>9. RingLinked'
  BY <1>1, <1>2, <1>5, Zenon DEF RingLinked, Allocated, TypeOK, FullInv, IInv
<1>10. IdleHeads'
  <2>1. state'[to] = "RUNNING"
    BY <1>1, <1>3, <1>5, Zenon DEF TypeOK, RunListMatchesState, FullInv, IInv
  <2> QED BY <1>2, <1>3, <1>4, <1>5, <2>1, TaskAssumption, Zenon DEF IdleHeads, SwitchTo, Up, FullInv, IInv
<1>11. CpuInv'
  BY <1>1, <1>2, <1>3, <1>5, TaskAssumption, Zenon
     DEF CpuInv, SwitchTo, ResumeCR3, Own, Up, TypeOK, Task, FullInv, IInv
<1>12. NeverPanics'
  BY <1>5, Zenon DEF NeverPanics, FullInv, IInv
<1> QED BY <1>4, <1>5, <1>6, <1>7, <1>8, <1>9, <1>10, <1>11, <1>12, Zenon DEF FullInv, IInv

\* sched_wake, sched_resume and the wake of an expired sleeper.
LEMMA MakeRunningInv ==
  ASSUME FullInv, cur # NULL, NEW t \in Task, state[t] # "free", MakeRunning(t),
         UNCHANGED <<next, cur, ready, shutdown, halted, cpu>>
  PROVE  /\ Ordered(next_run)' /\ RunListLinked' /\ RunListMatchesState' /\ RingLinked'
         /\ NeverPanics'
         /\ Allocated' = Allocated
         /\ state' \in [Task -> {"free", "RUNNING", "BLOCKED", "STOPPED", "ZOMBIE"}]
         /\ next_run' \in [Node -> Node \cup {NULL}]
         /\ prev_run' \in [Node -> Node \cup {NULL}]
         /\ next_run'[Sentinel] = Idle /\ state'[cur] = "RUNNING"
<1>1. Linked(next_run, prev_run) /\ Ordered(next_run) /\ TypeOK
  BY InvLinked, Zenon DEF FullInv, IInv
<1>2. /\ state' = [state EXCEPT ![t] = "RUNNING"]
      /\ next_run' = InsertNext(next_run, prev_run, t)
      /\ prev_run' = InsertPrev(next_run, prev_run, t)
  BY Zenon DEF MakeRunning
<1>3. next_run[Sentinel] = Idle /\ state[cur] = "RUNNING" /\ Idle # Sentinel
  BY TaskAssumption, Zenon DEF FullInv, IInv, IdleHeads
<1>4. /\ Linked(next_run, prev_run)' /\ Ordered(next_run)'
      /\ \A n \in Node : next_run'[n] # NULL <=> next_run[n] # NULL \/ n = t
      /\ next_run'[Sentinel] = Idle
  <2>1. Ordered(InsertNext(next_run, prev_run, t))
    BY <1>1, InsertOrdered, Zenon
  <2>2. /\ Linked(InsertNext(next_run, prev_run, t), InsertPrev(next_run, prev_run, t))
        /\ \A n \in Node :
             InsertNext(next_run, prev_run, t)[n] # NULL <=> next_run[n] # NULL \/ n = t
        /\ next_run[Sentinel] # Sentinel =>
             InsertNext(next_run, prev_run, t)[Sentinel] = next_run[Sentinel]
        /\ next_run[Sentinel] = Sentinel /\ next_run[t] = NULL =>
             InsertNext(next_run, prev_run, t)[Sentinel] = t
    BY <1>1, InsertLinked, Zenon
  <2> QED BY <1>2, <1>3, <2>1, <2>2, Zenon
<1>5. RunListMatchesState'
  BY <1>1, <1>2, <1>4, Zenon DEF RunListMatchesState, TypeOK, Node, FullInv, IInv
<1>6. Allocated' = Allocated
  BY <1>1, <1>2, Zenon DEF Allocated, TypeOK
<1>7. RingLinked'
  BY <1>1, <1>2, <1>6, Zenon DEF RingLinked, TypeOK, FullInv, IInv, Allocated
<1>8. state'[cur] = "RUNNING"
  BY <1>1, <1>2, <1>3, Zenon DEF TypeOK
<1> QED BY <1>1, <1>2, <1>4, <1>5, <1>6, <1>7, <1>8, LinkedInv, Zenon
        DEF Linked, TypeOK, NeverPanics, FullInv, IInv
\* sched_spawn and sched_add.
LEMMA LinkInv ==
  ASSUME FullInv, NEW t \in Task, Link(t), cur = NULL => t = Idle /\ ~ready,
         cur # NULL => t \in User
  PROVE  FullInv'
<1>1. Linked(next_run, prev_run) /\ Ordered(next_run) /\ TypeOK
  BY InvLinked, Zenon DEF FullInv, IInv
<1>2. /\ state[t] = "free" /\ state' = [state EXCEPT ![t] = "RUNNING"]
      /\ next_run' = InsertNext(next_run, prev_run, t)
      /\ prev_run' = InsertPrev(next_run, prev_run, t)
      /\ sleep' = [sleep EXCEPT ![t] = NoDeadline]
      /\ resume' = [resume EXCEPT ![t] = "new"]
      /\ saved_cr3' = [saved_cr3 EXCEPT ![t] = Master]
      /\ UNCHANGED <<ready, tick, scan, shutdown, halted, cr3, fs_base, rsp0>>
      /\ RingInsert(t)
  BY Zenon DEF Link
<1>3. next_run[t] = NULL /\ t # NULL /\ NULL \notin Task /\ next[t] = NULL /\ t \in Node
  BY <1>2, TaskAssumption, Zenon DEF FullInv, IInv, RunListMatchesState, RingLinked, Task, Node, TypeOK
<1>4. /\ Linked(next_run, prev_run)' /\ Ordered(next_run)'
      /\ \A n \in Node : next_run'[n] # NULL <=> next_run[n] # NULL \/ n = t
      /\ next_run[Sentinel] # Sentinel => next_run'[Sentinel] = next_run[Sentinel]
      /\ next_run[Sentinel] = Sentinel => next_run'[Sentinel] = t
  <2>1. Ordered(InsertNext(next_run, prev_run, t))
    BY <1>1, InsertOrdered, Zenon
  <2>2. /\ Linked(InsertNext(next_run, prev_run, t), InsertPrev(next_run, prev_run, t))
        /\ \A n \in Node :
             InsertNext(next_run, prev_run, t)[n] # NULL <=> next_run[n] # NULL \/ n = t
        /\ next_run[Sentinel] # Sentinel =>
             InsertNext(next_run, prev_run, t)[Sentinel] = next_run[Sentinel]
        /\ next_run[Sentinel] = Sentinel /\ next_run[t] = NULL =>
             InsertNext(next_run, prev_run, t)[Sentinel] = t
    BY <1>1, InsertLinked, Zenon
  <2> QED BY <1>2, <1>3, <2>1, <2>2, Zenon
<1>5. RunListMatchesState'
  BY <1>1, <1>2, <1>4, Zenon DEF RunListMatchesState, TypeOK, Node, FullInv, IInv
<1>6. Allocated' = Allocated \cup {t} /\ t \notin Allocated
  BY <1>1, <1>2, Zenon DEF Allocated, TypeOK
<1>7. CASE cur = NULL
  <2>1. /\ next' = [next EXCEPT ![t] = t] /\ cur' = t /\ Allocated = {} /\ t = Idle /\ ~ready
        /\ tick = "out" /\ cr3 = Master
    BY <1>2, <1>7, Zenon DEF RingInsert, FullInv, IInv, IdleHeads, Allocated
  <2>2. next_run[Sentinel] = Sentinel
    <3>1. \A u \in Task : next_run[u] = NULL
      BY <1>7, Zenon DEF FullInv, IInv, IdleHeads, RunListMatchesState
    <3> QED BY <3>1, <1>1, TaskAssumption, Zenon DEF Linked, Node
  <2>3. TypeOK'
    BY <1>1, <1>2, <1>4, <2>1, SleepAssumption DEF TypeOK, Linked, NoDeadline
  <2>4. RingLinked'
    BY <1>1, <1>2, <1>6, <2>1, Zenon DEF RingLinked, TypeOK, FullInv, IInv, Allocated
  <2>5. IdleHeads'
    BY <1>1, <1>2, <1>3, <1>4, <1>7, <2>1, <2>2, Zenon DEF IdleHeads, TypeOK, FullInv, IInv, Linked
  <2>6. CpuInv'
    BY <1>1, <1>2, <2>1, Zenon DEF CpuInv, TypeOK, FullInv, IInv, Own
  <2> QED BY <1>2, <1>4, <1>5, <2>3, <2>4, <2>5, <2>6, LinkedInv, Zenon DEF FullInv, IInv, NeverPanics
<1>8. CASE cur # NULL
  <2>1. /\ next' = [next EXCEPT ![t] = next[cur], ![cur] = t] /\ cur' = cur /\ cur \in Allocated
        /\ cur # t /\ cur \in Task /\ t # Idle /\ next[cur] \in Allocated
    BY <1>1, <1>2, <1>8, TaskAssumption
       DEF RingInsert, FullInv, IInv, IdleHeads, Allocated, TypeOK, RingLinked
  <2>2. next_run[Sentinel] = Idle /\ Idle # Sentinel
    BY <1>8, TaskAssumption, Zenon DEF FullInv, IInv, IdleHeads
  <2>3. TypeOK'
    BY <1>1, <1>2, <1>4, <2>1, SleepAssumption DEF TypeOK, Linked, NoDeadline
  <2>4. RingLinked'
    <3>1. next'[t] = next[cur] /\ next'[cur] = t
          /\ \A u \in Task : u \notin {t, cur} => next'[u] = next[u]
      BY <1>1, <2>1, Zenon DEF TypeOK
    <3>2. \A u \in Task : state'[u] = "free" <=> u \notin Allocated'
      BY <1>1, <1>2, Zenon DEF TypeOK, Allocated
    <3>3. \A u \in Task : IF state'[u] = "free" THEN next'[u] = NULL ELSE next'[u] \in Allocated'
      <4>1. \A u \in Task : IF u \in Allocated THEN next[u] \in Allocated ELSE next[u] = NULL
        BY Zenon DEF RingLinked, FullInv, IInv, Allocated
      <4> TAKE u \in Task
      <4>3. CASE u \in {t, cur}
        <5>1. u \in Allocated' /\ next'[u] \in Allocated \cup {t}
          BY Zenon, <1>6, <2>1, <3>1, <4>3
        <5> QED BY <1>6, <3>2, <5>1, Zenon
      <4>4. CASE u \notin {t, cur}
        <5>1. next'[u] = next[u] /\ (u \in Allocated' <=> u \in Allocated)
          BY <1>6, <3>1, <4>4, Zenon
        <5> QED BY <1>6, <3>2, <4>1, <5>1, Zenon
      <4> QED BY <4>3, <4>4, Zenon
    <3>4. ASSUME NEW u \in Allocated', NEW v \in Allocated', next'[u] = next'[v] PROVE u = v
      <4>1. \A w \in Allocated : w \in Task /\ next[w] \in Allocated /\ next[w] # t
        BY <1>6 DEF RingLinked, FullInv, IInv, Allocated
      <4>2. \A w, x \in Allocated : next[w] = next[x] => w = x
        BY Zenon DEF RingLinked, FullInv, IInv
      <4>3. \A w \in Allocated : w # cur => next'[w] = next[w] /\ w # t
        BY <1>6, <3>1, <4>1, Zenon
      <4>4. \A w \in Allocated' : w = t \/ w \in Allocated
        BY <1>6, Zenon
      <4> HIDE DEF Allocated
      <4>5. cur \in Allocated /\ t \notin Allocated
        BY <1>6, <2>1, Zenon
      <4>6. \A w \in Allocated : next'[w] = t <=> w = cur
        BY <3>1, <4>1, <4>3, Zenon
      <4>7. CASE u = t
        <5>1. v # t => v # cur
          BY <3>1, <3>4, <4>1, <4>5, <4>7, Zenon
        <5>2. v # t => next[v] = next[cur]
          BY <3>1, <3>4, <4>3, <4>4, <4>7, <5>1, Zenon
        <5> QED BY <4>2, <4>4, <4>5, <4>7, <5>1, <5>2, Zenon
      <4>8. CASE v = t
        <5>1. u # t => u # cur
          BY <3>1, <3>4, <4>1, <4>5, <4>8, Zenon
        <5>2. u # t => next[u] = next[cur]
          BY <3>1, <3>4, <4>3, <4>4, <4>8, <5>1, Zenon
        <5> QED BY <4>2, <4>4, <4>5, <4>8, <5>1, <5>2, Zenon
      <4>9. CASE u # t /\ v # t
        <5>1. u \in Allocated /\ v \in Allocated
          BY <4>4, <4>9, Zenon
        <5> QED BY <3>4, <4>2, <4>3, <4>6, <5>1, Zenon
      <4> QED BY <4>7, <4>8, <4>9, Zenon
    <3>5. ASSUME NEW v \in Allocated' PROVE \E u \in Allocated' : next'[u] = v
      <4>1. CASE v = t
        BY Zenon, <1>6, <2>1, <3>1, <4>1
      <4>2. CASE v = next[cur]
        BY <1>6, <2>1, <3>1, <4>2, Zenon
      <4>3. CASE v # t /\ v # next[cur]
        <5>1. PICK u \in Allocated : next[u] = v
          BY <1>6, <4>3, Zenon DEF RingLinked, FullInv, IInv
        <5> QED BY <1>6, <3>1, <4>3, <5>1, Zenon DEF Allocated
      <4> QED BY <4>1, <4>2, <4>3, Zenon
    <3> QED BY <3>3, <3>4, <3>5, Zenon DEF RingLinked
  <2>5. IdleHeads'
    BY <1>1, <1>2, <1>3, <1>4, <1>6, <1>8, <2>1, <2>2, Zenon DEF IdleHeads, TypeOK, FullInv, IInv, Linked
  <2>6. CpuInv'
    BY <1>1, <1>2, <2>1 DEF CpuInv, TypeOK, FullInv, IInv, Own
  <2> QED BY <1>2, <1>4, <1>5, <2>3, <2>4, <2>5, <2>6, LinkedInv, Zenon DEF FullInv, IInv, NeverPanics
<1> QED BY <1>7, <1>8, Zenon

\* sched_exit: the zombie leaves the run list, its parent may enter it.
LEMMA ExitInv ==
  ASSUME FullInv, NEW p \in User \cup {NULL}, NEW direct \in BOOLEAN, Exit(p, direct)
  PROVE  FullInv'
<1> DEFINE nr1 == RemoveNext(next_run, prev_run, cur)
           pr1 == RemovePrev(next_run, prev_run, cur)
           st1 == [state EXCEPT ![cur] = "ZOMBIE"]
           chld == p # NULL /\ st1[p] = "BLOCKED"
           nr2 == IF chld THEN InsertNext(nr1, pr1, p) ELSE nr1
           pr2 == IF chld THEN InsertPrev(nr1, pr1, p) ELSE pr1
           st2 == IF chld THEN [st1 EXCEPT ![p] = "RUNNING"] ELSE st1
           to == IF direct THEN p ELSE RunListNext(nr2, cur)
<1>1. Linked(next_run, prev_run) /\ Ordered(next_run) /\ TypeOK
  BY InvLinked, Zenon DEF FullInv, IInv
<1>2. /\ Up /\ cur \in User /\ p # cur /\ (p # NULL => state[p] # "free")
      /\ (direct => p # NULL /\ st2[p] = "RUNNING")
      /\ state' = st2 /\ next_run' = nr2 /\ prev_run' = pr2
      /\ shutdown' \in BOOLEAN
      /\ (to = NULL => Panic) /\ (to # NULL => SwitchTo(to, Master) /\ UNCHANGED halted)
      /\ UNCHANGED <<next, sleep, ready, tick, scan, resume, saved_cr3>>
  BY <1>1, Zenon DEF Exit, TypeOK
<1>3. cur \in Task /\ cur # NULL /\ cur # Idle /\ next_run[Sentinel] = Idle /\ Idle # Sentinel
      /\ cur \in Node /\ Idle # NULL /\ Idle \in Task
  BY Zenon, <1>2, TaskAssumption DEF FullInv, IInv, IdleHeads, Task, Node
<1>4. /\ Linked(nr1, pr1) /\ Ordered(nr1) /\ nr1[Sentinel] = Idle
      /\ \A n \in Node : nr1[n] # NULL <=> next_run[n] # NULL /\ n # cur
  <2>1. Ordered(nr1)
    BY Zenon, <1>1, <1>3, RemoveOrdered
  <2>2. /\ Linked(nr1, pr1)
        /\ \A n \in Node : nr1[n] # NULL <=> next_run[n] # NULL /\ n # cur
        /\ next_run[Sentinel] # cur => nr1[Sentinel] = next_run[Sentinel]
    BY Zenon, <1>1, <1>3, RemoveLinked
  <2> QED BY Zenon, <1>3, <2>1, <2>2
<1>5. p # NULL => p \in Task /\ p \in Node
  BY Zenon DEF Task, Node
<1> HIDE DEF nr1, pr1
<1>6. /\ Linked(nr2, pr2) /\ Ordered(nr2) /\ nr2[Sentinel] = Idle
      /\ \A n \in Node : nr2[n] # NULL <=> nr1[n] # NULL \/ (chld /\ n = p)
  BY <1>3, <1>4, <1>5, InsertLinked, InsertOrdered
<1>7. /\ st2 \in [Task -> {"free", "RUNNING", "BLOCKED", "STOPPED", "ZOMBIE"}]
      /\ st2[cur] = "ZOMBIE"
      /\ \A t \in Task : t # cur /\ ~(chld /\ t = p) => st2[t] = state[t]
      /\ chld => st2[p] = "RUNNING" /\ state[p] = "BLOCKED"
  BY <1>1, <1>2, <1>3, <1>5, Zenon DEF TypeOK
<1> HIDE DEF nr2, pr2, st2
<1>8. RunListMatchesState'
  BY Zenon, <1>2, <1>3, <1>4, <1>5, <1>6, <1>7 DEF RunListMatchesState, FullInv, IInv, Node
<1>9. to \in Task /\ to # NULL /\ state'[to] = "RUNNING"
  <2>1. CASE direct
    BY <2>1, <1>2, <1>5, Zenon
  <2>2. CASE ~direct
    <3>1. nr2[cur] = NULL
      BY <1>3, <1>4, <1>5, <1>6, <1>2, Zenon
    <3>2. to = Idle
      BY <2>2, <3>1, <1>3, <1>6, Zenon DEF RunListNext
    <3>3. nr2[Idle] # NULL
      BY <1>6, <1>3, TaskAssumption DEF Linked, Node
    <3> QED BY <3>2, <3>3, <1>2, <1>3, <1>8, Zenon DEF RunListMatchesState
  <2> QED BY <2>1, <2>2, Zenon
<1> HIDE DEF to
<1>10. SwitchTo(to, Master) /\ UNCHANGED halted
  BY <1>2, <1>9, Zenon
<1>11. TypeOK'
  BY <1>1, <1>2, <1>6, <1>7, <1>9, <1>10, Zenon DEF TypeOK, Linked, SwitchTo, ResumeCR3, Task
<1>12. Allocated' = Allocated
  BY <1>1, <1>2, <1>3, <1>7, Zenon DEF Allocated, TypeOK, FullInv, IInv, IdleHeads
<1>13. RingLinked'
  <2>1. UNCHANGED next /\ RingLinked
    BY Zenon, <1>2 DEF FullInv, IInv
  <2>2. \A t \in Task : state'[t] = "free" <=> state[t] = "free"
    BY <1>12, Zenon DEF Allocated
  <2> QED BY <1>12, <2>1, <2>2, Zenon DEF RingLinked
<1>14. IdleHeads'
  BY Zenon, <1>2, <1>3, <1>6, <1>9, <1>10, TaskAssumption DEF IdleHeads, SwitchTo, Up, FullInv, IInv
<1>15. CpuInv'
  BY Zenon, <1>1, <1>2, <1>3, <1>9, <1>10, TaskAssumption
     DEF CpuInv, SwitchTo, ResumeCR3, Own, Up, TypeOK, Task, FullInv, IInv
<1> QED BY Zenon, <1>2, <1>6, <1>8, <1>10, <1>11, <1>13, <1>14, <1>15, LinkedInv DEF FullInv, IInv, NeverPanics
\* sched_wake and sched_resume change nothing but the woken task's place.
LEMMA WakeInv ==
  ASSUME FullInv, Up, NEW t \in User, state[t] # "free", MakeRunning(t),
         UNCHANGED <<next, cur, sleep, ready, tick, scan, shutdown, halted, cpu>>
  PROVE  FullInv'
<1>1. cur # NULL /\ t \in Task
  BY Zenon DEF FullInv, IInv, IdleHeads, Up, Task
<1>2. /\ Ordered(next_run)' /\ RunListLinked' /\ RunListMatchesState' /\ RingLinked'
      /\ NeverPanics' /\ Allocated' = Allocated
      /\ state' \in [Task -> {"free", "RUNNING", "BLOCKED", "STOPPED", "ZOMBIE"}]
      /\ next_run' \in [Node -> Node \cup {NULL}]
      /\ prev_run' \in [Node -> Node \cup {NULL}]
      /\ next_run'[Sentinel] = Idle /\ state'[cur] = "RUNNING"
  BY <1>1, MakeRunningInv, Zenon
<1>3. TypeOK'
  BY <1>2, Zenon DEF TypeOK, FullInv, IInv, cpu
<1>4. IdleHeads'
  BY <1>1, <1>2, TaskAssumption, Zenon DEF IdleHeads, FullInv, IInv, cpu
<1>5. CpuInv'
  BY Zenon DEF CpuInv, Own, FullInv, IInv, cpu
<1> QED BY <1>2, <1>3, <1>4, <1>5, Zenon DEF FullInv, IInv

\* The three parts of the timer interrupt.
LEMMA TickInv ==
  ASSUME FullInv, Tick PROVE FullInv'
<1>0. TypeOK /\ Linked(next_run, prev_run) /\ Ordered(next_run)
  BY InvLinked, Zenon DEF FullInv, IInv
<1>1. ASSUME NEW adv \in {0, 1}, TickBegin(adv) PROVE FullInv'
  <2>1. cur # NULL /\ cur \in Allocated /\ next[cur] \in Allocated /\ cur \in Task
    BY <1>0, <1>1, Zenon DEF TickBegin, Up, FullInv, IInv, IdleHeads, RingLinked, Allocated, TypeOK
  <2>2. TypeOK'
    <3>1. sleep' \in [Task -> NoDeadline..MaxSleep]
      BY <1>0, <1>1, SleepAssumption DEF TickBegin, TypeOK, NoDeadline
    <3>2. saved_cr3' \in [Task -> User \cup {Master}]
      BY <1>0, <1>1, <2>1, Zenon DEF TickBegin, TypeOK
    <3> QED BY <1>0, <1>1, <2>1, <3>1, <3>2, Zenon DEF TickBegin, TypeOK, lists
  <2>3. IdleHeads'
    BY <1>1, <2>1, Zenon DEF TickBegin, IdleHeads, lists, Up, FullInv, IInv, Allocated
  <2>4. CpuInv'
    BY <1>0, <1>1, <2>1, Zenon DEF TickBegin, CpuInv, Own, Up, TypeOK, FullInv, IInv
  <2>5. RunListMatchesState' /\ RunListLinked' /\ RingLinked' /\ NeverPanics' /\ Ordered(next_run)'
    BY <1>1, Zenon DEF TickBegin, lists, RunListMatchesState, RunListLinked, RingLinked, NeverPanics,
                Allocated, FullInv, IInv
  <2> QED BY <2>2, <2>3, <2>4, <2>5, Zenon DEF FullInv, IInv
<1>2. ASSUME TickScan PROVE FullInv'
  <2>1. /\ cur # NULL /\ scan \in Allocated /\ scan \in Task /\ next[scan] \in Allocated
        /\ ready /\ halted = "no" /\ tick = "scan"
    BY <1>0, <1>2, Zenon DEF TickScan, FullInv, IInv, IdleHeads, RingLinked, Allocated, TypeOK
  <2>2. /\ Ordered(next_run)' /\ RunListLinked' /\ RunListMatchesState' /\ RingLinked'
        /\ NeverPanics' /\ Allocated' = Allocated
        /\ state' \in [Task -> {"free", "RUNNING", "BLOCKED", "STOPPED", "ZOMBIE"}]
        /\ next_run' \in [Node -> Node \cup {NULL}]
        /\ prev_run' \in [Node -> Node \cup {NULL}]
        /\ next_run'[Sentinel] = Idle /\ state'[cur] = "RUNNING"
    <3>1. CASE state[scan] = "BLOCKED" /\ sleep[scan] = 0
      BY <1>2, <2>1, <3>1, MakeRunningInv, Zenon DEF TickScan, Allocated
    <3>2. CASE ~(state[scan] = "BLOCKED" /\ sleep[scan] = 0)
      BY <1>0, <1>2, <2>1, <3>2 DEF TickScan, RunListMatchesState, RunListLinked, RingLinked,
         NeverPanics, Allocated, FullInv, IInv, IdleHeads, TypeOK
    <3> QED BY <3>1, <3>2, Zenon
  <2>3. sleep' \in [Task -> NoDeadline..MaxSleep]
    BY <1>0, <1>2, <2>1, SleepAssumption DEF TickScan, TypeOK, NoDeadline
  <2>4. tick' \in {"scan", "pick"} /\ (tick' = "scan" => scan' = next[scan])
        /\ (tick' = "pick" => scan' = NULL)
        /\ UNCHANGED <<next, cur, ready, shutdown, halted, cpu>>
    BY Zenon, <1>2 DEF TickScan
  <2>5. TypeOK'
    BY <1>0, <2>1, <2>2, <2>3, <2>4, Zenon DEF TypeOK, cpu, Allocated
  <2>6. IdleHeads'
    BY <2>1, <2>2, <2>4, TaskAssumption, Zenon DEF IdleHeads
  <2>7. CpuInv'
    BY <2>1, <2>4, Zenon DEF CpuInv, Own, FullInv, IInv, cpu
  <2> QED BY <2>2, <2>5, <2>6, <2>7, Zenon DEF FullInv, IInv
<1>3. ASSUME TickPick PROVE FullInv'
  <2> DEFINE to == RunListNext(next_run, cur)
  <2>1. cur \in Task /\ cur # NULL /\ ready /\ halted = "no" /\ tick = "pick"
        /\ next_run[Sentinel] = Idle /\ state[cur] = "RUNNING"
    BY <1>0, <1>3, Zenon DEF TickPick, FullInv, IInv, IdleHeads, TypeOK
  <2>2. to \in Task /\ to # NULL /\ next_run[to] # NULL
    <3>1. /\ cur \in Node /\ Idle \in Node /\ Idle \in Task /\ Idle # Sentinel
          /\ Sentinel \in Node /\ Sentinel # NULL
          /\ \A n \in Node : n = Sentinel \/ (n \in Task /\ n # NULL)
      BY <2>1, TaskAssumption, Zenon DEF Node, Task
    <3>2. next_run[cur] # NULL => next_run[cur] \in Node /\ next_run[next_run[cur]] # NULL
      <4>1. \A n \in Node : prev_run[n] # NULL <=> next_run[n] # NULL
        BY <1>0, Zenon DEF Linked
      <4>2. next_run[cur] # NULL => next_run[cur] \in Node /\ prev_run[next_run[cur]] = cur /\ cur # NULL
        BY <1>0, <2>1, <3>1, Zenon DEF Linked
      <4> QED BY <4>1, <4>2, Zenon
    <3>2a. next_run[Idle] # NULL
      <4>1. prev_run[Idle] = Sentinel
        BY <1>0, <2>1, <3>1, Zenon DEF Linked
      <4> QED BY <1>0, <3>1, <4>1, Zenon DEF Linked
    <3>3. to \in {Idle, next_run[cur]} /\ to # Sentinel /\ (to = next_run[cur] => next_run[cur] # NULL \/ to = Idle)
      BY <2>1, <3>1, Zenon DEF RunListNext
    <3> QED BY <3>1, <3>2, <3>2a, <3>3, Zenon
  <2>3. state[to] = "RUNNING"
    BY <2>2, Zenon DEF RunListMatchesState, FullInv, IInv
  <2> HIDE DEF to
  <2>4. /\ tick' = "out"
        /\ UNCHANGED <<state, lists, sleep, ready, scan, shutdown, halted, saved_cr3>>
        /\ \/ to = cur /\ cr3' = saved_cr3[cur] /\ UNCHANGED <<cur, rsp0, fs_base, resume>>
           \/ to # cur /\ SwitchTo(to, Master) /\ resume' = [resume EXCEPT ![cur] = "tick"]
    BY <1>3, <2>2, Zenon DEF TickPick, to
  <2>5. TypeOK'
    BY <1>0, <2>1, <2>2, <2>4 DEF TypeOK, lists, SwitchTo, ResumeCR3, Task
  <2>6. IdleHeads'
    BY Zenon, <2>1, <2>2, <2>3, <2>4 DEF IdleHeads, lists, SwitchTo, FullInv, IInv
  <2>7. CpuInv'
    BY <1>0, <2>1, <2>2, <2>4, TaskAssumption
       DEF CpuInv, SwitchTo, ResumeCR3, Own, TypeOK, Task, FullInv, IInv
  <2>8. RunListMatchesState' /\ RunListLinked' /\ RingLinked' /\ NeverPanics' /\ Ordered(next_run)'
    BY Zenon, <2>4 DEF lists, RunListMatchesState, RunListLinked, RingLinked, NeverPanics,
                Allocated, FullInv, IInv
  <2> QED BY <2>5, <2>6, <2>7, <2>8, Zenon DEF FullInv, IInv
<1> QED BY <1>1, <1>2, <1>3, Zenon DEF Tick

\* sys_waitpid's reap unlinks the zombie from the list of every task.
LEMMA ReapInv ==
  ASSUME FullInv, NEW t \in User, Reap(t) PROVE FullInv'
<1>1. TypeOK /\ Ordered(next_run)
  BY Zenon DEF FullInv, IInv
<1>2. /\ Up /\ cur \in User /\ t # cur /\ state[t] = "ZOMBIE" /\ t \in Task
      /\ state' = [state EXCEPT ![t] = "free"]
      /\ UNCHANGED <<next_run, prev_run, cur, sleep, ready, tick, scan, shutdown, halted, cpu>>
  BY Zenon DEF Reap, Task
<1>3. PICK prev \in Task : next[prev] = t /\ next' = [next EXCEPT ![prev] = next[t], ![t] = NULL]
  BY Zenon DEF Reap
<1>4. t \in Allocated /\ Allocated' = Allocated \ {t}
  BY <1>1, <1>2, Zenon DEF Allocated, TypeOK
<1>5. \A u \in Task : IF u \in Allocated THEN next[u] \in Allocated ELSE next[u] = NULL
  BY Zenon DEF RingLinked, FullInv, IInv, Allocated
<1>6. \A u, v \in Allocated : next[u] = next[v] => u = v
  BY Zenon DEF RingLinked, FullInv, IInv
<1>7. prev \in Allocated /\ t # NULL
  BY <1>2, <1>3, <1>5, TaskAssumption, Zenon DEF Task
<1>8. /\ prev # t => next'[prev] = next[t] /\ next[t] # t
      /\ next'[t] = NULL
      /\ \A u \in Task : u \notin {t, prev} => next'[u] = next[u]
      /\ next' \in [Task -> Task \cup {NULL}]
  BY <1>1, <1>2, <1>3, <1>4, <1>6, <1>7, Zenon DEF TypeOK
<1>9. \A u \in Allocated : u # prev => next[u] # t
  BY <1>3, <1>6, <1>7, Zenon
<1>10. \A u \in Allocated : u \in Task
  BY Zenon DEF Allocated
<1>11. RingLinked'
  <2>1. ASSUME NEW u \in Task
        PROVE  IF state'[u] = "free" THEN next'[u] = NULL ELSE next'[u] \in Allocated'
    <3>1. state'[u] = "free" <=> u \notin Allocated'
      BY <1>1, <1>2, Zenon DEF Allocated, TypeOK
    <3>2. CASE u = t
      BY <1>1, <1>2, <1>8, <3>2, Zenon DEF TypeOK
    <3>3. CASE u # t /\ u \notin Allocated
      <4>1. u # prev /\ next[u] = NULL /\ u \notin Allocated'
        BY <1>4, <1>5, <1>7, <3>3, Zenon
      <4> QED BY <1>8, <3>1, <3>3, <4>1, Zenon
    <3>4. CASE u # t /\ u \in Allocated
      <4>1. u \in Allocated'
        BY <1>4, <3>4, Zenon
      <4>2. CASE u = prev
        BY Zenon, <1>2, <1>4, <1>5, <1>8, <3>1, <3>4, <4>1, <4>2
      <4>3. CASE u # prev
        BY <1>4, <1>5, <1>8, <1>9, <3>1, <3>4, <4>1, <4>3, Zenon
      <4> QED BY <4>2, <4>3, Zenon
    <3> QED BY <3>2, <3>3, <3>4, Zenon
  <2>2. ASSUME NEW u \in Allocated', NEW v \in Allocated', next'[u] = next'[v] PROVE u = v
    <3>1. u \in Allocated /\ u # t /\ v \in Allocated /\ v # t
      BY <1>4, Zenon
    <3>2. CASE u # prev /\ v # prev
      BY <1>6, <1>8, <1>10, <2>2, <3>1, <3>2, Zenon
    <3>3. CASE u = prev /\ v # prev
      BY <1>4, <1>6, <1>8, <1>10, <2>2, <3>1, <3>3, Zenon
    <3>4. CASE u # prev /\ v = prev
      BY <1>4, <1>6, <1>8, <1>10, <2>2, <3>1, <3>4, Zenon
    <3> QED BY <3>2, <3>3, <3>4, Zenon
  <2>3. ASSUME NEW v \in Allocated' PROVE \E u \in Allocated' : next'[u] = v
    <3>1. v \in Allocated /\ v # t
      BY <1>4, Zenon
    <3>2. PICK w \in Allocated : next[w] = v
      BY <3>1, Zenon DEF RingLinked, FullInv, IInv
    <3>3. CASE w = t
      BY <1>3, <1>4, <1>7, <1>8, <3>1, <3>2, <3>3, Zenon
    <3>4. CASE w # t
      BY <1>3, <1>4, <1>8, <1>10, <3>1, <3>2, <3>4, Zenon
    <3> QED BY <3>3, <3>4, Zenon
  <2> QED BY <2>1, <2>2, <2>3, Zenon DEF RingLinked
<1>12. TypeOK'
  BY Zenon, <1>1, <1>2, <1>8 DEF TypeOK, cpu
<1>13. RunListMatchesState' /\ RunListLinked' /\ NeverPanics' /\ Ordered(next_run)'
  BY <1>1, <1>2, Zenon DEF RunListMatchesState, RunListLinked, NeverPanics, TypeOK, FullInv, IInv
<1>14. IdleHeads'
  BY <1>1, <1>2, TaskAssumption, Zenon DEF IdleHeads, Up, cpu, TypeOK, Task, FullInv, IInv
<1>15. CpuInv'
  BY Zenon, <1>2 DEF CpuInv, Own, cpu, FullInv, IInv
<1> QED BY <1>11, <1>12, <1>13, <1>14, <1>15, Zenon DEF FullInv, IInv

\* The initial state is the empty scheduler.
LEMMA InitInv == Init => FullInv
<1> SUFFICES ASSUME Init PROVE FullInv
  BY Zenon
<1>1. /\ Idle \in Task /\ Sentinel \in Node /\ NULL \notin Task
      /\ \A t \in Task : t # Sentinel /\ t \in Node /\ next_run[t] = NULL /\ prev_run[t] = NULL
      /\ next_run[Sentinel] = Sentinel /\ prev_run[Sentinel] = Sentinel
      /\ \A t \in Task : state[t] = "free" /\ resume[t] = "new"
  BY Zenon, TaskAssumption DEF Init, Task, Node
<1>2. TypeOK
  <2>1. NoDeadline \in NoDeadline..MaxSleep
    BY SleepAssumption DEF NoDeadline
  <2>2. /\ next_run \in [Node -> Node \cup {NULL}] /\ prev_run \in [Node -> Node \cup {NULL}]
    BY <1>1, Zenon DEF Init
  <2> QED BY Zenon, <1>1, <2>1, <2>2 DEF Init, TypeOK
<1>3. RunListMatchesState /\ RunListLinked /\ RingLinked
  BY <1>1, TaskAssumption, Zenon DEF Init, RunListMatchesState, RunListLinked, RingLinked, Allocated, Node
<1>4. IdleHeads /\ CpuInv /\ NeverPanics
  BY <1>1, TaskAssumption, Zenon DEF Init, IdleHeads, CpuInv, NeverPanics
<1>5. Ordered(next_run)
  <2>1. [n \in Node |-> 0] \in [Node -> Nat]
    BY Zenon
  <2> QED BY Zenon, <1>1, <2>1 DEF Ordered, Node
<1> QED BY <1>2, <1>3, <1>4, <1>5, Zenon DEF FullInv, IInv

\* A step that leaves everything but `halted' alone.
LEMMA FrameInv ==
  ASSUME FullInv, UNCHANGED <<state, lists, cur, sleep, ready, tick, scan, shutdown, cpu>>,
         TypeOK', NeverPanics', tick # "out" => halted' = "no"
  PROVE  FullInv'
<1>1. UNCHANGED <<state, next, next_run, prev_run, cur, ready, tick, scan>>
      /\ UNCHANGED <<cr3, fs_base, rsp0, resume, saved_cr3>>
  BY Zenon DEF lists, cpu
<1>2. RunListMatchesState' /\ RunListLinked'
  BY <1>1, Zenon DEF RunListMatchesState, RunListLinked, FullInv, IInv
<1>3. Allocated' = Allocated
  BY <1>1, Zenon DEF Allocated
<1>4. RingLinked'
  BY <1>1, <1>3, Zenon DEF RingLinked, FullInv, IInv
<1>5. IdleHeads'
  <2>1. IdleHeads
    BY Zenon DEF FullInv, IInv
  <2>2. /\ next_run'[Sentinel] # NULL
        /\ IF cur' = NULL THEN \A t \in Task : state'[t] = "free"
                         ELSE next_run'[Sentinel] = Idle /\ state'[cur'] = "RUNNING"
    BY <1>1, <2>1, Zenon DEF IdleHeads
  <2>3. (ready' => cur' # NULL) /\ (tick' = "scan" => scan' \in Allocated')
    BY <1>1, <1>3, <2>1 DEF IdleHeads
  <2>4. ~ready' => cur' \in {Idle, NULL} /\ tick' = "out" /\ cr3' = Master
    BY <1>1, <2>1 DEF IdleHeads
  <2>5. tick' # "out" => ready' /\ halted' = "no"
    BY <1>1, <2>1 DEF IdleHeads
  <2> QED BY <2>2, <2>3, <2>4, <2>5, Zenon DEF IdleHeads
<1>6. CpuInv'
  BY <1>1 DEF CpuInv, Own, FullInv, IInv
<1>7. Ordered(next_run)'
  BY <1>1, Zenon DEF FullInv, Ordered
<1> QED BY <1>2, <1>4, <1>5, <1>6, <1>7, Zenon DEF FullInv, IInv

\* Every step of the scheduler preserves the invariant.
LEMMA NextInv == FullInv /\ [Next]_vars => FullInv'
<1> SUFFICES ASSUME FullInv, [Next]_vars PROVE FullInv'
  BY Zenon
<1>0. TypeOK /\ Idle \in Task
  BY Zenon DEF FullInv, IInv, Task
<1>1. CASE Spawn
  BY <1>0, <1>1, LinkInv, Zenon DEF Spawn
<1>2. ASSUME NEW t \in User, Add(t) PROVE FullInv'
  BY <1>2, LinkInv, Zenon DEF Add, Task
<1>3. CASE Start
  <2>1. cur = Idle /\ cr3 = Master /\ tick = "out" /\ Idle \notin User
    BY Zenon, <1>3, TaskAssumption DEF Start, FullInv, IInv, IdleHeads
  <2>2. TypeOK' /\ IdleHeads'
    BY <1>0, <1>3, <2>1, Zenon DEF Start, TypeOK, IdleHeads, lists, FullInv, IInv, Allocated
  <2>3. CpuInv'
    BY Zenon, <1>3, <2>1 DEF Start, CpuInv, Own, FullInv, IInv
  <2> QED BY <1>3, <2>2, <2>3, Zenon DEF Start, lists, FullInv, IInv, RunListMatchesState, RunListLinked,
                                  RingLinked, NeverPanics, Allocated, Ordered
<1>4. CASE Block
  BY <1>0, <1>4, LeaveInv, Zenon DEF Block, TypeOK
<1>5. ASSUME NEW n \in 0..MaxSleep, NanoSleep(n) PROVE FullInv'
  <2>1. sleep' \in [Task -> NoDeadline..MaxSleep]
    <3>1. n \in NoDeadline..MaxSleep
      BY <1>5, SleepAssumption DEF NoDeadline
    <3>2. sleep' = [sleep EXCEPT ![cur] = n]
      BY <1>5, Zenon DEF NanoSleep
    <3> QED BY Zenon, <1>0, <3>1, <3>2 DEF TypeOK
  <2> QED BY <1>5, <2>1, LeaveInv, Zenon DEF NanoSleep
<1>6. CASE Stop
  BY <1>0, <1>6, LeaveInv, Zenon DEF Stop, TypeOK
<1>7. ASSUME NEW t \in User, Wake(t) PROVE FullInv'
  BY <1>7, WakeInv, Zenon DEF Wake
<1>8. ASSUME NEW t \in User, Resume(t) PROVE FullInv'
  BY <1>8, WakeInv, Zenon DEF Resume
<1>9. ASSUME NEW p \in User \cup {NULL}, NEW direct \in BOOLEAN, Exit(p, direct) PROVE FullInv'
  BY <1>9, ExitInv, Zenon
<1>10. ASSUME NEW t \in User, Reap(t) PROVE FullInv'
  BY <1>10, ReapInv, Zenon
<1>11. CASE Tick
  BY <1>11, TickInv, Zenon
<1>12. CASE PowerOff
  <2>1. UNCHANGED <<state, lists, cur, sleep, ready, tick, scan, shutdown, cpu>> /\ halted' = "off"
        /\ tick = "out"
    BY <1>12, Zenon DEF PowerOff, Up
  <2>2. TypeOK'
    BY <1>0, <2>1, Zenon DEF TypeOK, lists, cpu
  <2> QED BY <2>1, <2>2, FrameInv, Zenon DEF NeverPanics
<1>13. CASE UNCHANGED vars
  <2>1. UNCHANGED <<state, lists, cur, sleep, ready, tick, scan, shutdown, cpu>> /\ halted' = halted
    BY <1>13, Zenon DEF vars
  <2>2. TypeOK'
    BY <1>0, <2>1, Zenon DEF TypeOK, lists, cpu
  <2>3. (tick # "out" => halted = "no") /\ NeverPanics'
    BY Zenon, <2>1 DEF FullInv, IInv, IdleHeads, NeverPanics
  <2> QED BY <2>1, <2>2, <2>3, FrameInv, Zenon
<1> QED BY <1>1, <1>2, <1>3, <1>4, <1>5, <1>6, <1>7, <1>8, <1>9, <1>10, <1>11, <1>12, <1>13, Zenon
        DEF Next, Stopped

\* sched_add links the new task after the current one: the cycle grows by it.
LEMMA RingGrows ==
  ASSUME FullInv, RingComplete, NEW t \in Task, Link(t)
  PROVE  RingComplete'
<1>1. /\ t \notin Allocated /\ Allocated' = Allocated \cup {t} /\ t # NULL
      /\ \A u \in Allocated : next[u] \in Allocated /\ u \in Task
      /\ cur \in Allocated \cup {NULL} /\ (cur = NULL => Allocated = {}) /\ next \in [Task -> Task \cup {NULL}]
  <2>1. t \notin Allocated /\ Allocated' = Allocated \cup {t}
    BY Zenon DEF Link, Allocated, FullInv, IInv, TypeOK
  <2>2. \A u \in Allocated : next[u] \in Allocated /\ u \in Task
    BY Zenon DEF FullInv, IInv, RingLinked, Allocated
  <2>3. cur \in Allocated \cup {NULL}
    BY Zenon DEF FullInv, IInv, IdleHeads, TypeOK, Allocated
  <2>4. cur = NULL => Allocated = {}
    BY Zenon DEF FullInv, IInv, IdleHeads, Allocated
  <2> QED BY <2>1, <2>2, <2>3, <2>4, TaskAssumption, Zenon DEF Task, FullInv, IInv, TypeOK
<1> SUFFICES ASSUME NEW S \in SUBSET Allocated', S # {}, \A u \in S : next'[u] \in S
             PROVE  S = Allocated'
  BY Zenon DEF RingComplete
<1>2. CASE cur = NULL
  BY <1>1, <1>2, Zenon
<1>3. CASE cur # NULL
  <2>1. cur \in Allocated /\ cur # t
    BY <1>1, <1>3, Zenon
  <2>2. /\ next'[t] = next[cur] /\ next'[cur] = t
        /\ \A u \in Allocated : u # cur => next'[u] = next[u]
    <3>1. next' = [next EXCEPT ![t] = next[cur], ![cur] = t]
      BY <1>3, Zenon DEF Link, RingInsert
    <3> QED BY <1>1, <2>1, <3>1, Zenon
  <2> DEFINE R == S \ {t}
  <2>3. R \in SUBSET Allocated
    BY <1>1, Zenon
  <2>4. R # {}
    <3>1. CASE t \in S
      BY <1>1, <2>1, <2>2, <3>1, Zenon
    <3>2. CASE t \notin S
      <4>1. PICK x : x \in S
        BY Zenon
      <4>2. x \in R
        BY <3>2, <4>1, Zenon
      <4> QED BY <4>2, Zenon
    <3> QED BY <3>1, <3>2, Zenon
  <2>5. ASSUME NEW u \in R PROVE next[u] \in R
    <3>1. u \in Allocated /\ u \in S /\ next[u] # t
      BY <1>1, <2>3, Zenon
    <3>2. CASE u = cur
      BY <2>2, <3>1, <3>2, Zenon
    <3>3. CASE u # cur
      BY <2>2, <3>1, <3>3, Zenon
    <3> QED BY <3>2, <3>3, Zenon
  <2>6. R = Allocated
    <3> HIDE DEF R
    <3> QED BY <2>3, <2>4, <2>5, Zenon DEF RingComplete
  <2>7. cur \in S /\ t \in S
    BY <2>1, <2>2, <2>6, Zenon
  <2> QED BY <1>1, <2>6, <2>7, Zenon
<1> QED BY <1>2, <1>3, Zenon

\* sys_waitpid links the zombie's neighbours: the cycle goes on without it.
LEMMA RingShrinks ==
  ASSUME FullInv, RingComplete, NEW t \in User, Reap(t)
  PROVE  RingComplete'
<1>1. PICK prev \in Task : next[prev] = t /\ next' = [next EXCEPT ![prev] = next[t], ![t] = NULL]
  BY Zenon DEF Reap
<1>2. /\ t \in Allocated /\ Allocated' = Allocated \ {t} /\ cur \in Allocated /\ cur # t /\ t # NULL
      /\ \A u \in Allocated : next[u] \in Allocated /\ u \in Task
      /\ prev \in Allocated /\ next \in [Task -> Task \cup {NULL}]
  <2>1. t \in Allocated /\ Allocated' = Allocated \ {t} /\ cur # t /\ t # NULL
    BY TaskAssumption, Zenon DEF Reap, Allocated, FullInv, IInv, TypeOK, Task
  <2>2. \A u \in Allocated : next[u] \in Allocated /\ u \in Task
    BY Zenon DEF FullInv, IInv, RingLinked, Allocated
  <2>3. cur \in Allocated
    BY TaskAssumption, Zenon DEF Reap, FullInv, IInv, IdleHeads, TypeOK, Allocated, Task
  <2>4. prev \in Allocated
    BY <1>1, <2>1, Zenon DEF FullInv, IInv, RingLinked, Allocated
  <2> QED BY <2>1, <2>2, <2>3, <2>4, Zenon DEF FullInv, IInv, TypeOK
<1>3. prev # t
  <2> SUFFICES ASSUME prev = t PROVE FALSE
    BY Zenon
  <2>1. {t} \in SUBSET Allocated /\ {t} # {} /\ \A u \in {t} : next[u] \in {t}
    BY <1>1, <1>2, Zenon
  <2>2. {t} = Allocated
    BY <2>1, Zenon DEF RingComplete
  <2> QED BY <1>2, <2>2, Zenon
<1>4. next'[prev] = next[t] /\ \A u \in Allocated' : u # prev => next'[u] = next[u]
  BY <1>1, <1>2, <1>3, Zenon
<1> SUFFICES ASSUME NEW S \in SUBSET Allocated', S # {}, \A u \in S : next'[u] \in S
             PROVE  S = Allocated'
  BY Zenon DEF RingComplete
<1>5. S \in SUBSET Allocated /\ t \notin S /\ \A u \in S : u \in Allocated'
  BY <1>2, Zenon
<1>6. CASE prev \in S
  <2> DEFINE R == S \cup {t}
  <2>1. R \in SUBSET Allocated /\ R # {}
    BY <1>2, <1>5, Zenon
  <2>2. ASSUME NEW u \in R PROVE next[u] \in R
    <3>1. CASE u = t
      BY <1>4, <1>6, <3>1, Zenon
    <3>2. CASE u = prev
      BY <1>1, <3>2, Zenon
    <3>3. CASE u \in S /\ u # prev
      BY <1>4, <1>5, <3>3, Zenon
    <3> QED BY <3>1, <3>2, <3>3, Zenon
  <2>3. R = Allocated
    <3> HIDE DEF R
    <3> QED BY <2>1, <2>2, Zenon DEF RingComplete
  <2> QED BY <1>2, <1>5, <2>3, Zenon
<1>7. CASE prev \notin S
  <2>1. \A u \in S : next[u] \in S
    BY <1>4, <1>5, <1>7, Zenon
  <2>2. S = Allocated
    BY <1>5, <2>1, Zenon DEF RingComplete
  <2> QED BY <1>2, <1>5, <2>2, Zenon
<1> QED BY <1>6, <1>7, Zenon

\* Nothing else changes the list of every task: a task is allocated and freed
\* only by these two.
LEMMA RingKept ==
  ASSUME FullInv, RingComplete, [Next]_vars
  PROVE  RingComplete'
<1>0. Idle \in Task /\ (\A t \in User : t \in Task) /\ TypeOK /\ (cur # NULL => cur \in Task)
  BY Zenon DEF Task, FullInv, IInv, TypeOK
<1>1. CASE Spawn
  BY <1>0, <1>1, RingGrows, Zenon DEF Spawn
<1>2. ASSUME NEW t \in User, Add(t) PROVE RingComplete'
  BY <1>0, <1>2, RingGrows, Zenon DEF Add
<1>3. ASSUME NEW t \in User, Reap(t) PROVE RingComplete'
  BY <1>3, RingShrinks, Zenon
<1>4. ASSUME next' = next, Allocated' = Allocated PROVE RingComplete'
  BY <1>4, Zenon DEF RingComplete
<1>5. ASSUME NEW t \in Task, NEW x, x # "free", state[t] # "free", state' = [state EXCEPT ![t] = x]
      PROVE  Allocated' = Allocated
  BY <1>0, <1>5, Zenon DEF Allocated, TypeOK
<1>6. cur \in User => state[cur] # "free" /\ cur \in Task
  BY <1>0, TaskAssumption, Zenon DEF FullInv, IInv, IdleHeads
<1>7. CASE Block \/ Stop \/ \E n \in 0..MaxSleep : NanoSleep(n)
  <2>1. cur \in User /\ next' = next /\ \E x : x # "free" /\ state' = [state EXCEPT ![cur] = x]
    <3>1. CASE Block
      BY <3>1, Zenon DEF Block, Leave
    <3>2. CASE Stop
      BY <3>2, Zenon DEF Stop, Leave
    <3>3. CASE \E n \in 0..MaxSleep : NanoSleep(n)
      BY <3>3, Zenon DEF NanoSleep, Leave
    <3> QED BY <1>7, <3>1, <3>2, <3>3, Zenon
  <2> QED BY <1>4, <1>5, <1>6, <2>1, Zenon
<1>8. ASSUME NEW t \in User, Wake(t) \/ Resume(t) PROVE RingComplete'
  <2>1. next' = next /\ state[t] # "free" /\ state' = [state EXCEPT ![t] = "RUNNING"] /\ "RUNNING" # "free"
    BY <1>8, Zenon DEF Wake, Resume, MakeRunning
  <2> QED BY <1>0, <1>4, <1>5, <2>1, Zenon
<1>9. ASSUME NEW p \in User \cup {NULL}, NEW direct \in BOOLEAN, Exit(p, direct) PROVE RingComplete'
  <2> DEFINE st1 == [state EXCEPT ![cur] = "ZOMBIE"]
  <2>1. /\ next' = next /\ cur \in User /\ (p # NULL => p \in Task /\ state[p] # "free")
        /\ state' = IF p # NULL /\ st1[p] = "BLOCKED" THEN [st1 EXCEPT ![p] = "RUNNING"] ELSE st1
    BY <1>0, <1>9, Zenon DEF Exit
  <2>2. Allocated' = Allocated
    BY <1>0, <1>6, <2>1, Zenon DEF Allocated, TypeOK
  <2> QED BY <1>4, <2>1, <2>2, Zenon
<1>10. CASE TickScan
  <2>1. next' = next /\ scan \in Task /\ state[scan] # "free"
    BY <1>10, Zenon DEF TickScan, FullInv, IInv, IdleHeads, Allocated
  <2>2. CASE state' = state
    BY <1>4, <2>1, <2>2, Zenon DEF Allocated
  <2>3. CASE state' = [state EXCEPT ![scan] = "RUNNING"]
    BY <1>4, <1>5, <2>1, <2>3, Zenon
  <2> QED BY <1>10, <2>2, <2>3, Zenon DEF TickScan, MakeRunning
<1>11. CASE Start \/ (\E adv \in {0, 1} : TickBegin(adv)) \/ TickPick \/ PowerOff \/ Stopped \/ UNCHANGED vars
  <2>1. next' = next /\ state' = state
    BY <1>11, Zenon DEF Start, TickBegin, TickPick, PowerOff, Stopped, vars, lists
  <2> QED BY <1>4, <2>1, Zenon DEF Allocated
<1> QED BY <1>1, <1>2, <1>3, <1>7, <1>8, <1>9, <1>10, <1>11, Zenon DEF Next, Tick

\* The inductive invariant holds in every reachable state.
THEOREM Invariance == Spec => []FullInv
BY InitInv, NextInv, PTL DEF Spec

\* Every variable of the scheduler keeps its type.
THEOREM TypeCorrect == Spec => []TypeOK
<1>1. FullInv => TypeOK
  BY Zenon DEF FullInv, IInv
<1> QED BY <1>1, Invariance, PTL

\* A task is in the run list exactly when its state is TASK_RUNNING, and the
\* list's two directions agree.
THEOREM RunListCorrect == Spec => []RunListSound
<1>1. FullInv => RunListSound
  BY Zenon DEF FullInv, IInv, RunListSound
<1> QED BY <1>1, Invariance, PTL

\* The list that the kernel's scans follow is one cycle through exactly the
\* allocated tasks.
THEOREM RingCorrect == Spec => []RingSound
<1>1. ASSUME Init PROVE RingComplete
  <2>1. \A t : t \notin Allocated
    BY <1>1, Zenon DEF Init, Allocated
  <2> SUFFICES ASSUME NEW S \in SUBSET Allocated, S # {} PROVE FALSE
    BY Zenon DEF RingComplete
  <2>2. PICK x : x \in S
    BY Zenon
  <2> QED BY <2>1, <2>2, Zenon
<1>2. FullInv /\ RingComplete => RingSound
  BY Zenon DEF FullInv, IInv, RingSound
<1> QED BY <1>1, <1>2, RingKept, Invariance, PTL DEF Spec

\* sched_block, sched_stop and sched_exit always find a task to switch to.
THEOREM NoPanic == Spec => []NeverPanics
<1>1. FullInv => NeverPanics
  BY Zenon DEF FullInv, IInv
<1> QED BY <1>1, Invariance, PTL

\* A user task executes on its own address space, TLS base and kernel stack.
THEOREM CpuCorrect == Spec => []CpuMatchesCurrent
<1>1. FullInv => CpuMatchesCurrent
  BY TaskAssumption, Zenon DEF FullInv, IInv, CpuInv, CpuMatchesCurrent, Own
<1> QED BY <1>1, Invariance, PTL

(* ── The queue the run list implements ──────────────────────────────────── *)

\* The node before the i-th of a queue, which begins and ends at the sentinel.
Before(q, i) == IF i = 1 THEN Sentinel ELSE q[i - 1]

\* q has every task of the run list nr once, in the order of its pointers.
Lists(nr, q) ==
  /\ q \in Seq(Task)
  /\ \A i \in 1..Len(q) : nr[Before(q, i)] = q[i]
  /\ nr[Before(q, Len(q) + 1)] = Sentinel
  /\ \A i, j \in 1..Len(q) : q[i] = q[j] => i = j
  /\ \A t \in Task : nr[t] # NULL <=> \E i \in 1..Len(q) : q[i] = t

\* The nodes before the tasks of a queue are nodes of the list.
LEMMA BeforeNode ==
  ASSUME NEW nr, NEW q, Lists(nr, q), NEW i \in 1..Len(q) + 1
  PROVE  Before(q, i) \in Node
<1>1. i = 1 \/ i - 1 \in 1..Len(q)
  BY DEF Lists
<1>2. \A j \in 1..Len(q) : q[j] \in Task
  BY DEF Lists
<1> QED BY <1>1, <1>2, Zenon DEF Before, Node

\* What follows an entry of a queue, with the entry in front.
LEMMA TailFollows ==
  ASSUME NEW T, NEW q \in Seq(T), NEW i \in 1..Len(q)
  PROVE  SubSeq(q, i, Len(q)) = <<q[i]>> \o SubSeq(q, i + 1, Len(q))
<1> DEFINE n == Len(q)
           l == SubSeq(q, i, n)
           m == SubSeq(q, i + 1, n)
           r == <<q[i]>> \o m
<1>1. n \in Nat /\ i \in 1..n
  OBVIOUS
<1>2. l = [k \in 1..n - i + 1 |-> q[k + i - 1]]
  OBVIOUS
<1>3. m = [k \in 1..n - i |-> q[k + i]] /\ m \in Seq(T) /\ Len(m) = n - i
  OBVIOUS
<1>4. r \in Seq(T) /\ Len(r) = n - i + 1
  <2> HIDE DEF m, n
  <2> QED BY <1>1, <1>3
<1>5. \A k \in 1..n - i + 1 : r[k] = IF k = 1 THEN q[i] ELSE m[k - 1]
  <2> HIDE DEF m, n
  <2> QED BY <1>1, <1>3
<1>6. \A k \in 1..n - i + 1 : r[k] = q[k + i - 1]
  <2> SUFFICES ASSUME NEW k \in 1..n - i + 1 PROVE r[k] = q[k + i - 1]
    BY Zenon
  <2>1. k # 1 => k - 1 \in 1..n - i /\ (k - 1) + i = k + i - 1
    BY <1>1
  <2>2. k = 1 => k + i - 1 = i
    BY <1>1
  <2> HIDE DEF r, n
  <2>3. k # 1 => m[k - 1] = q[(k - 1) + i]
    <3> HIDE DEF m
    <3> QED BY <1>3, <2>1, Zenon
  <2> QED BY <1>5, <2>1, <2>2, <2>3, Zenon
<1>7. r = [k \in 1..n - i + 1 |-> r[k]]
  <2> HIDE DEF r, n
  <2> QED BY <1>4
<1> HIDE DEF r, l, n, m
<1>8. l = r
  BY <1>2, <1>6, <1>7, Zenon
<1> QED BY <1>8, Zenon DEF l, r, m, n

\* A run list has only one queue, and following next_run gives it back.
LEMMA QueueOfIs ==
  ASSUME NEW nr, NEW q, Lists(nr, q)
  PROVE  QueueOf(nr) = q
<1> DEFINE n == Len(q)
           tail(i) == SubSeq(q, i, n)
           step(f, x) == IF nr[x] \in {NULL, Sentinel} THEN <<>> ELSE <<nr[x]>> \o f[nr[x]]
           g == [x \in Node |-> IF x = Sentinel THEN q
                                ELSE IF \E i \in 1..n : q[i] = x
                                THEN tail((CHOOSE i \in 1..n : q[i] = x) + 1) ELSE <<>>]
           f == TasksAfter(nr)
<1>1. q \in Seq(Task) /\ n \in Nat /\ (\A i \in 1..n : q[i] \in Task)
  BY DEF Lists
<1>2. Sentinel \notin Task /\ NULL \notin Task
  BY TaskAssumption, Zenon DEF Task
<1>3. /\ tail(n + 1) = <<>> /\ tail(1) = q
      /\ \A i \in 1..n : tail(i) = <<q[i]>> \o tail(i + 1)
  <2>1. tail(n + 1) = <<>>
    BY <1>1
  <2>2. tail(1) = q
    BY <1>1
  <2> QED BY <1>1, <2>1, <2>2, TailFollows, Zenon
<1> HIDE DEF tail
<1>4. /\ \A i \in 1..n : /\ nr[Before(q, i)] = q[i] /\ q[i] \notin {NULL, Sentinel}
                         /\ q[i] = Before(q, i + 1) /\ i + 1 \in 1..n + 1
      /\ nr[Before(q, n + 1)] = Sentinel
      /\ \A i \in 1..n + 1 : Before(q, i) \in Node
  <2>1. \A i \in 1..n : q[i] = Before(q, i + 1) /\ i + 1 \in 1..n + 1
    BY <1>1 DEF Before
  <2>2. \A i \in 1..n + 1 : Before(q, i) \in Node
    BY BeforeNode, Zenon
  <2> QED BY <1>1, <1>2, <2>1, <2>2, Zenon DEF Lists
<1>5. \A h : (\A x \in Node : h[x] = step(h, x)) =>
        /\ h[Before(q, n + 1)] = <<>>
        /\ \A i \in 1..n : h[Before(q, i)] = <<q[i]>> \o h[Before(q, i + 1)]
  <2> SUFFICES ASSUME NEW h, \A x \in Node : h[x] = step(h, x)
               PROVE  /\ h[Before(q, n + 1)] = <<>>
                      /\ \A i \in 1..n : h[Before(q, i)] = <<q[i]>> \o h[Before(q, i + 1)]
    BY Zenon
  <2>1. n + 1 \in 1..n + 1 /\ \A i \in 1..n : i \in 1..n + 1
    BY <1>1
  <2> HIDE DEF n
  <2>2. h[Before(q, n + 1)] = <<>>
    BY <1>4, <2>1, Zenon
  <2>3. ASSUME NEW i \in 1..n PROVE h[Before(q, i)] = <<q[i]>> \o h[Before(q, i + 1)]
    <3>1. h[Before(q, i)] = step(h, Before(q, i))
      <4> HIDE DEF step
      <4> QED BY <1>4, <2>1, Zenon
    <3>2. nr[Before(q, i)] = q[i] /\ ~(nr[Before(q, i)] \in {NULL, Sentinel}) /\ q[i] = Before(q, i + 1)
      BY <1>4, Zenon
    <3>3. step(h, Before(q, i)) = <<nr[Before(q, i)]>> \o h[nr[Before(q, i)]]
      BY <3>2, Zenon
    <3> HIDE DEF step
    <3> QED BY <3>1, <3>2, <3>3, Zenon
  <2> QED BY <2>2, <2>3, Zenon
<1>6. \A x \in Node : g[x] = step(g, x)
  <2>1. \A i \in 1..n : g[q[i]] = tail(i + 1)
    <3> SUFFICES ASSUME NEW i \in 1..n PROVE g[q[i]] = tail(i + 1)
      BY Zenon
    <3>1. (CHOOSE j \in 1..n : q[j] = q[i]) = i
      BY Zenon DEF Lists
    <3>2. q[i] \in Node /\ q[i] # Sentinel
      BY <1>1, <1>2, Zenon DEF Node
    <3> HIDE DEF n
    <3> QED BY <3>1, <3>2, Zenon
  <2>2. g[Sentinel] = tail(1)
    BY <1>3, Zenon DEF Node
  <2>3. ASSUME NEW x \in Node, nr[x] = NULL PROVE g[x] = step(g, x)
    <3>1. x # Sentinel
      <4>1. nr[Sentinel] # NULL
        <5>1. Before(q, 1) = Sentinel
          BY Zenon DEF Before
        <5>2. CASE n = 0
          <6>1. Before(q, n + 1) = Sentinel
            BY <5>2, <5>1
          <6> QED BY <1>4, <6>1, TaskAssumption, Zenon DEF Task
        <5>3. CASE n # 0
          <6>1. 1 \in 1..n
            BY <1>1, <5>3
          <6> QED BY <1>4, <5>1, <6>1, Zenon
        <5> QED BY <5>2, <5>3, Zenon
      <4> QED BY <2>3, <4>1, Zenon
    <3>2. ~ \E i \in 1..n : q[i] = x
      BY <2>3, <3>1, Zenon DEF Lists, Node
    <3> QED BY <2>3, <3>1, <3>2, Zenon
  <2>4. ASSUME NEW x \in Node, nr[x] # NULL PROVE g[x] = step(g, x)
    <3>1. \E i \in 1..n + 1 : x = Before(q, i)
      <4>1. CASE x = Sentinel
        <5>1. 1 \in 1..n + 1
          BY <1>1
        <5> QED BY <4>1, <5>1, Zenon DEF Before
      <4>2. CASE x # Sentinel
        <5>1. \E i \in 1..n : q[i] = x
          BY <2>4, <4>2, Zenon DEF Lists, Node
        <5> QED BY <1>4, <5>1, Zenon
      <4> QED BY <4>1, <4>2, Zenon
    <3>2. PICK i \in 1..n + 1 : x = Before(q, i)
      BY <3>1, Zenon
    <3>3. \A j \in 1..n + 1 : g[Before(q, j)] = tail(j)
      <4> SUFFICES ASSUME NEW j \in 1..n + 1 PROVE g[Before(q, j)] = tail(j)
        BY Zenon
      <4>1. CASE j = 1
        BY <2>2, <4>1, Zenon DEF Before
      <4>2. CASE j # 1
        <5>1. j - 1 \in 1..n /\ (j - 1) + 1 = j
          BY <1>1, <4>2
        <5>2. g[q[j - 1]] = tail((j - 1) + 1)
          <6> HIDE DEF g, n
          <6> QED BY <2>1, <5>1, Zenon
        <5> HIDE DEF g, n
        <5> QED BY <4>2, <5>1, <5>2, Zenon DEF Before
      <4> QED BY <4>1, <4>2, Zenon
    <3>4. i = n + 1 \/ i \in 1..n
      BY <1>1
    <3> HIDE DEF g, n
    <3>5. CASE i = n + 1
      BY <1>3, <1>4, <3>2, <3>3, <3>5, Zenon
    <3>6. CASE i \in 1..n
      <4>1. nr[x] = q[i] /\ q[i] \notin {NULL, Sentinel} /\ g[q[i]] = tail(i + 1) /\ g[x] = tail(i)
        BY <1>4, <3>2, <3>3, <3>6, Zenon
      <4>2. tail(i) = <<q[i]>> \o tail(i + 1)
        BY <1>3, <3>6, Zenon
      <4> QED BY <4>1, <4>2, Zenon
    <3> QED BY <3>4, <3>5, <3>6, Zenon
  <2> QED BY <2>3, <2>4, Zenon
<1>7. \A x \in Node : f[x] = step(f, x)
  <2>1. g = [x \in Node |-> step(g, x)]
    BY <1>6, Zenon
  <2> HIDE DEF g
  <2>2. f = [x \in Node |-> step(f, x)]
    BY <2>1, Zenon DEF TasksAfter
  <2> HIDE DEF f
  <2> QED BY <2>2, Zenon
<1> HIDE DEF f, g
<1> DEFINE T == {k \in 0..n : f[Before(q, n + 1 - k)] # tail(n + 1 - k)}
<1>8. T = {}
  <2> SUFFICES ASSUME T # {} PROVE FALSE
    BY Zenon
  <2>1. T \subseteq Nat
    BY <1>1
  <2>2. PICK k \in T : \A y \in T : ~(<<y, k>> \in OpToRel(<, Nat))
    <3> HIDE DEF T
    <3> QED BY <2>1, NatLessThanWellFounded, WFMin
  <2>3. k \in 0..n /\ f[Before(q, n + 1 - k)] # tail(n + 1 - k)
    BY <2>2, Zenon
  <2>4. k # 0
    <3>1. n + 1 - 0 = n + 1
      BY <1>1
    <3>2. f[Before(q, n + 1)] = tail(n + 1)
      <4> HIDE DEF n
      <4> QED BY <1>3, <1>5, <1>7, Zenon
    <3> HIDE DEF n
    <3> QED BY <2>3, <3>1, <3>2, Zenon
  <2> DEFINE i == n + 1 - k
  <2>5. i \in 1..n /\ i + 1 = n + 1 - (k - 1) /\ k - 1 \in 0..n /\ <<k - 1, k>> \in Nat \X Nat /\ k - 1 < k
    BY <1>1, <2>3, <2>4
  <2>6. <<k - 1, k>> \in OpToRel(<, Nat)
    BY <2>5 DEF OpToRel
  <2>7. f[Before(q, n + 1 - (k - 1))] = tail(n + 1 - (k - 1))
    <3> HIDE DEF n
    <3> QED BY <2>2, <2>5, <2>6, Zenon
  <2> HIDE DEF i, n
  <2>8. f[Before(q, i + 1)] = tail(i + 1)
    BY <2>5, <2>7, Zenon
  <2>9. f[Before(q, i)] = <<q[i]>> \o f[Before(q, i + 1)]
    BY <1>5, <1>7, <2>5, Zenon
  <2>10. tail(i) = <<q[i]>> \o tail(i + 1)
    BY <1>3, <2>5, Zenon
  <2> QED BY <2>3, <2>8, <2>9, <2>10, Zenon DEF i
<1>9. n \in 0..n /\ n + 1 - n = 1
  BY <1>1
<1>10. f[Before(q, n + 1 - n)] = tail(n + 1 - n)
  <2> HIDE DEF n
  <2> QED BY <1>8, <1>9, Zenon
<1> HIDE DEF n
<1>11. f[Sentinel] = q
  BY <1>3, <1>9, <1>10, Zenon DEF Before
<1> QED BY <1>11, Zenon DEF f, QueueOf

\* run_list_insert_locked appends to the queue.
LEMMA InsertLists ==
  ASSUME NEW nr, NEW pr, NEW t \in Task, Linked(nr, pr), NEW q, Lists(nr, q), nr[t] = NULL
  PROVE  Lists(InsertNext(nr, pr, t), Append(q, t))
<1> DEFINE tail == pr[Sentinel]
           nr2 == [nr EXCEPT ![t] = Sentinel, ![tail] = t]
           n == Len(q)
           r == Append(q, t)
<1>1. /\ InsertNext(nr, pr, t) = nr2
      /\ t \in Node /\ t # Sentinel /\ Sentinel \in Node /\ NULL \notin Node
      /\ tail \in Node /\ tail # t /\ Sentinel \notin Task /\ NULL \notin Task
      /\ nr \in [Node -> Node \cup {NULL}]
  BY TaskAssumption, Zenon DEF InsertNext, Linked, Node, Task
<1>2. /\ q \in Seq(Task) /\ n \in Nat /\ r \in Seq(Task) /\ Len(r) = n + 1 /\ r[n + 1] = t
      /\ \A i \in 1..n : r[i] = q[i] /\ q[i] \in Task
  BY DEF Lists
<1>3. tail = Before(q, n + 1)
  <2>1. n + 1 \in 1..n + 1
    BY <1>2
  <2>2. Before(q, n + 1) \in Node /\ nr[Before(q, n + 1)] = Sentinel
    BY <2>1, BeforeNode, Zenon DEF Lists
  <2> QED BY <2>2, <1>1, Zenon DEF Linked
<1>4. nr2[t] = Sentinel /\ nr2[tail] = t /\ \A m \in Node : m \notin {t, tail} => nr2[m] = nr[m]
  BY <1>1, Zenon
<1>5. \A m \in Node : nr2[m] # NULL <=> nr[m] # NULL \/ m = t
  <2>1. \A m \in Node : InsertNext(nr, pr, t)[m] # NULL <=> nr[m] # NULL \/ m = t
    BY InsertLinked
  <2> QED BY <1>1, <2>1, Zenon
<1>6. \A i \in 1..n + 1 : Before(r, i) = Before(q, i)
  BY <1>2 DEF Before
<1> HIDE DEF nr2, r, n, tail
<1>7. ASSUME NEW i \in 1..n PROVE nr2[Before(r, i)] = r[i]
  <2>1. i \in 1..n + 1
    BY <1>2
  <2>2. /\ Before(q, i) \in Node /\ nr[Before(q, i)] = q[i] /\ Before(r, i) = Before(q, i)
        /\ r[i] = q[i] /\ q[i] \in Task
    BY <1>2, <1>6, <2>1, BeforeNode, Zenon DEF Lists, n
  <2>3. n + 1 \in 1..n + 1 /\ nr[tail] = Sentinel
    <3>1. nr[tail] = Sentinel
      BY <1>3, Zenon DEF Lists, n
    <3> QED BY <1>2, <3>1
  <2>4. Before(q, i) # tail /\ Before(q, i) # t
    BY <1>1, <2>2, <2>3, Zenon
  <2> QED BY <1>4, <2>2, <2>4, Zenon
<1>8. nr2[Before(r, n + 1)] = r[n + 1]
  <2>1. n + 1 \in 1..n + 1
    BY <1>2
  <2> QED BY <1>2, <1>3, <1>4, <1>6, <2>1, Zenon
<1>9. nr2[Before(r, Len(r) + 1)] = Sentinel
  <2>1. Before(r, Len(r) + 1) = t
    BY <1>2 DEF Before
  <2> QED BY <1>4, <2>1, Zenon
<1>10. \A i \in 1..Len(r) : nr2[Before(r, i)] = r[i]
  BY <1>2, <1>7, <1>8
<1>11. \A i \in 1..n : q[i] # t
  BY Zenon DEF Lists, n
<1>12. \A i, j \in 1..Len(r) : r[i] = r[j] => i = j
  <2>1. \A i, j \in 1..n : q[i] = q[j] => i = j
    BY Zenon DEF Lists, n
  <2> QED BY <1>2, <1>11, <2>1
<1>13. ASSUME NEW u \in Task PROVE nr2[u] # NULL <=> \E i \in 1..Len(r) : r[i] = u
  <2>1. (\E i \in 1..Len(r) : r[i] = u) <=> (\E i \in 1..n : q[i] = u) \/ u = t
    BY <1>2
  <2>2. nr2[u] # NULL <=> nr[u] # NULL \/ u = t
    BY <1>5, Zenon DEF Node
  <2>3. nr[u] # NULL <=> \E i \in 1..n : q[i] = u
    BY Zenon DEF Lists, n
  <2> QED BY <2>1, <2>2, <2>3, Zenon
<1> QED BY <1>1, <1>2, <1>9, <1>10, <1>12, <1>13, Zenon DEF Lists, r

\* A queue without its i-th entry.
LEMMA UnlinkedIs ==
  ASSUME NEW T, NEW q \in Seq(T), NEW i \in 1..Len(q)
  PROVE  /\ Abs!Unlinked(q, i) \in Seq(T) /\ Len(Abs!Unlinked(q, i)) = Len(q) - 1
         /\ \A j \in 1..Len(q) - 1 : Abs!Unlinked(q, i)[j] = IF j < i THEN q[j] ELSE q[j + 1]
<1>1. \A j \in 1..Len(q) - 1 : (IF j < i THEN q[j] ELSE q[j + 1]) \in T
  OBVIOUS
<1> QED BY <1>1 DEF Abs!Unlinked

\* run_list_remove_locked takes its task out of the queue.
LEMMA RemoveLists ==
  ASSUME NEW nr, NEW pr, NEW t \in Task, Linked(nr, pr), NEW q, Lists(nr, q),
         NEW k \in 1..Len(q), q[k] = t
  PROVE  Lists(RemoveNext(nr, pr, t), Abs!Unlinked(q, k))
<1> DEFINE p == pr[t]
           f == nr[t]
           nr2 == [nr EXCEPT ![p] = f, ![t] = NULL]
           n == Len(q)
           r == Abs!Unlinked(q, k)
<1>0. nr[t] # NULL
  BY Zenon DEF Lists
<1>1. /\ RemoveNext(nr, pr, t) = nr2
      /\ t \in Node /\ t # Sentinel /\ t # NULL /\ Sentinel \in Node /\ NULL \notin Node
      /\ Sentinel \notin Task /\ p \in Node /\ nr[p] = t
      /\ nr \in [Node -> Node \cup {NULL}]
  BY <1>0, TaskAssumption, Zenon DEF RemoveNext, Linked, Node, Task
<1>2. /\ q \in Seq(Task) /\ n \in Nat /\ r \in Seq(Task) /\ Len(r) = n - 1
      /\ \A j \in 1..n - 1 : r[j] = IF j < k THEN q[j] ELSE q[j + 1]
  BY UnlinkedIs DEF Lists
<1>3. /\ \A i \in 1..n : nr[Before(q, i)] = q[i] /\ q[i] \in Task
      /\ nr[Before(q, n + 1)] = Sentinel
      /\ \A i, j \in 1..n : q[i] = q[j] => i = j
      /\ \A u \in Task : nr[u] # NULL <=> \E i \in 1..n : q[i] = u
      /\ \A i \in 1..n + 1 : Before(q, i) \in Node
  BY BeforeNode DEF Lists
<1>4. p = Before(q, k)
  <2>1. k \in 1..n + 1
    BY <1>2
  <2> QED BY <1>1, <1>3, <2>1, Zenon DEF Linked
<1>5. nr2[t] = NULL /\ (p # t => nr2[p] = f) /\ \A m \in Node : m \notin {t, p} => nr2[m] = nr[m]
  BY <1>1, Zenon
<1>6. f = IF k = n THEN Sentinel ELSE q[k + 1]
  <2>1. Before(q, k + 1) = t
    BY DEF Before
  <2>2. k # n => k + 1 \in 1..n
    BY <1>2
  <2> QED BY <1>3, <2>1, <2>2, Zenon
<1>7. p # t
  <2>1. k # 1 => k - 1 \in 1..n /\ k - 1 # k
    BY <1>2
  <2>2. k # 1 => q[k - 1] # t
    <3>1. \A i, j \in 1..n : q[i] = q[j] => i = j
      BY Zenon DEF Lists
    <3> QED BY <2>1, <3>1
  <2> QED BY <1>1, <1>4, <2>2, Zenon DEF Before
<1>8. \A m \in Node : nr2[m] # NULL <=> nr[m] # NULL /\ m # t
  <2>1. \A m \in Node : RemoveNext(nr, pr, t)[m] # NULL <=> nr[m] # NULL /\ m # t
    BY RemoveLinked
  <2> QED BY <1>1, <2>1, Zenon
<1> HIDE DEF nr2, r, n, p, f
<1>once. \A i, j \in 1..n : q[i] = q[j] => i = j
  BY <1>3, Zenon
\* a node of the queue other than t and its predecessor keeps its successor
<1>9. ASSUME NEW i \in 1..n, i # k, i # k + 1 PROVE nr2[Before(q, i)] = q[i]
  <2>1. i \in 1..n + 1 /\ k \in 1..n /\ (i # 1 => i - 1 \in 1..n /\ i - 1 # k)
    BY <1>2, <1>9 DEF n
  <2>2. Before(q, i) \in Node /\ nr[Before(q, i)] = q[i]
    BY <1>3, <2>1, Zenon
  <2>3. Before(q, i) # p
    <3>1. q[i] # q[k]
      BY <1>once, <1>9, <2>1, Zenon
    <3> QED BY <1>1, <2>2, <3>1, Zenon
  <2>4. Before(q, i) # t
    BY <1>1, <1>3, <2>1, Zenon DEF Before
  <2> QED BY <1>5, <2>2, <2>3, <2>4, Zenon
<1>10. ASSUME NEW i \in 1..n - 1 PROVE nr2[Before(r, i)] = r[i]
  <2>1. CASE i < k
    <3>1. Before(r, i) = Before(q, i) /\ r[i] = q[i] /\ i \in 1..n /\ i # k /\ i # k + 1
      BY <1>2, <2>1 DEF Before
    <3> QED BY <1>9, <3>1, Zenon
  <2>2. CASE i = k
    <3>1. Before(r, i) = Before(q, k) /\ r[i] = q[k + 1] /\ k # n
      BY <1>2, <2>2 DEF Before
    <3> QED BY <1>4, <1>5, <1>6, <1>7, <3>1, Zenon
  <2>3. CASE i > k
    <3>1. Before(r, i) = Before(q, i + 1) /\ r[i] = q[i + 1] /\ i + 1 \in 1..n /\ i + 1 # k /\ i + 1 # k + 1
      BY <1>2, <2>3 DEF Before
    <3> QED BY <1>9, <3>1, Zenon
  <2> QED BY <2>1, <2>2, <2>3, <1>2
<1>11. nr2[Before(r, Len(r) + 1)] = Sentinel
  <2>1. CASE k = n
    <3>1. Before(r, Len(r) + 1) = Before(q, k)
      BY <1>2, <2>1 DEF Before
    <3> QED BY <1>4, <1>5, <1>6, <1>7, <2>1, <3>1, Zenon
  <2>2. CASE k # n
    <3>1. Before(r, Len(r) + 1) = q[n] /\ Before(q, n + 1) = q[n] /\ n \in 1..n
      BY <1>2, <2>2 DEF Before, n
    <3>2. q[n] # t /\ q[n] \in Node /\ nr[q[n]] = Sentinel
      BY <1>3, <2>2, <3>1, Zenon DEF Node, n
    <3>3. q[n] # p
      BY <1>1, <3>2, Zenon
    <3> QED BY <1>5, <3>1, <3>2, <3>3, Zenon
  <2> QED BY <2>1, <2>2, Zenon
<1>12. ASSUME NEW i \in 1..n - 1, NEW j \in 1..n - 1, r[i] = r[j] PROVE i = j
  <2> DEFINE at(m) == IF m < k THEN m ELSE m + 1
  <2>1. \A m \in 1..n - 1 : at(m) \in 1..n /\ r[m] = q[at(m)]
    BY <1>2
  <2>2. at(i) = at(j)
    <3> HIDE DEF at
    <3>1. at(i) \in 1..n /\ at(j) \in 1..n /\ q[at(i)] = q[at(j)]
      BY <1>12, <2>1, Zenon
    <3> QED BY <1>once, <3>1, Zenon
  <2> QED BY <1>2, <2>2
<1>13. ASSUME NEW u \in Task PROVE nr2[u] # NULL <=> \E i \in 1..Len(r) : r[i] = u
  <2>1. ASSUME NEW i \in 1..Len(r), r[i] = u PROVE nr2[u] # NULL
    <3>1. PICK j \in 1..n : q[j] = u /\ j # k
      BY <1>2, <2>1
    <3>2. k \in 1..n
      BY DEF n
    <3> QED BY <1>3, <1>8, <3>1, <3>2, Zenon DEF Node
  <2>2. ASSUME nr2[u] # NULL PROVE \E i \in 1..Len(r) : r[i] = u
    <3>1. nr[u] # NULL /\ u # t
      BY <1>8, <2>2, Zenon DEF Node
    <3>2. PICK j \in 1..n : q[j] = u
      BY <1>3, <3>1, Zenon
    <3>3. j # k
      BY <3>1, <3>2, Zenon
    <3>4. CASE j < k
      <4>1. j \in 1..Len(r) /\ r[j] = q[j]
        BY <1>2, <3>4 DEF n
      <4> QED BY <3>2, <4>1, Zenon
    <3>5. CASE j > k
      <4>1. j - 1 \in 1..Len(r) /\ r[j - 1] = q[j]
        BY <1>2, <3>5
      <4> QED BY <3>2, <4>1, Zenon
    <3> QED BY <1>2, <3>3, <3>4, <3>5
  <2> QED BY <2>1, <2>2, Zenon
<1> QED BY <1>1, <1>2, <1>10, <1>11, <1>12, <1>13, Zenon DEF Lists, r, n

\* The scheduler's state as SchedAbs sees it, with queue q.
View(x, q, c) == [st |-> x, rq |-> q, cur |-> c]

\* The run list is a queue.
Listed(nr) == Lists(nr, QueueOf(nr))

\* run_list_next_locked finds the task that follows in the queue, cyclically.
LEMMA NextFollows ==
  ASSUME NEW nr, NEW q, Lists(nr, q), nr[Sentinel] \in Task, NEW t \in Task, NEW x, NEW c
  PROVE  RunListNext(nr, t) = Abs!RunListAfter(View(x, q, c), t)
<1> DEFINE n == Len(q)
           v == View(x, q, c)
<1>1. /\ q \in Seq(Task) /\ n \in Nat /\ \A i \in 1..n : q[i] \in Task
      /\ Sentinel \notin Task /\ NULL \notin Task /\ Sentinel # NULL
  BY TaskAssumption DEF Lists, Task
<1>2. n # 0 /\ nr[Sentinel] = q[1]
  <2>1. n # 0
    BY <1>1 DEF Lists, Before
  <2>2. 1 \in 1..n /\ Before(q, 1) = Sentinel
    BY <1>1, <2>1 DEF Before
  <2> QED BY <2>1, <2>2, Zenon DEF Lists
<1>3. v.rq = q
  BY Zenon DEF View
<1>4. Abs!Queued(q, t) <=> nr[t] # NULL
  BY Zenon DEF Abs!Queued, Lists
<1>5. CASE nr[t] = NULL
  <2>1. RunListNext(nr, t) = q[1]
    BY <1>1, <1>2, <1>5 DEF RunListNext
  <2>2. Abs!RunListAfter(v, t) = Head(q)
    BY <1>3, <1>4, <1>5, Zenon DEF Abs!RunListAfter
  <2>3. Head(q) = q[1]
    BY <1>1, <1>2
  <2> QED BY <2>1, <2>2, <2>3, Zenon
<1>6. CASE nr[t] # NULL
  <2> DEFINE k == Abs!RunListIndex(v, t)
  <2>1. k \in 1..n /\ q[k] = t
    BY <1>3, <1>4, <1>6, Zenon DEF Abs!Queued, Abs!RunListIndex
  <2>2. Abs!RunListAfter(v, t) = q[(k % n) + 1]
    BY <1>3, <1>4, <1>6, Zenon DEF Abs!RunListAfter
  <2> HIDE DEF k, v
  <2>3. Before(q, k + 1) = t
    BY <2>1 DEF Before
  <2>4. CASE k = n
    <3>1. nr[t] = Sentinel
      BY <2>3, <2>4, Zenon DEF Lists
    <3>2. RunListNext(nr, t) = q[1]
      BY <1>1, <1>2, <3>1, Zenon DEF RunListNext
    <3>3. k % n = 0
      BY <1>1, <1>2, <2>4
    <3>4. (k % n) + 1 = 1
      BY <3>3
    <3> QED BY <2>2, <3>2, <3>4, Zenon DEF v
  <2>5. CASE k # n
    <3>1. k + 1 \in 1..n /\ k % n = k
      BY <1>1, <2>1, <2>5
    <3>2. nr[t] = q[k + 1] /\ q[k + 1] \in Task
      BY <1>1, <2>3, <3>1, Zenon DEF Lists
    <3>3. RunListNext(nr, t) = q[k + 1]
      BY <1>1, <3>2, <1>6, Zenon DEF RunListNext
    <3> QED BY <2>2, <3>1, <3>3, Zenon DEF v
  <2> QED BY <2>4, <2>5, Zenon
<1> QED BY <1>5, <1>6, Zenon

\* The list after an insertion is the queue that sched_wake promises.
LEMMA InsertIsWake ==
  ASSUME NEW nr, NEW pr, NEW t \in Task, Linked(nr, pr), Listed(nr), NEW x, NEW c
  PROVE  /\ Listed(InsertNext(nr, pr, t))
         /\ Abs!SchedWake(View(x, QueueOf(nr), c), t) =
              View([x EXCEPT ![t] = "RUNNING"], QueueOf(InsertNext(nr, pr, t)), c)
<1> DEFINE q == QueueOf(nr)
           v == View(x, q, c)
           w == View([x EXCEPT ![t] = "RUNNING"], q, c)
<1>1. Lists(nr, q)
  BY Zenon DEF Listed
<1>2. Abs!Queued(q, t) <=> nr[t] # NULL
  BY <1>1, Zenon DEF Abs!Queued, Lists
<1>3. [v EXCEPT !.st[t] = "RUNNING"] = w /\ w.rq = q
  BY DEF View
<1> HIDE DEF v, q
<1>4. CASE nr[t] # NULL
  <2>1. InsertNext(nr, pr, t) = nr
    BY <1>4, Zenon DEF InsertNext
  <2>2. Abs!SchedWake(v, t) = w
    BY <1>2, <1>3, <1>4, Zenon DEF Abs!SchedWake, Abs!RunListInsert
  <2> QED BY <2>1, <2>2, Zenon DEF v, q
<1>5. CASE nr[t] = NULL
  <2>1. Lists(InsertNext(nr, pr, t), Append(q, t))
    BY <1>1, <1>5, InsertLists, Zenon
  <2>2. QueueOf(InsertNext(nr, pr, t)) = Append(q, t)
    BY <2>1, QueueOfIs, Zenon
  <2>3. Abs!SchedWake(v, t) = [w EXCEPT !.rq = Append(q, t)]
    BY <1>2, <1>3, <1>5, Zenon DEF Abs!SchedWake, Abs!RunListInsert
  <2>4. [w EXCEPT !.rq = Append(q, t)] = View([x EXCEPT ![t] = "RUNNING"], Append(q, t), c)
    BY DEF View
  <2> QED BY <2>1, <2>2, <2>3, <2>4, Zenon DEF v, q, Listed
<1> QED BY <1>4, <1>5, Zenon

\* The list after a removal is the queue without the task.
LEMMA RemoveIsRemove ==
  ASSUME NEW nr, NEW pr, NEW t \in Task, Linked(nr, pr), Listed(nr), NEW x, NEW c
  PROVE  /\ Listed(RemoveNext(nr, pr, t))
         /\ Abs!RunListRemove(View(x, QueueOf(nr), c), t) = View(x, QueueOf(RemoveNext(nr, pr, t)), c)
<1> DEFINE q == QueueOf(nr)
           v == View(x, q, c)
<1>1. Lists(nr, q)
  BY Zenon DEF Listed
<1>2. Abs!Queued(q, t) <=> nr[t] # NULL
  BY <1>1, Zenon DEF Abs!Queued, Lists
<1>3. v.rq = q
  BY Zenon DEF View
<1>4. CASE nr[t] = NULL
  <2>1. RemoveNext(nr, pr, t) = nr
    BY <1>4, Zenon DEF RemoveNext
  <2>2. Abs!RunListRemove(v, t) = v
    BY <1>2, <1>3, <1>4, Zenon DEF Abs!RunListRemove
  <2> QED BY <2>1, <2>2, Zenon
<1>5. CASE nr[t] # NULL
  <2> DEFINE k == Abs!RunListIndex(v, t)
  <2>1. k \in 1..Len(q) /\ q[k] = t
    BY <1>2, <1>3, <1>5, Zenon DEF Abs!Queued, Abs!RunListIndex
  <2>2. Abs!RunListRemove(v, t) = [v EXCEPT !.rq = Abs!Unlinked(v.rq, k)]
    BY <1>2, <1>3, <1>5, Zenon DEF Abs!RunListRemove
  <2> HIDE DEF k, q
  <2>4. Lists(RemoveNext(nr, pr, t), Abs!Unlinked(q, k))
    BY <1>1, <2>1, RemoveLists, Zenon
  <2>5. QueueOf(RemoveNext(nr, pr, t)) = Abs!Unlinked(q, k)
    BY <2>4, QueueOfIs, Zenon
  <2>6. [v EXCEPT !.rq = Abs!Unlinked(q, k)] = View(x, Abs!Unlinked(q, k), c)
    BY DEF View
  <2>7. Abs!RunListRemove(v, t) = View(x, Abs!Unlinked(q, k), c)
    BY <1>3, <2>2, <2>6, Zenon
  <2> QED BY <2>4, <2>5, <2>7, Zenon DEF Listed, q
<1> QED BY <1>4, <1>5, Zenon

\* The invariant under which a step of the pointers is a step of the queue.
RefInv == FullInv /\ Listed(next_run)

\* What SchedAbs substitutes for s, here and after a step.
LEMMA SeenIs ==
  /\ Seen = [st |-> state, rq |-> RunQueue, cur |-> cur]
  /\ Seen' = [st |-> state', rq |-> RunQueue', cur |-> cur']
  /\ Seen' = View(state', QueueOf(next_run'), cur')
  /\ Seen = View(state, QueueOf(next_run), cur)
  /\ Seen.cur = cur /\ Seen.st = state
BY Zenon DEF Seen, View, RunQueue

\* sched_init leaves an empty queue.
LEMMA InitRefines == ASSUME Init PROVE Abs!Init /\ Listed(next_run)
<1>1. /\ next_run = [m \in Node |-> IF m = Sentinel THEN Sentinel ELSE NULL]
      /\ Sentinel \in Node /\ Sentinel \notin Task /\ \A t \in Task : t \in Node
  BY TaskAssumption, Zenon DEF Init, Node, Task
<1>2. Lists(next_run, <<>>)
  <2>1. /\ <<>> \in Seq(Task) /\ Len(<<>>) = 0 /\ Before(<<>>, Len(<<>>) + 1) = Sentinel
        /\ \A i \in 1..Len(<<>>) : FALSE
    BY DEF Before
  <2>2. next_run[Sentinel] = Sentinel /\ \A t \in Task : next_run[t] = NULL
    BY <1>1, Zenon
  <2> QED BY <2>1, <2>2, Zenon DEF Lists
<1>3. QueueOf(next_run) = <<>>
  BY <1>2, QueueOfIs, Zenon
<1>4. Abs!Init
  BY <1>3, Zenon DEF Abs!Init, Init, Seen, RunQueue, Task
<1> QED BY <1>2, <1>3, <1>4, Zenon DEF Listed

\* What the invariant says of the run list and the current task.
LEMMA RefFacts ==
  ASSUME RefInv
  PROVE  /\ Linked(next_run, prev_run) /\ Ordered(next_run) /\ Listed(next_run) /\ TypeOK
         /\ \A t \in Task : state[t] = "RUNNING" <=> next_run[t] # NULL
         /\ cur # NULL => /\ cur \in Task /\ next_run[Sentinel] = Idle /\ state[cur] = "RUNNING"
                          /\ state[Idle] = "RUNNING"
         /\ Idle \in Task /\ \A t \in User : t \in Task /\ t # NULL /\ t # Idle
<1>1. Linked(next_run, prev_run) /\ Ordered(next_run) /\ Listed(next_run) /\ TypeOK
      /\ RunListMatchesState
  BY InvLinked, Zenon DEF RefInv, FullInv, IInv
<1>2. Idle \in Task /\ Idle \in Node /\ Sentinel \in Node /\ \A t \in User : t \in Task /\ t # NULL /\ t # Idle
  BY TaskAssumption, Zenon DEF Task, Node
<1>3. cur # NULL => cur \in Task /\ next_run[Sentinel] = Idle /\ state[cur] = "RUNNING"
  BY Zenon DEF RefInv, FullInv, IInv, IdleHeads, TypeOK
<1>4. next_run[Sentinel] = Idle => next_run[Idle] # NULL
  BY <1>1, <1>2, TaskAssumption, Zenon DEF Linked
<1> QED BY <1>1, <1>2, <1>3, <1>4, Zenon DEF RunListMatchesState

\* sched_block and sched_stop are what the queue promises.
LEMMA LeaveRefines ==
  ASSUME RefInv, cur \in User, NEW to_state, Leave(to_state)
  PROVE  Listed(next_run') /\ Seen' = Abs!SchedLeave(Seen, to_state)
<1> DEFINE nr == RemoveNext(next_run, prev_run, cur)
           to == Successor(nr, next_run[cur])
           q == QueueOf(next_run)
<1>1. /\ Linked(next_run, prev_run) /\ Ordered(next_run) /\ Listed(next_run)
      /\ cur \in Task /\ cur # Idle /\ next_run[Sentinel] = Idle /\ next_run[cur] # NULL /\ Idle \in Task
  BY RefFacts, Zenon
<1>2. to \in Task /\ to # Sentinel
  <2>1. to \in Task
    BY <1>1, SuccessorRuns
  <2> QED BY <2>1, TaskAssumption, Zenon DEF Task
<1>3. Listed(nr) /\ Abs!RunListRemove(View(state, q, cur), cur) = View(state, QueueOf(nr), cur)
  BY <1>1, RemoveIsRemove
<1>4. to = RunListNext(next_run, cur)
  <2>1. nr[Sentinel] = next_run[Sentinel]
    BY <1>1, RemoveLinked
  <2>2. Idle # Sentinel /\ Sentinel # NULL
    BY TaskAssumption, Zenon
  <2> HIDE DEF nr
  <2> QED BY <1>1, <2>1, <2>2, Zenon DEF Successor, RunListNext
<1>5. RunListNext(next_run, cur) = Abs!RunListAfter(View(state, q, cur), cur)
  BY <1>1, NextFollows DEF Listed
<1>6. state' = [state EXCEPT ![cur] = to_state] /\ next_run' = nr /\ cur' = to
  <2> HIDE DEF nr, to
  <2> QED BY <1>2, Zenon DEF Leave, SwitchTo, nr, to
<1> HIDE DEF nr, to, q
<1>7. Seen = View(state, q, cur) /\ Seen' = View(state', QueueOf(nr), to)
  BY <1>6, SeenIs, Zenon DEF q
<1>8. Seen.cur = cur
  BY <1>7, Zenon DEF View
<1>9. Abs!SchedLeave(Seen, to_state) = [View(state, QueueOf(nr), cur) EXCEPT !.st[cur] = to_state, !.cur = to]
  BY <1>3, <1>4, <1>5, <1>7, <1>8, Zenon DEF Abs!SchedLeave
<1>10. [View(state, QueueOf(nr), cur) EXCEPT !.st[cur] = to_state, !.cur = to] =
         View([state EXCEPT ![cur] = to_state], QueueOf(nr), to)
  <2> DEFINE v == View(state, QueueOf(nr), cur)
             x == [state EXCEPT ![cur] = to_state]
  <2>1. [v EXCEPT !.st[cur] = to_state, !.cur = to] = [[v EXCEPT !.st[cur] = to_state] EXCEPT !.cur = to]
    OBVIOUS
  <2>2. [v EXCEPT !.st[cur] = to_state] = View(x, QueueOf(nr), cur)
    BY DEF View
  <2>3. [View(x, QueueOf(nr), cur) EXCEPT !.cur = to] = View(x, QueueOf(nr), to)
    BY DEF View
  <2> HIDE DEF v, x
  <2>4. [v EXCEPT !.st[cur] = to_state, !.cur = to] = View(x, QueueOf(nr), to)
    BY <2>1, <2>2, <2>3, Zenon
  <2> QED BY <2>4, Zenon DEF v, x
<1> QED BY <1>3, <1>6, <1>7, <1>9, <1>10, Zenon

\* sched_wake and sched_resume, and the timer's wakeups.
LEMMA WakeRefines ==
  ASSUME RefInv, NEW t \in Task, MakeRunning(t), cur' = cur
  PROVE  Listed(next_run') /\ Seen' = Abs!SchedWake(Seen, t)
<1>1. Linked(next_run, prev_run) /\ Listed(next_run)
  BY RefFacts, Zenon
<1>2. state' = [state EXCEPT ![t] = "RUNNING"] /\ next_run' = InsertNext(next_run, prev_run, t)
  BY Zenon DEF MakeRunning
<1>3. /\ Listed(InsertNext(next_run, prev_run, t))
      /\ Abs!SchedWake(View(state, QueueOf(next_run), cur), t) =
           View([state EXCEPT ![t] = "RUNNING"], QueueOf(InsertNext(next_run, prev_run, t)), cur)
  BY <1>1, InsertIsWake
<1> QED BY <1>2, <1>3, SeenIs, Zenon

\* sched_spawn and sched_add.
LEMMA LinkRefines ==
  ASSUME RefInv, NEW t \in Task, Link(t)
  PROVE  /\ Listed(next_run')
         /\ Seen' = [Abs!SchedAdd(Seen, t) EXCEPT !.cur = IF cur = NULL THEN t ELSE cur]
         /\ cur # NULL => Seen' = Abs!SchedAdd(Seen, t)
<1> DEFINE c == IF cur = NULL THEN t ELSE cur
           nr == InsertNext(next_run, prev_run, t)
           x == [state EXCEPT ![t] = "RUNNING"]
<1>1. Linked(next_run, prev_run) /\ Listed(next_run)
  BY RefFacts, Zenon
<1>2. state' = x /\ next_run' = nr /\ cur' = c
  BY Zenon DEF Link, RingInsert
<1>3. /\ Listed(nr)
      /\ Abs!SchedWake(View(state, QueueOf(next_run), cur), t) = View(x, QueueOf(nr), cur)
  BY <1>1, InsertIsWake
<1>4. Abs!SchedAdd(Seen, t) = Abs!SchedWake(Seen, t)
  BY Zenon DEF Abs!SchedAdd, Abs!SchedWake
<1> HIDE DEF c, nr, x
<1>5. Seen = View(state, QueueOf(next_run), cur) /\ Seen' = View(x, QueueOf(nr), c)
  BY <1>2, SeenIs, Zenon
<1>6. [View(x, QueueOf(nr), cur) EXCEPT !.cur = c] = View(x, QueueOf(nr), c)
  BY DEF View
<1>7. Seen' = [Abs!SchedAdd(Seen, t) EXCEPT !.cur = c]
  BY <1>3, <1>4, <1>5, <1>6, Zenon
<1>8. cur # NULL => Seen' = Abs!SchedAdd(Seen, t)
  BY <1>3, <1>4, <1>5, Zenon DEF c
<1> QED BY <1>2, <1>3, <1>7, <1>8, Zenon DEF c

\* sched_exit: the parent that waits is woken, and control goes to it or to
\* the head of the queue.
LEMMA ExitRefines ==
  ASSUME RefInv, NEW p \in User \cup {NULL}, NEW direct \in BOOLEAN, Exit(p, direct)
  PROVE  /\ Listed(next_run')
         /\ Abs!Exit(p)
         /\ p # cur
<1> DEFINE nr1 == RemoveNext(next_run, prev_run, cur)
           pr1 == RemovePrev(next_run, prev_run, cur)
           st1 == [state EXCEPT ![cur] = "ZOMBIE"]
           chld == p # NULL /\ st1[p] = "BLOCKED"
           nr2 == IF chld THEN InsertNext(nr1, pr1, p) ELSE nr1
           st2 == IF chld THEN [st1 EXCEPT ![p] = "RUNNING"] ELSE st1
           to == IF direct THEN p ELSE RunListNext(nr2, cur)
           z == View(st1, QueueOf(nr1), cur)
           w == View(st2, QueueOf(nr2), cur)
<1>1. /\ Linked(next_run, prev_run) /\ Listed(next_run) /\ TypeOK
      /\ cur \in User /\ cur \in Task /\ cur # Idle /\ next_run[Sentinel] = Idle
      /\ Idle \in Task /\ ready /\ p # cur /\ (p # NULL => p \in Task)
      /\ Sentinel \notin Task /\ NULL \notin Task /\ Idle # NULL
  BY RefFacts, TaskAssumption, Zenon DEF Exit, Up, Task
<1>2. /\ Listed(nr1)
      /\ Abs!RunListRemove(View(state, QueueOf(next_run), cur), cur) = View(state, QueueOf(nr1), cur)
  BY <1>1, RemoveIsRemove
<1>3. Linked(nr1, pr1) /\ nr1[Sentinel] = Idle /\ nr1[cur] = NULL
  <2>1. Linked(nr1, pr1) /\ nr1[Sentinel] = Idle
    BY <1>1, RemoveLinked
  <2>2. \A m \in Node : nr1[m] # NULL <=> next_run[m] # NULL /\ m # cur
    BY <1>1, RemoveLinked
  <2> HIDE DEF nr1
  <2> QED BY <1>1, <2>1, <2>2, Zenon DEF Node
<1> HIDE DEF nr1, pr1
<1>4. Listed(nr2) /\ nr2[Sentinel] = Idle /\ nr2[cur] = NULL
  <2>1. CASE chld
    <3>1. Listed(InsertNext(nr1, pr1, p))
      BY <1>1, <1>2, <1>3, <2>1, InsertIsWake
    <3>2. InsertNext(nr1, pr1, p)[Sentinel] = nr1[Sentinel]
      BY <1>1, <1>3, <2>1, InsertLinked
    <3>3. \A m \in Node : InsertNext(nr1, pr1, p)[m] # NULL <=> nr1[m] # NULL \/ m = p
      BY <1>1, <1>3, <2>1, InsertLinked
    <3>4. InsertNext(nr1, pr1, p)[cur] = NULL
      BY <1>1, <1>3, <3>3, Zenon DEF Node
    <3> QED BY <1>3, <2>1, <3>1, <3>2, <3>4, Zenon
  <2>2. CASE ~chld
    BY <1>2, <1>3, <2>2, Zenon
  <2> QED BY <2>1, <2>2, Zenon
<1>5. Abs!SchedZombie(Seen) = z
  <2>1. Seen = View(state, QueueOf(next_run), cur) /\ Seen.cur = cur
    BY SeenIs, Zenon
  <2>2. Abs!SchedZombie(Seen) = [View(state, QueueOf(nr1), cur) EXCEPT !.st[cur] = "ZOMBIE"]
    BY <1>2, <2>1, Zenon DEF Abs!SchedZombie
  <2>3. [View(state, QueueOf(nr1), cur) EXCEPT !.st[cur] = "ZOMBIE"] = z
    BY DEF View
  <2> QED BY <2>2, <2>3, Zenon
<1>6. z.st = st1 /\ w.st = st2 /\ z.cur = cur /\ w.cur = cur
  BY Zenon DEF View
<1>7. (IF p # NULL /\ z.st[p] = "BLOCKED" THEN Abs!SchedWake(z, p) ELSE z) = w
  <2>1. CASE chld
    <3>1. Abs!SchedWake(z, p) = View([st1 EXCEPT ![p] = "RUNNING"], QueueOf(InsertNext(nr1, pr1, p)), cur)
      <4> HIDE DEF st1
      <4> QED BY <1>1, <1>2, <1>3, <2>1, InsertIsWake
    <3> QED BY <1>6, <2>1, <3>1, Zenon
  <2>2. CASE ~chld
    BY <1>6, <2>2, Zenon
  <2> QED BY <2>1, <2>2, Zenon
<1>8. RunListNext(nr2, cur) = Abs!RunListAfter(w, cur) /\ RunListNext(nr2, cur) = Idle
  <2>1. RunListNext(nr2, cur) = Idle
    <3> HIDE DEF nr2
    <3> QED BY <1>1, <1>4, Zenon DEF RunListNext
  <2>2. RunListNext(nr2, cur) = Abs!RunListAfter(w, cur)
    <3> HIDE DEF nr2, st2
    <3> QED BY <1>1, <1>4, NextFollows DEF Listed
  <2> QED BY <2>1, <2>2, Zenon
<1>9. /\ state' = st2 /\ next_run' = nr2 /\ ready' = ready
      /\ direct => p # NULL /\ st2[p] = "RUNNING"
      /\ IF to = NULL THEN Panic ELSE SwitchTo(to, Master)
  BY Zenon DEF Exit, nr1, pr1
<1>10. to # NULL /\ cur' = to
  <2>1. to # NULL
    <3> HIDE DEF nr2, st2
    <3> QED BY <1>1, <1>8, <1>9, Zenon
  <2> QED BY <1>9, <2>1, Zenon DEF SwitchTo
<1> HIDE DEF nr2, st2, to, z, w, st1
<1>11. Seen' = View(st2, QueueOf(nr2), to)
  BY <1>9, <1>10, SeenIs, Zenon
<1>12. View(st2, QueueOf(nr2), to) = Abs!SchedSwitch(w, to)
  BY DEF View, w, Abs!SchedSwitch
<1>13. \/ Seen' = Abs!SchedYieldToNext(w)
       \/ p # NULL /\ w.st[p] = "RUNNING" /\ Seen' = Abs!SchedSwitch(w, p)
  <2>1. CASE direct
    BY <2>1, <1>6, <1>9, <1>11, <1>12, Zenon DEF to
  <2>2. CASE ~direct
    BY <2>2, <1>6, <1>8, <1>11, <1>12, Zenon DEF to, Abs!SchedYieldToNext
  <2> QED BY <2>1, <2>2, Zenon
<1>14. Seen.cur = cur
  BY SeenIs, Zenon
<1>15. Abs!Exit(p)
  <2>1. Seen = [st |-> state, rq |-> RunQueue, cur |-> cur] /\ Seen' = [st |-> state', rq |-> RunQueue', cur |-> cur']
    BY SeenIs, Zenon
  <2>2. ready /\ Seen.cur \in User /\ ready' = ready
    BY <1>1, <1>9, <1>14, Zenon
  <2> QED BY <1>5, <1>7, <1>13, <2>1, <2>2, Zenon DEF Abs!Exit, Abs!Keep
<1> QED BY <1>1, <1>4, <1>9, <1>15, Zenon

\* TickPick: round robin is the queue's preemption.
LEMMA PickRefines ==
  ASSUME RefInv, TickPick
  PROVE  Listed(next_run') /\ Abs!Preempt
<1> DEFINE to == RunListNext(next_run, cur)
<1>1. ready
  BY Zenon DEF RefInv, FullInv, IInv, IdleHeads, TickPick
<1>2. cur # NULL
  BY <1>1, Zenon DEF RefInv, FullInv, IInv, IdleHeads
<1>3. Listed(next_run) /\ cur \in Task /\ next_run[Sentinel] = Idle /\ Idle \in Task
  BY <1>2, RefFacts, Zenon
<1>4. next_run[Sentinel] \in Task
  BY <1>3, Zenon
<1>5. to = Abs!RunListAfter(View(state, QueueOf(next_run), cur), cur)
  BY <1>3, <1>4, NextFollows DEF Listed
<1>6. to # NULL
  BY <1>3, TaskAssumption, Zenon DEF RunListNext, Task
<1>7. cur' = to /\ state' = state /\ next_run' = next_run /\ ready' = ready
  <2> HIDE DEF to
  <2> QED BY <1>6, Zenon DEF TickPick, SwitchTo, lists, to
<1> HIDE DEF to
<1>8. Seen' = View(state, QueueOf(next_run), to)
  BY <1>7, SeenIs, Zenon
<1>9. View(state, QueueOf(next_run), to) = Abs!SchedSwitch(View(state, QueueOf(next_run), cur), to)
  BY DEF View, Abs!SchedSwitch
<1>10. Seen' = Abs!SchedPreempt(Seen)
  <2>1. Seen = View(state, QueueOf(next_run), cur) /\ Seen.cur = cur
    BY SeenIs, Zenon
  <2> QED BY <1>5, <1>8, <1>9, <2>1, Zenon DEF Abs!SchedPreempt
<1>11. Abs!Preempt
  BY <1>1, <1>7, <1>10, SeenIs, Zenon DEF Abs!Preempt, Abs!Keep
<1> QED BY <1>3, <1>7, <1>11, Zenon

\* A step that changes neither the states, nor the run list, nor the current
\* task leaves the queue alone.
LEMMA SameSeen ==
  ASSUME state' = state, next_run' = next_run, cur' = cur
  PROVE  Seen' = Seen
BY SeenIs, Zenon

\* Every step of the scheduler is a step of the queue, or none.
LEMMA StepRefines ==
  ASSUME RefInv, [Next]_vars
  PROVE  Listed(next_run') /\ (Abs!Next \/ (Seen' = Seen /\ ready' = ready))
<1> DEFINE Goal == Listed(next_run') /\ (Abs!Next \/ (Seen' = Seen /\ ready' = ready))
<1>0. /\ Listed(next_run) /\ Idle \in Task /\ (\A t \in User : t \in Task /\ t # NULL /\ t # Idle)
      /\ Seen.cur = cur /\ Seen.st = state
      /\ Seen = [st |-> state, rq |-> RunQueue, cur |-> cur]
      /\ Seen' = [st |-> state', rq |-> RunQueue', cur |-> cur']
  BY RefFacts, SeenIs, Zenon
<1>1. CASE Spawn
  <2>1. cur = NULL /\ ready = FALSE /\ Link(Idle) /\ ready' = ready
    <3>1. ready \in BOOLEAN
      BY RefFacts, Zenon DEF TypeOK
    <3> QED BY <1>1, <3>1, Zenon DEF Spawn, Link
  <2>2. Listed(next_run') /\ Seen' = [Abs!SchedAdd(Seen, Idle) EXCEPT !.cur = Idle]
    BY <1>0, <2>1, LinkRefines, Zenon
  <2>3. Abs!Spawn
    BY <1>0, <2>1, <2>2, Zenon DEF Abs!Spawn, Abs!Keep
  <2> QED BY <2>2, <2>3, Zenon DEF Abs!Next
<1>2. CASE Start
  <2>1. Seen' = Seen /\ next_run' = next_run
    BY <1>2, SameSeen, Zenon DEF Start, lists
  <2>2. Abs!Start
    BY <1>0, <1>2, <2>1, Zenon DEF Abs!Start, Start
  <2> QED BY <1>0, <2>1, <2>2, Zenon DEF Abs!Next
<1>3. CASE Block \/ \E n \in 0..MaxSleep : NanoSleep(n)
  <2>1. cur \in User /\ Leave("BLOCKED") /\ ready /\ ready' = ready
    BY <1>3, Zenon DEF Block, NanoSleep, Up
  <2>2. Listed(next_run') /\ Seen' = Abs!SchedLeave(Seen, "BLOCKED")
    BY <2>1, LeaveRefines, Zenon
  <2>3. Abs!Block
    BY <1>0, <2>1, <2>2, Zenon DEF Abs!Block, Abs!SchedBlock, Abs!Keep
  <2> QED BY <2>2, <2>3, Zenon DEF Abs!Next
<1>4. CASE Stop
  <2>1. cur \in User /\ Leave("STOPPED") /\ ready /\ ready' = ready
    BY <1>4, Zenon DEF Stop, Up
  <2>2. Listed(next_run') /\ Seen' = Abs!SchedLeave(Seen, "STOPPED")
    BY <2>1, LeaveRefines, Zenon
  <2>3. Abs!Stop
    BY <1>0, <2>1, <2>2, Zenon DEF Abs!Stop, Abs!SchedStop, Abs!Keep
  <2> QED BY <2>2, <2>3, Zenon DEF Abs!Next
<1>5. ASSUME NEW t \in User, Add(t) PROVE Goal
  <2>1. cur # NULL /\ Link(t) /\ ready' = ready /\ state[t] = "free" /\ t \in Task
    BY <1>0, <1>5, Zenon DEF Add, Link
  <2>2. Listed(next_run') /\ Seen' = Abs!SchedAdd(Seen, t)
    BY <2>1, LinkRefines, Zenon
  <2>3. Abs!Add(t)
    BY <1>0, <2>1, <2>2, Zenon DEF Abs!Add, Abs!Keep
  <2> QED BY <2>2, <2>3, Zenon DEF Abs!Next
<1>6. ASSUME NEW t \in User, Wake(t) PROVE Goal
  <2>1. MakeRunning(t) /\ cur' = cur /\ ready /\ ready' = ready /\ t \in Task
        /\ state[t] \in {"RUNNING", "BLOCKED", "STOPPED"}
    BY <1>0, <1>6, Zenon DEF Wake, Up
  <2>2. Listed(next_run') /\ Seen' = Abs!SchedWake(Seen, t)
    BY <2>1, WakeRefines, Zenon
  <2>3. Abs!Wake(t)
    BY <1>0, <2>1, <2>2, Zenon DEF Abs!Wake, Abs!Keep
  <2> QED BY <2>2, <2>3, Zenon DEF Abs!Next
<1>7. ASSUME NEW t \in User, Resume(t) PROVE Goal
  <2>1. MakeRunning(t) /\ cur' = cur /\ ready /\ ready' = ready /\ t \in Task /\ state[t] = "STOPPED"
    BY <1>0, <1>7, Zenon DEF Resume, Up
  <2>2. Listed(next_run') /\ Seen' = Abs!SchedWake(Seen, t)
    BY <2>1, WakeRefines, Zenon
  <2>3. Abs!SchedResume(Seen, t) = Abs!SchedWake(Seen, t)
    BY Zenon DEF Abs!SchedResume, Abs!SchedWake
  <2>4. Abs!Resume(t)
    BY <1>0, <2>1, <2>2, <2>3, Zenon DEF Abs!Resume, Abs!Keep
  <2> QED BY <2>2, <2>4, Zenon DEF Abs!Next
<1>8. ASSUME NEW t \in User, Reap(t) PROVE Goal
  <2>1. /\ ready /\ ready' = ready /\ t # cur /\ state[t] = "ZOMBIE"
        /\ state' = [state EXCEPT ![t] = "free"] /\ next_run' = next_run /\ cur' = cur
    BY <1>8, Zenon DEF Reap, Up
  <2>2. Seen' = [Seen EXCEPT !.st[t] = "free"]
    <3>1. Seen' = View([state EXCEPT ![t] = "free"], QueueOf(next_run), cur)
          /\ Seen = View(state, QueueOf(next_run), cur)
      BY <2>1, SeenIs, Zenon
    <3>2. [View(state, QueueOf(next_run), cur) EXCEPT !.st[t] = "free"] =
            View([state EXCEPT ![t] = "free"], QueueOf(next_run), cur)
      BY DEF View
    <3> QED BY <3>1, <3>2, Zenon
  <2>3. Abs!Reap(t)
    BY <1>0, <2>1, <2>2, Zenon DEF Abs!Reap, Abs!Keep
  <2> QED BY <1>0, <2>1, <2>3, Zenon DEF Abs!Next
<1>9. ASSUME NEW p \in User \cup {NULL}, NEW direct \in BOOLEAN, Exit(p, direct) PROVE Goal
  <2>1. Listed(next_run') /\ Abs!Exit(p) /\ p # cur
    BY <1>9, ExitRefines, Zenon
  <2>2. p \in (User \cup {NULL}) \ {Seen.cur}
    BY <1>0, <2>1, Zenon
  <2> QED BY <1>0, <2>1, <2>2, Zenon DEF Abs!Next
<1>10. CASE TickScan
  <2>1. ready' = ready /\ cur' = cur
    BY <1>10, Zenon DEF TickScan
  <2>2. CASE state[scan] = "BLOCKED" /\ sleep[scan] = 0
    <3>1. MakeRunning(scan)
      BY <1>10, <2>2, Zenon DEF TickScan
    <3>2. ready /\ scan \in Task
      BY <1>10, Zenon DEF TickScan, RefInv, FullInv, IInv, IdleHeads, Allocated
    <3>3. scan \in User
      <4>1. cur # NULL => state[Idle] = "RUNNING"
        BY RefFacts, Zenon
      <4>2. cur # NULL
        BY <3>2, Zenon DEF RefInv, FullInv, IInv, IdleHeads
      <4> QED BY <2>2, <3>2, <4>1, <4>2, Zenon DEF Task
    <3>4. Listed(next_run') /\ Seen' = Abs!SchedWake(Seen, scan)
      BY <2>1, <3>1, <3>2, WakeRefines, Zenon
    <3>5. Abs!Wake(scan)
      BY <1>0, <2>1, <2>2, <3>2, <3>4, Zenon DEF Abs!Wake, Abs!Keep
    <3> QED BY <3>3, <3>4, <3>5, Zenon DEF Abs!Next
  <2>3. CASE ~(state[scan] = "BLOCKED" /\ sleep[scan] = 0)
    <3>1. state' = state /\ next_run' = next_run
      BY <1>10, <2>3, Zenon DEF TickScan
    <3> QED BY <1>0, <2>1, <3>1, SameSeen, Zenon
  <2> QED BY <2>2, <2>3, Zenon
<1>11. CASE TickPick
  BY <1>11, PickRefines, Zenon DEF Abs!Next
<1>12. CASE (\E adv \in {0, 1} : TickBegin(adv)) \/ PowerOff \/ Stopped \/ UNCHANGED vars
  <2>1. state' = state /\ next_run' = next_run /\ cur' = cur /\ ready' = ready
    BY <1>12, Zenon DEF TickBegin, PowerOff, Stopped, vars, lists
  <2> QED BY <1>0, <2>1, SameSeen, Zenon
<1> QED BY <1>1, <1>2, <1>3, <1>4, <1>5, <1>6, <1>7, <1>8, <1>9, <1>10, <1>11, <1>12, Zenon DEF Next, Tick

\* sched.c implements the round-robin queue of SchedAbs, for any set of user
\* tasks: every insert, removal and switch by pointers is the one promised.
THEOREM SchedRefinesQueue == Spec => RefinesQueue
<1>1. Init => RefInv /\ Abs!Init
  BY InitInv, InitRefines, Zenon DEF RefInv
<1>2. RefInv /\ [Next]_vars => RefInv'
  <2> SUFFICES ASSUME RefInv, [Next]_vars PROVE RefInv'
    BY Zenon
  <2>1. FullInv'
    BY NextInv, Zenon DEF RefInv
  <2>2. Listed(next_run)'
    BY StepRefines, Zenon
  <2> QED BY <2>1, <2>2, Zenon DEF RefInv
<1>3. RefInv /\ [Next]_vars => [Abs!Next]_<<Seen, ready>>
  <2> SUFFICES ASSUME RefInv, [Next]_vars
               PROVE  [Abs!Next]_<<Seen, ready>>
    BY Zenon
  <2>1. Abs!Next \/ (Seen' = Seen /\ ready' = ready)
    BY StepRefines, Zenon
  <2>2. Seen = [st |-> state, rq |-> RunQueue, cur |-> cur] /\ Seen' = [st |-> state', rq |-> RunQueue', cur |-> cur']
    BY SeenIs, Zenon
  <2> QED BY <2>1, <2>2, Zenon
<1> QED BY <1>1, <1>2, <1>3, PTL DEF Spec, RefinesQueue, Abs!Spec

(* ── Signal delivery ───────────────────────────────────────────────────── *)

Frame == [sig : SigSet, mask : SUBSET SigSet, regs : [Regs -> 0..MaxDepth \cup {Junk}]]

\* The types, and only the catchable signals have an action of their own.
STypes ==
  /\ SignalTypeOK
  /\ frames \in Seq(Frame)
  /\ \A x \in SigSet : x \notin Catchable => sigactions[x] = Default

\* Each frame keeps the core registers of the context below it.
SCore ==
  /\ regs["core"] = Depth
  /\ \A i \in 1..Depth : frames[i].regs["core"] = i - 1

\* A signal is masked from the entry of its handler to its end: in the mask now
\* and in the masks that the handlers above it will restore.
SMasked ==
  /\ \A i \in 1..Depth : frames[i].sig \in Catchable /\ frames[i].sig \in signal_mask
  /\ \A i, j \in 1..Depth : i < j => frames[i].sig \in frames[j].mask

\* The program's mask is in force, or waits in sigsuspend or in the lowest frame.
SMask ==
  IF Depth = 0
    THEN IF mode = "suspend" THEN old_mask = prog_mask ELSE signal_mask = prog_mask
    ELSE mode # "suspend" /\ frames[1].mask = prog_mask

SInv == STypes /\ SCore /\ SMasked /\ NoReentry /\ SMask

\* What a step that builds or drops no frame and leaves the masks alone keeps.
LEMMA SignalKept ==
  ASSUME SInv, UNCHANGED <<frames, signal_mask, prog_mask, old_mask>>,
         regs'["core"] = regs["core"], mode' = "suspend" <=> mode = "suspend"
  PROVE  SCore' /\ SMasked' /\ NoReentry' /\ SMask'
<1>1. Depth' = Depth
  BY Zenon DEF Depth
<1>2. SCore' /\ SMasked'
  BY <1>1, Zenon DEF SInv, SCore, SMasked
<1>3. NoReentry' /\ SMask'
  BY <1>1, Zenon DEF SInv, NoReentry, SMask
<1> QED BY <1>2, <1>3, Zenon

\* signal_deliver picks a signal that is pending and not masked.
LEMMA NextIsDeliverable ==
  ASSUME pending \subseteq SigSet, Deliverable # {}
  PROVE  NextSignal \in Deliverable
<1>1. Deliverable \subseteq {Sig[1], Sig[2], Sig[3], Sig[4]} /\ Len(Sig) = 4
  BY Zenon DEF Deliverable, Sig, SigSet
<1>2. \E i \in 1..4 : FirstDeliverable(i)
  <2>1. CASE Sig[1] \in Deliverable
    BY <2>1 DEF FirstDeliverable
  <2>2. CASE Sig[1] \notin Deliverable /\ Sig[2] \in Deliverable
    <3>1. \A j \in 1..2 - 1 : j = 1
      OBVIOUS
    <3> QED BY <2>2, <3>1 DEF FirstDeliverable
  <2>3. CASE Sig[1] \notin Deliverable /\ Sig[2] \notin Deliverable /\ Sig[3] \in Deliverable
    <3>1. \A j \in 1..3 - 1 : j = 1 \/ j = 2
      OBVIOUS
    <3> QED BY <2>3, <3>1 DEF FirstDeliverable
  <2>4. CASE /\ Sig[1] \notin Deliverable /\ Sig[2] \notin Deliverable
             /\ Sig[3] \notin Deliverable /\ Sig[4] \in Deliverable
    <3>1. \A j \in 1..4 - 1 : j = 1 \/ j = 2 \/ j = 3
      OBVIOUS
    <3> QED BY <2>4, <3>1 DEF FirstDeliverable
  <2> QED BY <1>1, <2>1, <2>2, <2>3, <2>4, Zenon
<1>3. FirstDeliverable(CHOOSE i \in 1..4 : FirstDeliverable(i))
  BY <1>2, Zenon
<1> QED BY <1>1, <1>3, Zenon DEF NextSignal, FirstDeliverable

\* signal_deliver and signal_deliver_sysret enter a handler.
LEMMA EnterInv ==
  ASSUME SInv, mode \in {"sysret", "iretq"}, UNCHANGED <<sigactions, old_mask, prog_mask>>,
         st = "RUNNING", NEW sig \in Deliverable, EnterHandler(sig)
  PROVE  SInv'
<1>0. /\ STypes /\ SCore /\ SMasked /\ NoReentry /\ SMask
      /\ SignalTypeOK /\ Depth \in Nat
  BY DEF SInv, STypes, Depth
<1>1. sig \in SigSet /\ sig \notin signal_mask /\ sig \in Catchable
  <2>1. sig \in SigSet /\ sig \notin signal_mask
    BY <1>0, Zenon DEF Deliverable, SignalTypeOK
  <2>2. sigactions[sig].h = "fn" /\ Default.h = "DFL" /\ "fn" # "DFL"
    BY Zenon DEF EnterHandler, Default
  <2>3. sigactions[sig] # Default
    BY <2>2, Zenon
  <2> QED BY <1>0, <2>1, <2>3, Zenon DEF STypes
<1>2. CASE st' = "ZOMBIE" /\ UNCHANGED <<mode, signal_mask, regs, frames>>
  <2>1. STypes'
    BY <1>0, <1>2, Zenon DEF STypes, SignalTypeOK, Depth, EnterHandler
  <2> QED BY <1>2, <2>1, SignalKept, Zenon DEF SInv
<1>3. CASE /\ Depth < MaxDepth
           /\ frames' = Append(frames, [sig |-> sig, mask |-> signal_mask, regs |-> regs])
           /\ signal_mask' = HandlerMask(sig)
           /\ regs' = Context(Depth + 1) /\ mode' = "user" /\ UNCHANGED st
  <2> DEFINE f == [sig |-> sig, mask |-> signal_mask, regs |-> regs]
  <2>1. f \in Frame /\ frames \in Seq(Frame)
    BY <1>0, <1>1, Zenon DEF Frame, SignalTypeOK, STypes
  <2>2. f.sig = sig /\ f.mask = signal_mask /\ f.regs = regs
    BY Zenon
  <2>3. frames' = Append(frames, f)
    BY <1>3, Zenon
  <2> HIDE DEF f
  <2>4. /\ frames' \in Seq(Frame) /\ Depth' = Depth + 1 /\ frames'[Depth'] = f
        /\ \A i \in 1..Depth : frames'[i] = frames[i]
    BY <2>1, <2>3 DEF Depth
  <2>5. \A i \in 1..Depth' : i \in 1..Depth \/ i = Depth'
    BY <2>4, <1>0
  <2>6. regs'["core"] = Depth' /\ regs' \in [Regs -> 0..MaxDepth \cup {Junk}] /\ Depth' <= MaxDepth
    BY <1>0, <1>3, <2>4, SignalAssumption DEF Context, Regs
  <2>7. sigactions[sig].m \subseteq SigSet
    BY <1>0, <1>1, SignalAssumption DEF SignalTypeOK, Default
  <2>8. /\ signal_mask' \subseteq SigSet /\ sig \in signal_mask'
        /\ \A x \in signal_mask : x \in signal_mask'
    BY <1>0, <1>1, <1>3, <2>7, Zenon DEF HandlerMask, SignalTypeOK
  <2>9. STypes'
    <3>1. SignalTypeOK'
      BY <1>0, <1>3, <2>6, <2>8, Zenon DEF SignalTypeOK, EnterHandler
    <3> QED BY <1>0, <2>4, <3>1, Zenon DEF STypes
  <2>10. SCore'
    <3>1. f.regs["core"] = Depth' - 1
      BY <1>0, <2>2, <2>4 DEF SCore
    <3>2. \A i \in 1..Depth' : frames'[i].regs["core"] = i - 1
      BY <1>0, <2>4, <2>5, <3>1, Zenon DEF SCore
    <3> QED BY <2>6, <3>2, Zenon DEF SCore
  <2>11. SMasked'
    <3>1. \A i \in 1..Depth' : frames'[i].sig \in Catchable /\ frames'[i].sig \in signal_mask'
      BY <1>0, <1>1, <2>2, <2>4, <2>5, <2>8, Zenon DEF SMasked
    <3>2. ASSUME NEW i \in 1..Depth', NEW j \in 1..Depth', i < j
          PROVE  frames'[i].sig \in frames'[j].mask
      <4>1. i \in 1..Depth
        BY <1>0, <2>4, <3>2
      <4>2. frames'[i].sig \in signal_mask
        BY <1>0, <2>4, <4>1, Zenon DEF SMasked
      <4>3. CASE j = Depth'
        BY <2>2, <2>4, <4>2, <4>3, Zenon
      <4>4. CASE j \in 1..Depth
        BY <1>0, <2>4, <3>2, <4>1, <4>4, Zenon DEF SMasked
      <4> QED BY <2>5, <4>3, <4>4, Zenon
    <3> QED BY <3>1, <3>2, Zenon DEF SMasked
  <2>12. NoReentry'
    <3>1. \A i \in 1..Depth : frames[i].sig # sig
      BY <1>0, <1>1, Zenon DEF SMasked
    <3> QED BY <1>0, <2>2, <2>4, <2>5, <3>1, Zenon DEF NoReentry
  <2>13. SMask'
    <3>1. Depth' # 0 /\ mode' # "suspend"
      BY <1>0, <1>3, <2>4
    <3>2. CASE Depth = 0
      BY <1>0, <2>2, <2>4, <3>1, <3>2 DEF SMask
    <3>3. CASE Depth # 0
      <4>1. 1 \in 1..Depth
        BY <1>0, <3>3
      <4> QED BY <1>0, <2>4, <3>1, <3>3, <4>1, Zenon DEF SMask
    <3> QED BY <3>2, <3>3, Zenon
  <2> QED BY <2>9, <2>10, <2>11, <2>12, <2>13, Zenon DEF SInv
<1> QED BY <1>2, <1>3, Zenon DEF EnterHandler

\* The return to user mode, whatever the action of the signal it takes.
LEMMA DeliverInv ==
  ASSUME SInv, Deliver
  PROVE  SInv'
<1>0. STypes /\ SignalTypeOK /\ mode \in {"sysret", "iretq"}
  BY Zenon DEF SInv, STypes, Deliver
<1>1. CASE NoSignal
  <2>1. STypes'
    BY <1>0, <1>1, Zenon DEF STypes, SignalTypeOK, Depth, NoSignal, Deliver
  <2> QED BY <1>0, <1>1, <2>1, SignalKept, Zenon DEF SInv, NoSignal, Deliver
<1>2. ASSUME Deliverable # {}, NEW sig \in Deliverable,
             DefaultAction(sig) \/ IgnoreAction(sig)
      PROVE  SInv'
  <2>1. /\ mode' = "user" /\ UNCHANGED <<signal_mask, regs, frames>>
        /\ pending' \subseteq pending /\ st' \in {st, "STOPPED", "ZOMBIE"}
    BY <1>2, Zenon DEF DefaultAction, IgnoreAction
  <2>2. STypes'
    BY <1>0, <2>1, Zenon DEF STypes, SignalTypeOK, Depth, Deliver
  <2> QED BY <1>0, <2>1, <2>2, SignalKept, Zenon DEF SInv, Deliver
<1>3. ASSUME Deliverable # {}, DefaultAction(NextSignal) \/ IgnoreAction(NextSignal)
                                \/ EnterHandler(NextSignal)
      PROVE  SInv'
  <2>1. NextSignal \in Deliverable
    BY <1>0, <1>3, NextIsDeliverable, Zenon DEF SignalTypeOK
  <2> QED BY <1>0, <1>2, <1>3, <2>1, EnterInv, Zenon DEF Deliver
<1> QED BY <1>1, <1>3, Zenon DEF Deliver

\* sys_rt_sigreturn drops the top frame and restores what it saved.
LEMMA SigreturnInv ==
  ASSUME SInv, Sigreturn
  PROVE  SInv'
<1>0. /\ STypes /\ SCore /\ SMasked /\ NoReentry /\ SMask /\ SignalTypeOK
      /\ frames \in Seq(Frame) /\ frames # <<>>
      /\ frames' = SubSeq(frames, 1, Depth - 1)
  BY Zenon DEF SInv, STypes, Sigreturn
<1>1. Depth \in Nat /\ Depth \in 1..Depth /\ Top \in Frame
  BY <1>0 DEF Depth, Top
<1>2. /\ frames' \in Seq(Frame) /\ Depth' = Depth - 1
      /\ \A i \in 1..Depth' : i \in 1..Depth /\ i < Depth /\ frames'[i] = frames[i]
  <2>1. 1..Depth - 1 \subseteq 1..Depth
    BY <1>1
  <2>2. \A i \in 1..Depth - 1 : frames[i] \in Frame
    BY <1>0, <2>1 DEF Depth
  <2>3. SubSeq(frames, 1, Depth - 1) = [i \in 1..Depth - 1 |-> frames[i]]
    BY <1>0, <1>1
  <2>4. frames' \in Seq(Frame) /\ Len(frames') = Depth - 1
    BY <1>0, <1>1, <2>2, <2>3
  <2> QED BY <1>0, <1>1, <2>1, <2>3, <2>4 DEF Depth
<1>3. /\ signal_mask' = Maskable(Top.mask) /\ regs' = RestoredRegs(regs, Top.regs)
      /\ mode = "user" /\ mode' = "user"
      /\ UNCHANGED <<st, pending, sigactions, old_mask, prog_mask>>
  BY Zenon DEF Sigreturn, InUserMode
<1>4. /\ Top.mask \subseteq SigSet /\ Top.regs \in [Regs -> 0..MaxDepth \cup {Junk}]
  BY <1>1, Zenon DEF Frame
<1>5. regs' \in [Regs -> 0..MaxDepth \cup {Junk}] /\ regs'["core"] = Depth'
  <2>1. Top.regs["core"] = Depth - 1
    BY <1>0, <1>1, Zenon DEF SCore, Top
  <2> QED BY <1>0, <1>2, <1>3, <1>4, <2>1, Zenon DEF RestoredRegs, SignalTypeOK, Regs
<1>6. STypes'
  <2>1. SignalTypeOK'
    BY <1>0, <1>1, <1>2, <1>3, <1>4, <1>5, SignalAssumption DEF SignalTypeOK, Maskable
  <2> QED BY <1>0, <1>2, <1>3, <2>1, Zenon DEF STypes
<1>7. SCore' /\ NoReentry'
  BY <1>0, <1>2, <1>5, Zenon DEF SCore, NoReentry
<1>8. SMasked'
  <2>1. \A i \in 1..Depth' : frames'[i].sig \in Catchable /\ frames'[i].sig \in Top.mask
    BY <1>0, <1>1, <1>2, Zenon DEF SMasked, Top
  <2>2. \A i \in 1..Depth' : frames'[i].sig \in signal_mask'
    BY <1>3, <2>1, Zenon DEF Maskable, Catchable, Unmaskable
  <2> QED BY <1>0, <1>2, <2>1, <2>2, Zenon DEF SMasked
<1>9. SMask'
  <2>1. mode' # "suspend" /\ frames[1].mask = prog_mask /\ prog_mask \subseteq Catchable
    BY <1>0, <1>1, <1>3 DEF SMask, SignalTypeOK
  <2>2. CASE Depth' = 0
    <3>1. Top = frames[1]
      BY <1>1, <1>2, <2>2 DEF Top
    <3>2. signal_mask' = prog_mask
      BY <1>3, <2>1, <3>1, Zenon DEF Maskable, Catchable, Unmaskable
    <3> QED BY <1>3, <2>1, <2>2, <3>2, Zenon DEF SMask
  <2>3. CASE Depth' # 0
    <3>1. frames'[1] = frames[1]
      BY <1>1, <1>2, <2>3
    <3> QED BY <1>3, <2>1, <2>3, <3>1, Zenon DEF SMask
  <2> QED BY <2>2, <2>3, Zenon
<1> QED BY <1>6, <1>7, <1>8, <1>9, Zenon DEF SInv

\* The calls that set a mask, made at depth 0: sys_rt_sigprocmask and the two
\* halves of sys_rt_sigsuspend.
LEMMA MaskCallsInv ==
  ASSUME SInv,
         \/ \E how \in {"BLOCK", "UNBLOCK", "SETMASK"}, m \in Masks : Sigprocmask(how, m)
         \/ \E m \in Masks : Sigsuspend(m)
         \/ SuspendReturn
  PROVE  SInv'
<1>0. /\ STypes /\ SCore /\ SMasked /\ NoReentry /\ SMask /\ SignalTypeOK
      /\ frames \in Seq(Frame) /\ frames' = frames
  BY Zenon DEF SInv, STypes, Sigprocmask, Sigsuspend, SuspendReturn
<1>1. Depth = 0 /\ Depth' = 0
  BY <1>0, Zenon DEF SMask, Sigprocmask, Sigsuspend, SuspendReturn, Depth
<1>2. /\ UNCHANGED <<pending, sigactions>>
      /\ regs' \in [Regs -> 0..MaxDepth \cup {Junk}] /\ regs'["core"] = regs["core"]
  BY <1>0, Zenon DEF SignalTypeOK, Regs, Result, Sigprocmask, Sigsuspend, SuspendReturn
<1>3. SCore' /\ SMasked' /\ NoReentry'
  BY <1>0, <1>1, <1>2 DEF SCore, SMasked, NoReentry
<1>4. \A m : m \subseteq SigSet => Maskable(m) \subseteq Catchable
  BY Zenon DEF Maskable, SigSet, Catchable, Unmaskable
<1>5. ASSUME NEW how \in {"BLOCK", "UNBLOCK", "SETMASK"}, NEW m \in Masks, Sigprocmask(how, m)
      PROVE  SignalTypeOK' /\ SMask'
  <2>1. NewMask(how, m) \subseteq Catchable
    BY <1>0, <1>4, SignalAssumption, Zenon DEF SignalTypeOK, NewMask
  <2> QED BY <1>0, <1>1, <1>2, <1>5, <2>1, Zenon
          DEF SignalTypeOK, SMask, Sigprocmask, InUserMode, SigSet, Catchable
<1>6. ASSUME NEW m \in Masks, Sigsuspend(m)
      PROVE  SignalTypeOK' /\ SMask'
  <2>1. Maskable(m) \subseteq Catchable
    BY <1>4, SignalAssumption, Zenon
  <2>2. signal_mask = prog_mask
    BY <1>0, <1>1, <1>6, Zenon DEF SMask, Sigsuspend, InUserMode
  <2> QED BY <1>0, <1>1, <1>2, <1>6, <2>1, <2>2, Zenon
          DEF SignalTypeOK, SMask, Sigsuspend, SigSet, Catchable
<1>7. ASSUME SuspendReturn PROVE SignalTypeOK' /\ SMask'
  BY <1>0, <1>1, <1>2, <1>7, Zenon DEF SignalTypeOK, SMask, SuspendReturn, SigSet, Catchable
<1>8. SignalTypeOK' /\ SMask'
  BY <1>5, <1>6, <1>7, Zenon
<1> QED BY <1>0, <1>2, <1>3, <1>8, Zenon DEF SInv, STypes

\* Every step keeps the invariant.
LEMMA SignalStepInv ==
  ASSUME SInv, [SignalNext]_signalVars
  PROVE  SInv'
<1>0. STypes /\ SignalTypeOK
  BY Zenon DEF SInv, STypes
<1>1. ASSUME NEW sig \in SigSet, Send(sig) \/ SendGroup(sig)
      PROVE  SInv'
  <2>1. /\ UNCHANGED <<mode, signal_mask, sigactions, regs, frames, old_mask, prog_mask>>
        /\ pending' = pending \cup {sig} /\ (st' = "RUNNING" \/ st' = st)
        /\ st' # "BLOCKED"
    BY <1>0, <1>1, Zenon DEF Send, SendGroup, SignalTypeOK
  <2>2. STypes'
    BY <1>0, <2>1, Zenon DEF STypes, SignalTypeOK, Depth
  <2> QED BY <2>1, <2>2, SignalKept, Zenon DEF SInv
<1>2. CASE Interrupt \/ OtherCall \/ Compute
  <2>1. /\ UNCHANGED <<st, pending, signal_mask, sigactions, frames, old_mask, prog_mask>>
        /\ mode = "user" /\ st = "RUNNING" /\ mode' \in {"user", "sysret", "iretq"}
    BY <1>2, Zenon DEF Interrupt, OtherCall, Compute, InUserMode
  <2>2. regs' \in [Regs -> 0..MaxDepth \cup {Junk}] /\ regs'["core"] = regs["core"]
    BY <1>0, <1>2 DEF Interrupt, OtherCall, Compute, Result, SignalTypeOK, STypes, Regs, Depth
  <2>3. STypes'
    BY <1>0, <2>1, <2>2, Zenon DEF STypes, SignalTypeOK, Depth
  <2> QED BY <2>1, <2>2, <2>3, SignalKept, Zenon DEF SInv
<1>3. ASSUME NEW sig \in SigSet, NEW sa \in Actions, Sigaction(sig, sa)
      PROVE  SInv'
  <2>1. /\ UNCHANGED <<st, pending, signal_mask, frames, old_mask, prog_mask>>
        /\ mode = "user" /\ st = "RUNNING" /\ mode' = "sysret" /\ sig \in Catchable
        /\ sigactions' = [sigactions EXCEPT ![sig] = sa]
    BY <1>3, Zenon DEF Sigaction, InUserMode
  <2>2. regs' \in [Regs -> 0..MaxDepth \cup {Junk}] /\ regs'["core"] = regs["core"]
    BY <1>0, <1>3, Zenon DEF Sigaction, Result, SignalTypeOK, Regs
  <2>3. STypes'
    BY <1>0, <2>1, <2>2, Zenon DEF STypes, SignalTypeOK, Depth
  <2> QED BY <2>1, <2>2, <2>3, SignalKept, Zenon DEF SInv
<1>4. CASE UNCHANGED signalVars
  <2>1. UNCHANGED <<st, mode, pending, signal_mask, sigactions, regs, frames, old_mask, prog_mask>>
    BY <1>4, Zenon DEF signalVars
  <2>2. STypes'
    BY <1>0, <2>1, Zenon DEF STypes, SignalTypeOK, Depth
  <2> QED BY <2>1, <2>2, SignalKept, Zenon DEF SInv
<1>5. CASE SignalNext
  BY <1>1, <1>2, <1>3, <1>4, <1>5, DeliverInv, SigreturnInv, MaskCallsInv, Zenon DEF SignalNext, Dead
<1> QED BY <1>4, <1>5, Zenon

\* The inductive invariant of the signal path: frames keep the contexts and the
\* masks below them, and a running handler's signal stays masked.
THEOREM SignalInvariant == SignalSpec => []SInv
<1>1. SignalInit => SInv
  <2> SUFFICES ASSUME SignalInit PROVE SInv
    BY Zenon
  <2>1. Depth = 0 /\ frames \in Seq(Frame)
    BY DEF SignalInit, Depth
  <2>2. SignalTypeOK
    BY <2>1, SignalAssumption DEF SignalInit, SignalTypeOK, Context, Regs
  <2> QED BY <2>1, <2>2
          DEF SignalInit, SInv, STypes, SCore, SMasked, NoReentry, SMask, Context, Regs
<1> QED BY <1>1, SignalStepInv, PTL DEF SignalSpec

\* Whatever signals arrive and however handlers nest, no handler re-enters and
\* what it interrupted gets back its context and its mask.
THEOREM SignalContextRestored == SignalSpec => []ContextRestored
<1>1. SInv => ContextRestored
  BY Zenon DEF SInv, STypes, SCore, SMask, ContextRestored, CoreRestored, MaskRestored, InUserMode
<1> QED BY <1>1, SignalInvariant, PTL
=============================================================================
