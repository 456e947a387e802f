------------------------------- MODULE Sched -------------------------------
(***************************************************************************)
(* The task scheduler of kernel/sched/sched.c, at the level of its         *)
(* pointers: the circular list of every task (next), the doubly linked     *)
(* list of runnable tasks anchored at s_run_sentinel (next_run, prev_run), *)
(* the per-CPU current task, and the part of the CPU that a switch must    *)
(* restore (CR3, FS.base, TSS RSP0).                                       *)
(*                                                                         *)
(* Only the boot processor runs tasks: the application processors keep a   *)
(* NULL current task, for which sched_tick returns at once.  Kernel code   *)
(* runs with interrupts off from entry to the switch point, so each        *)
(* operation is one step; sched_tick alone is split, one step per task of  *)
(* its scan, and no other operation is enabled while it runs.              *)
(***************************************************************************)
EXTENDS Integers, Sequences

CONSTANTS
  User,       \* user tasks (is_user = 1); a task identity is reused after reap
  Idle,       \* task_idle, the only task made by sched_spawn
  Sentinel,   \* &s_run_sentinel
  NULL,
  Master,     \* the kernel's own address space, vmm_get_master_pml4()
  MaxSleep    \* bound: the longest nanosleep, in ticks

ASSUME TaskAssumption ==
  /\ Idle \notin User /\ Sentinel \notin User /\ NULL \notin User /\ Master \notin User
  /\ Idle # Sentinel /\ Idle # NULL /\ Sentinel # NULL /\ Idle # Master

ASSUME SleepAssumption == MaxSleep \in Nat

Task == User \cup {Idle}
Node == Task \cup {Sentinel}
NoDeadline == -1

VARIABLES
  state,      \* task->state; "free" when there is no such TCB
  next,       \* task->next, the list of every task
  next_run,   \* task->next_run
  prev_run,   \* task->prev_run
  cur,        \* percpu current_task
  sleep,      \* sleep_deadline minus the tick counter, or NoDeadline
  ready,      \* s_sched_ready
  tick,       \* where sched_tick is: "out", "scan" or "pick"
  scan,       \* its loop variable t
  shutdown,   \* s_shutdown
  halted,     \* "no", "panic" (panic_halt) or "off" (arch_debug_exit)
  cr3,        \* the loaded address space, named by its owner
  fs_base,    \* the user task whose FS.base is loaded
  rsp0,       \* the task whose kernel stack the next trap uses
  resume,     \* what a switched-out task executes when switched in
  saved_cr3   \* the CR3 slot of its interrupt frame

lists == <<next, next_run, prev_run>>
cpu == <<cr3, fs_base, rsp0, resume, saved_cr3>>
vars == <<state, lists, cur, sleep, ready, tick, scan, shutdown, halted, cpu>>

-----------------------------------------------------------------------------
(* The run list.  Each pair of operators is the effect of one C function   *)
(* on next_run and on prev_run.                                            *)

InsertNext(nr, pr, t) ==
  IF nr[t] # NULL THEN nr ELSE [nr EXCEPT ![t] = Sentinel, ![pr[Sentinel]] = t]

InsertPrev(nr, pr, t) ==
  IF nr[t] # NULL THEN pr ELSE [pr EXCEPT ![t] = pr[Sentinel], ![Sentinel] = t]

RemoveNext(nr, pr, t) ==
  IF nr[t] = NULL THEN nr ELSE [nr EXCEPT ![pr[t]] = nr[t], ![t] = NULL]

\* Mutant: the follower keeps its old prev_run.
Mut_RemovePrev(nr, pr, t) == IF nr[t] = NULL THEN pr ELSE [pr EXCEPT ![t] = NULL]

RemovePrev(nr, pr, t) ==
  IF nr[t] = NULL THEN pr ELSE [pr EXCEPT ![nr[t]] = pr[t], ![t] = NULL]

\* run_list_next_locked: the next runnable task after t, NULL if there is none.
RunListNext(nr, t) ==
  LET start == IF nr[t] # NULL THEN nr[t] ELSE nr[Sentinel]
      skip  == IF start = Sentinel THEN nr[Sentinel] ELSE start
  IN  IF skip = Sentinel THEN NULL ELSE skip

\* Mutant: always restart from the head.
Mut_Successor(nr, captured) == nr[Sentinel]

\* Mutant: the end of the list is not wrapped.
Mut_SuccessorNoWrap(nr, captured) == captured

\* sched_block's choice: the successor captured before the removal, else the head.
Successor(nr, captured) ==
  IF captured \in {NULL, Sentinel} THEN nr[Sentinel] ELSE captured

-----------------------------------------------------------------------------
(* Switching.  SwitchTo is percpu_set_current, arch_set_kernel_stack and   *)
(* arch_set_fs_base, then ctx_switch, then the code at which t resumes:    *)
(* the tail of sched_block / sched_stop reloads the task's CR3 ("tail"),   *)
(* the interrupt return reloads the saved one ("tick"), and the first      *)
(* entry goes through proc_enter_user or a fork child's frame ("new").     *)
(* c is the address space loaded when the switch happens.                  *)
Mut_ResumeCR3(t, c) ==                   \* mutant: the tail does not reload CR3
  IF resume[t] = "tick" THEN saved_cr3[t] ELSE IF resume[t] = "new" /\ t \in User THEN t ELSE c

ResumeCR3(t, c) ==
  IF resume[t] = "tick" THEN saved_cr3[t] ELSE IF t \in User THEN t ELSE c

SwitchTo(t, c) ==
  /\ cur' = t
  /\ rsp0' = t
  /\ fs_base' = IF t \in User THEN t ELSE fs_base
  /\ cr3' = ResumeCR3(t, c)

Panic == halted' = "panic" /\ UNCHANGED <<cur, rsp0, fs_base, cr3>>

Up == ready /\ halted = "no" /\ tick = "out"

-----------------------------------------------------------------------------
(* Boot and task creation.                                                 *)

\* sched_init, as kernel_main leaves it.
Init ==
  /\ state = [t \in Task |-> "free"]
  /\ next = [t \in Task |-> NULL]
  /\ next_run = [n \in Node |-> IF n = Sentinel THEN Sentinel ELSE NULL]
  /\ prev_run = next_run
  /\ cur = NULL
  /\ sleep = [t \in Task |-> NoDeadline]
  /\ ready = FALSE /\ tick = "out" /\ scan = NULL
  /\ shutdown = FALSE /\ halted = "no"
  /\ cr3 = Master /\ fs_base = NULL /\ rsp0 = NULL
  /\ resume = [t \in Task |-> "new"]
  /\ saved_cr3 = [t \in Task |-> Master]

\* Mutant: the new task is linked to itself only.
Mut_RingInsert(t) == next' = [next EXCEPT ![t] = t] /\ cur' = IF cur = NULL THEN t ELSE cur

\* Link t after the current task in the list of every task, or alone.
RingInsert(t) ==
  IF cur = NULL THEN next' = [next EXCEPT ![t] = t] /\ cur' = t
                ELSE next' = [next EXCEPT ![t] = next[cur], ![cur] = t] /\ cur' = cur

\* A new TCB for t, runnable, linked into both lists.
Link(t) ==
  /\ state[t] = "free"
  /\ state' = [state EXCEPT ![t] = "RUNNING"]
  /\ RingInsert(t)
  /\ next_run' = InsertNext(next_run, prev_run, t)
  /\ prev_run' = InsertPrev(next_run, prev_run, t)
  /\ sleep' = [sleep EXCEPT ![t] = NoDeadline]
  /\ resume' = [resume EXCEPT ![t] = "new"]
  /\ saved_cr3' = [saved_cr3 EXCEPT ![t] = Master]
  /\ UNCHANGED <<ready, tick, scan, shutdown, halted, cr3, fs_base, rsp0>>

\* sched_spawn(task_idle), the first task.
Spawn == ~ready /\ cur = NULL /\ Link(Idle)

\* sched_add, from proc_spawn_init at boot and from fork, clone and spawn.
Add(t) ==
  /\ cur # NULL
  /\ \/ Up /\ cur \in User
     \/ ~ready /\ \A u \in User : state[u] = "free"
  /\ Link(t)

Start ==
  /\ ~ready /\ cur # NULL /\ \E u \in User : state[u] # "free"
  /\ ready' = TRUE
  /\ rsp0' = cur
  /\ UNCHANGED <<state, lists, cur, sleep, tick, scan, shutdown, halted, cr3, fs_base, resume, saved_cr3>>

-----------------------------------------------------------------------------
(* Blocking and waking.                                                    *)

\* Leave the run list in state st and switch to the successor.
Leave(st) ==
  LET nr == RemoveNext(next_run, prev_run, cur)
      to == Successor(nr, next_run[cur])
  IN  /\ state' = [state EXCEPT ![cur] = st]
      /\ next_run' = nr
      /\ prev_run' = RemovePrev(next_run, prev_run, cur)
      /\ resume' = [resume EXCEPT ![cur] = "tail"]
      /\ IF to = Sentinel THEN Panic ELSE SwitchTo(to, cr3) /\ UNCHANGED halted

Block ==
  /\ Up /\ cur \in User
  /\ Leave("BLOCKED")
  /\ UNCHANGED <<next, sleep, ready, tick, scan, shutdown, saved_cr3>>

\* sys_nanosleep: set the deadline, then sched_block.
NanoSleep(n) ==
  /\ Up /\ cur \in User
  /\ sleep' = [sleep EXCEPT ![cur] = n]
  /\ Leave("BLOCKED")
  /\ UNCHANGED <<next, ready, tick, scan, shutdown, saved_cr3>>

\* sched_stop on the caller itself: signal delivery has no other use of it.
Stop ==
  /\ Up /\ cur \in User
  /\ Leave("STOPPED")
  /\ UNCHANGED <<next, sleep, ready, tick, scan, shutdown, saved_cr3>>

MakeRunning(t) ==
  /\ state' = [state EXCEPT ![t] = "RUNNING"]
  /\ next_run' = InsertNext(next_run, prev_run, t)
  /\ prev_run' = InsertPrev(next_run, prev_run, t)

\* sched_wake.  The caller owes a task that has neither exited nor been freed.
Wake(t) ==
  /\ Up /\ state[t] \in {"RUNNING", "BLOCKED", "STOPPED"}
  /\ MakeRunning(t)
  /\ UNCHANGED <<next, cur, sleep, ready, tick, scan, shutdown, halted, cpu>>

\* sched_resume, which signal_send_pgrp calls on a stopped task.
Resume(t) ==
  /\ Up /\ state[t] = "STOPPED"
  /\ MakeRunning(t)
  /\ UNCHANGED <<next, cur, sleep, ready, tick, scan, shutdown, halted, cpu>>

-----------------------------------------------------------------------------
(* Exit of a user task and its reaping.                                    *)

\* sched_exit with parent p (NULL: none in the list).  direct: the parent is
\* waiting for any child or for this one, so control goes straight to it.
Exit(p, direct) ==
  LET nr1 == RemoveNext(next_run, prev_run, cur)
      pr1 == RemovePrev(next_run, prev_run, cur)
      st1 == [state EXCEPT ![cur] = "ZOMBIE"]
      chld == p # NULL /\ st1[p] = "BLOCKED"          \* SIGCHLD wakes the parent
      nr2 == IF chld THEN InsertNext(nr1, pr1, p) ELSE nr1
      pr2 == IF chld THEN InsertPrev(nr1, pr1, p) ELSE pr1
      st2 == IF chld THEN [st1 EXCEPT ![p] = "RUNNING"] ELSE st1
      to == IF direct THEN p ELSE RunListNext(nr2, cur)
  IN  /\ Up /\ cur \in User /\ p # cur
      /\ p # NULL => state[p] # "free"
      /\ direct => p # NULL /\ st2[p] = "RUNNING"
      /\ state' = st2 /\ next_run' = nr2 /\ prev_run' = pr2
      /\ shutdown' = (shutdown \/ \A u \in User \ {cur} : st2[u] \in {"free", "ZOMBIE"})
      /\ IF to = NULL THEN Panic ELSE SwitchTo(to, Master) /\ UNCHANGED halted
      /\ UNCHANGED <<next, sleep, ready, tick, scan, resume, saved_cr3>>

\* sys_waitpid's reap: unlink the zombie and free its TCB, stack and PML4.
Reap(t) ==
  /\ Up /\ cur \in User /\ t # cur /\ state[t] = "ZOMBIE"
  /\ \E prev \in Task : /\ next[prev] = t
                        /\ next' = [next EXCEPT ![prev] = next[t], ![t] = NULL]
  /\ state' = [state EXCEPT ![t] = "free"]
  /\ UNCHANGED <<next_run, prev_run, cur, sleep, ready, tick, scan, shutdown, halted, cpu>>

-----------------------------------------------------------------------------
(* The timer interrupt.                                                    *)

\* isr_common_stub saves CR3 and loads the master PML4; pit_handler (adv = 1)
\* advances the clock, the LAPIC timer (adv = 0) does not; sched_tick starts.
TickBegin(adv) ==
  /\ Up
  /\ saved_cr3' = [saved_cr3 EXCEPT ![cur] = cr3]
  /\ cr3' = Master
  /\ sleep' = [t \in Task |-> IF sleep[t] > 0 THEN sleep[t] - adv ELSE sleep[t]]
  /\ tick' = "scan" /\ scan' = next[cur]
  /\ UNCHANGED <<state, lists, cur, ready, shutdown, halted, fs_base, rsp0, resume>>

\* Mutant: the scan looks at one task only.
Mut_TickScan ==
  /\ tick = "scan"
  /\ IF state[scan] = "BLOCKED" /\ sleep[scan] = 0
       THEN MakeRunning(scan) /\ sleep' = [sleep EXCEPT ![scan] = NoDeadline]
       ELSE UNCHANGED <<state, next_run, prev_run, sleep>>
  /\ tick' = "pick" /\ scan' = NULL
  /\ UNCHANGED <<next, cur, ready, shutdown, halted, cpu>>

\* One iteration of the scan for expired sleepers.
TickScan ==
  /\ tick = "scan"
  /\ IF state[scan] = "BLOCKED" /\ sleep[scan] = 0
       THEN MakeRunning(scan) /\ sleep' = [sleep EXCEPT ![scan] = NoDeadline]
       ELSE UNCHANGED <<state, next_run, prev_run, sleep>>
  /\ IF next[scan] = cur THEN tick' = "pick" /\ scan' = NULL
                         ELSE tick' = "scan" /\ scan' = next[scan]
  /\ UNCHANGED <<next, cur, ready, shutdown, halted, cpu>>

\* Round robin: the next runnable task, or stay and return from the interrupt.
TickPick ==
  /\ tick = "pick"
  /\ tick' = "out"
  /\ LET to == RunListNext(next_run, cur)
     IN  IF to \in {NULL, cur}
           THEN cr3' = saved_cr3[cur] /\ UNCHANGED <<cur, rsp0, fs_base, resume>>
           ELSE SwitchTo(to, Master) /\ resume' = [resume EXCEPT ![cur] = "tick"]
  /\ UNCHANGED <<state, lists, sleep, ready, scan, shutdown, halted, saved_cr3>>

\* The end of pit_handler.
PowerOff ==
  /\ Up /\ shutdown
  /\ halted' = "off"
  /\ UNCHANGED <<state, lists, cur, sleep, ready, tick, scan, shutdown, cpu>>

Stopped == halted # "no" /\ UNCHANGED vars

Tick == (\E adv \in {0, 1} : TickBegin(adv)) \/ TickScan \/ TickPick

Next ==
  \/ Spawn \/ Start \/ Block \/ Stop \/ Tick \/ PowerOff \/ Stopped
  \/ \E t \in User : Add(t) \/ Wake(t) \/ Resume(t) \/ Reap(t)
  \/ \E n \in 0..MaxSleep : NanoSleep(n)
  \/ \E p \in User \cup {NULL}, direct \in BOOLEAN : Exit(p, direct)

Spec == Init /\ [][Next]_vars
-----------------------------------------------------------------------------
(* Properties.                                                             *)

Allocated == {t \in Task : state[t] # "free"}

TypeOK ==
  /\ state \in [Task -> {"free", "RUNNING", "BLOCKED", "STOPPED", "ZOMBIE"}]
  /\ next \in [Task -> Task \cup {NULL}]
  /\ next_run \in [Node -> Node \cup {NULL}]
  /\ prev_run \in [Node -> Node \cup {NULL}]
  /\ cur \in Task \cup {NULL}
  /\ sleep \in [Task -> NoDeadline..MaxSleep]
  /\ ready \in BOOLEAN /\ shutdown \in BOOLEAN
  /\ tick \in {"out", "scan", "pick"}
  /\ scan \in Task \cup {NULL}
  /\ halted \in {"no", "panic", "off"}
  /\ cr3 \in User \cup {Master}
  /\ fs_base \in User \cup {NULL}
  /\ rsp0 \in Task \cup {NULL}
  /\ resume \in [Task -> {"new", "tick", "tail"}]
  /\ saved_cr3 \in [Task -> User \cup {Master}]

\* sched.h: "a task is in the run list IFF state == TASK_RUNNING AND
\* next_run != NULL".  Every path that changes a state also fixes the list, so
\* a task that can run is never forgotten and one that cannot is never chosen.
RunListMatchesState == \A t \in Task : state[t] = "RUNNING" <=> next_run[t] # NULL

\* The run list is doubly linked and closed: following next_run then prev_run
\* (or the reverse) from a linked node comes back to it, whatever order of
\* inserts, removals and idempotent repeats produced the list.
RunListLinked ==
  \A n \in Node :
    /\ next_run[n] = NULL <=> prev_run[n] = NULL
    /\ next_run[n] # NULL =>
         /\ next_run[n] \in Node /\ prev_run[next_run[n]] = n
         /\ prev_run[n] \in Node /\ next_run[prev_run[n]] = n

\* The run list as sched.h describes it: types, membership and links.
RunListSound == TypeOK /\ RunListMatchesState /\ RunListLinked

\* The task list is a permutation of the allocated tasks: the scans of
\* sched_tick, sched_exit and waitpid never follow a pointer to a freed TCB.
RingLinked ==
  /\ \A t \in Task : IF state[t] = "free" THEN next[t] = NULL ELSE next[t] \in Allocated
  /\ \A t, u \in Allocated : next[t] = next[u] => t = u
  /\ \A t \in Allocated : \E u \in Allocated : next[u] = t

\* No tasks but all of them are closed under next: a scan that follows it from
\* any task visits every one, and the list has no second cycle.
RingComplete ==
  \A S \in SUBSET Allocated : S # {} /\ (\A t \in S : next[t] \in S) => S = Allocated

\* The list that sched_add and waitpid maintain and every scan follows is one
\* cycle through exactly the allocated tasks.
RingSound == RingLinked /\ RingComplete

\* sched_block, sched_stop and sched_exit never find the run list empty: the
\* panics "[SCHED] FAIL: ... with empty run list" are unreachable.
NeverPanics == halted # "panic"

\* Whenever a user task executes outside the timer interrupt, its own address
\* space, its own FS.base and its own kernel stack are loaded, however it was
\* switched out and whoever switched it in; kernel code of task_idle runs on
\* the master PML4, so no later reap frees the page tables under it.
CpuMatchesCurrent ==
  ready /\ halted = "no" /\ tick = "out" =>
    /\ rsp0 = cur
    /\ cur \in User => cr3 = cur /\ fs_base = cur
    /\ cur = Idle => cr3 = Master

-----------------------------------------------------------------------------
(* What makes the safety properties inductive.                             *)

\* task_idle was inserted first and never leaves, so it heads the run list:
\* whoever leaves the list finds a successor.  The current task is runnable.
IdleHeads ==
  /\ next_run[Sentinel] # NULL
  /\ IF cur = NULL THEN \A t \in Task : state[t] = "free"
                   ELSE next_run[Sentinel] = Idle /\ state[cur] = "RUNNING"
  /\ ready => cur # NULL
  /\ ~ready => cur \in {Idle, NULL} /\ tick = "out" /\ cr3 = Master
  /\ tick # "out" => ready /\ halted = "no"
  /\ tick = "scan" => scan \in Allocated

Own(t) == IF t \in User THEN t ELSE Master

\* What the CPU and the saved frames hold, inside the timer interrupt too: a
\* preempted task's frame has its own CR3, and task_idle is always preempted.
CpuInv ==
  /\ ready => /\ rsp0 = cur
              /\ cur \in User => fs_base = cur
              /\ cr3 = IF tick = "out" THEN Own(cur) ELSE Master
              /\ tick # "out" => saved_cr3[cur] = Own(cur)
              /\ cur # Idle => resume[Idle] = "tick"
  /\ \A t \in Task : resume[t] = "tick" => saved_cr3[t] = Own(t)

IInv ==
  /\ TypeOK /\ RunListMatchesState /\ RunListLinked /\ RingLinked
  /\ IdleHeads /\ CpuInv /\ NeverPanics

-----------------------------------------------------------------------------
(* What the pointers implement.                                            *)

\* The runnable tasks, in the order in which next_run visits them: those after
\* each node, and those after the sentinel.
TasksAfter(nr) ==
  LET after[n \in Node] ==
        IF nr[n] \in {NULL, Sentinel} THEN <<>> ELSE <<nr[n]>> \o after[nr[n]]
  IN  after
QueueOf(nr) == TasksAfter(nr)[Sentinel]
RunQueue == QueueOf(next_run)

\* What a caller of the scheduler sees of it.
Seen == [st |-> state, rq |-> RunQueue, cur |-> cur]

Abs == INSTANCE SchedAbs WITH s <- Seen, up <- ready

\* The pointer structure implements the round-robin queue of SchedAbs: every
\* insert, removal and switch of sched.c is the one the queue promises.
RefinesQueue == Abs!Spec
=============================================================================
