------------------------------ MODULE SchedOps ------------------------------
(***************************************************************************)
(* What the scheduler's entry points do, as functions of its abstract      *)
(* state s: s.st gives each task's state, s.rq the runnable tasks in       *)
(* round-robin order, s.cur the current task.  Modules of the kernel that  *)
(* call several entry points in one system call compose these functions.   *)
(* task_idle is always in s.rq, so the queue is never empty.               *)
(***************************************************************************)
EXTENDS Naturals, Sequences

\* A task is in a linked list (next_run, on_queue), and the list without its
\* i-th entry.
Queued(q, t) == \E i \in 1..Len(q) : q[i] = t
Unlinked(q, i) == [j \in 1..Len(q) - 1 |-> IF j < i THEN q[j] ELSE q[j + 1]]

\* Where a task is in the run list, which has it at most once.
RunListIndex(s, t) == CHOOSE i \in 1..Len(s.rq) : s.rq[i] = t

\* run_list_insert_locked and run_list_remove_locked, both idempotent.
RunListInsert(s, t) == IF Queued(s.rq, t) THEN s ELSE [s EXCEPT !.rq = Append(@, t)]
RunListRemove(s, t) ==
  IF Queued(s.rq, t) THEN [s EXCEPT !.rq = Unlinked(@, RunListIndex(s, t))] ELSE s

\* The task after t in the run list, cyclically; the head if t is not in it.
RunListAfter(s, t) ==
  IF Queued(s.rq, t) THEN s.rq[(RunListIndex(s, t) % Len(s.rq)) + 1] ELSE Head(s.rq)

SchedAdd(s, t) == RunListInsert([s EXCEPT !.st[t] = "RUNNING"], t)
SchedWake(s, t) == RunListInsert([s EXCEPT !.st[t] = "RUNNING"], t)
SchedResume(s, t) == RunListInsert([s EXCEPT !.st[t] = "RUNNING"], t)

\* A loop over the sequence q that wakes its elements at the positions I: the
\* scheduler after each turn, and at the end.
WakeSteps(s, q, I) ==
  LET w[n \in 0..Len(q)] ==
        IF n = 0 THEN s ELSE IF n \in I THEN SchedWake(w[n - 1], q[n]) ELSE w[n - 1]
  IN  w
SchedWakeEach(s, q, I) == WakeSteps(s, q, I)[Len(q)]

\* The current task leaves the run list and its successor runs.
SchedLeave(s, st) ==
  [RunListRemove(s, s.cur) EXCEPT !.st[s.cur] = st, !.cur = RunListAfter(s, s.cur)]
SchedBlock(s) == SchedLeave(s, "BLOCKED")
SchedStop(s) == SchedLeave(s, "STOPPED")

\* The two halves of sched_exit: become a zombie, then hand over the CPU.
SchedZombie(s) == [RunListRemove(s, s.cur) EXCEPT !.st[s.cur] = "ZOMBIE"]
SchedSwitch(s, t) == [s EXCEPT !.cur = t]
SchedYieldToNext(s) == SchedSwitch(s, RunListAfter(s, s.cur))

\* The round-robin half of sched_tick.
SchedPreempt(s) == SchedSwitch(s, RunListAfter(s, s.cur))
=============================================================================
