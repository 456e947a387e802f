-------------------------------- MODULE Proc --------------------------------
(***************************************************************************)
(* Processes, threads and job control: fork, clone, execve, exit,          *)
(* exit_group, waitpid, kill and the delivery of signals with their        *)
(* default action (syscall/sys_process.c, sys_exec.c, sys_signal.c and     *)
(* signal/signal.c), over the scheduler functions of SchedOps.             *)
(*                                                                         *)
(* Only the current task executes.  A system call runs with interrupts off *)
(* from entry to exit unless it blocks, so a call, or the part of it up to *)
(* sched_block, is one action.  Pids are handed out in order and never     *)
(* reused, so a pid names its process control block.                       *)
(***************************************************************************)
EXTENDS SchedOps

CONSTANTS
  MaxPid,         \* bound: pids that may be handed out
  MAX_PROCESSES,  \* limit on s_fork_count
  Groups,         \* process groups that signals are sent to
  Loads           \* the workloads, of which a behaviour has one

Pid == 1..MaxPid
Idle == 0
Task == Pid \cup {Idle}
InitProc == 1

\* The signals, by what their default action does, in delivery order.
Sig == <<"TERM", "CHLD", "CONT", "TSTP">>
SigSet == {"TERM", "CHLD", "CONT", "TSTP"}

ASSUME ProcAssumption ==
  /\ MaxPid \in Nat \ {0} /\ MAX_PROCESSES \in Nat
  /\ \A l \in Loads : l.pids \in 1..MaxPid /\ l.signals \subseteq SigSet

Live == {"RUNNING", "BLOCKED", "STOPPED"}
NoArg == [who |-> 0, opts |-> {}]
WUNTRACED == "untraced"
WNOHANG == "nohang"

VARIABLES
  load,
  s,            \* scheduler: state of every task, run queue, current task
  pc,           \* where each process is: in user mode, about to return to
                \* user mode, or blocked in waitpid or in clone(CLONE_VFORK)
  ppid, tgid,
  pml4,         \* the process whose address space each process runs in
  mapped,       \* the memory a process had is still mapped for it
  pending, stop_signum,
  waiting_for,  \* task.waiting_for; 0 = any child
  arg,          \* the blocked waitpid's pid argument and options
  s_fork_count,
  shutdown

vars == <<load, s, pc, ppid, tgid, pml4, mapped, pending, stop_signum, waiting_for,
          arg, s_fork_count, shutdown>>

Calls == load.calls       \* the system calls programs make
Leaders == load.leaders   \* session leaders with a controlling terminal
Signals == load.signals   \* the signals programs send

Init ==
  /\ load \in Loads
  /\ s = [st |-> [t \in Task |-> IF t \in {Idle, InitProc} THEN "RUNNING" ELSE "free"],
          rq |-> <<Idle, InitProc>>, cur |-> InitProc]
  /\ pc = [p \in Pid |-> "user"]
  /\ ppid = [p \in Pid |-> 0]
  /\ tgid = [p \in Pid |-> p]
  /\ pml4 = [p \in Pid |-> p]
  /\ mapped = [p \in Pid |-> TRUE]
  /\ pending = [p \in Pid |-> {}]
  /\ stop_signum = [p \in Pid |-> "none"]
  /\ waiting_for = [p \in Pid |-> 0]
  /\ arg = [p \in Pid |-> NoArg]
  /\ s_fork_count = 1
  /\ shutdown = FALSE

Tasks == {p \in Pid : s.st[p] \notin {"free", "gone"}}
InUser(p) == s.cur = p /\ pc[p] = "user"

-----------------------------------------------------------------------------
\* Sending signals, as functions of the scheduler and of the pending sets.

\* The pending set of a zombie is never read and stays empty here.
Post(pend, G, sig) ==
  [p \in Pid |-> IF p \in G /\ s.st[p] \in Live THEN pend[p] \cup {sig} ELSE pend[p]]

\* signal_send_pid: any state may receive, only a blocked task is woken.
Mut_WakeForSignal(sc, p) ==
  IF p # 0 /\ sc.st[p] \notin {"free", "gone"} THEN SchedWake(sc, p) ELSE sc
WakeForSignal(sc, p) ==
  IF p # 0 /\ sc.st[p] = "BLOCKED" THEN SchedWake(sc, p) ELSE sc

\* signal_send_pgrp: whatever the signal, it also resumes stopped members
\* (sched_resume does to s what sched_wake does).
Members(G) == {p \in G \cap Tasks : p # InitProc}
Resumable(sc, G) == {p \in Members(G) : sc.st[p] \in {"STOPPED", "BLOCKED"}}
SendGroup(sc, G) == SchedWakeEach(sc, [p \in Pid |-> p], Resumable(sc, G))

-----------------------------------------------------------------------------
\* sched_exit for a process d with the given parents and scheduler state:
\* SIGCHLD to the parent, and a direct switch to it if it can run now.
NotifyParent(sc, d, par) == WakeForSignal(sc, par[d])
SchedExit(d, sc, par, pend, halt) ==
  LET w  == NotifyParent(SchedZombie(sc), d, par)
      up == /\ par[d] # 0
            /\ w.st[par[d]] = "RUNNING"
            /\ waiting_for[par[d]] \in {0, d}
  IN  /\ s' = IF up THEN SchedSwitch(w, par[d]) ELSE SchedYieldToNext(w)
      /\ pending' = [Post(pend, {par[d]}, "CHLD") EXCEPT ![d] = {}]
      /\ ppid' = par
      /\ pc' = [pc EXCEPT ![d] = "user"]
      /\ shutdown' = (shutdown \/ halt \/ \A p \in Pid : w.st[p] \notin Live)

\* sys_exit: hang up the terminal of a session leader, reparent, exit.
HangUp(p, G) == IF p \in Leaders THEN Members(G) ELSE {}
Mut_Reparent(p) == ppid
Reparent(p) == [c \in Pid |-> IF c \in Tasks /\ ppid[c] = p THEN InitProc ELSE ppid[c]]

Exit(p, G) ==
  /\ "exit" \in Calls /\ InUser(p)
  /\ LET H == HangUp(p, G)
     IN  SchedExit(p, SendGroup(s, H), Reparent(p),
                   Post(Post(pending, H, "TERM"), H, "CONT"), p = InitProc)
  /\ UNCHANGED <<tgid, pml4, mapped, stop_signum, waiting_for, arg, s_fork_count>>

\* sys_exit_group: the other threads become zombies where they stand.  They
\* stay in the run list, and nobody is told.
Group(p) == {q \in Tasks : tgid[q] = tgid[p]}
ExitGroup(p, G) ==
  /\ "exit_group" \in Calls /\ InUser(p)
  /\ LET k == [s EXCEPT !.st = [t \in Task |-> IF t \in Group(p) \ {p} THEN "ZOMBIE" ELSE @[t]]]
         H == HangUp(p, G)
     IN  SchedExit(p, SendGroup(k, H), Reparent(p),
                   Post(Post(pending, H, "TERM"), H, "CONT"), tgid[p] = InitProc)
  /\ UNCHANGED <<tgid, pml4, mapped, stop_signum, waiting_for, arg, s_fork_count>>

-----------------------------------------------------------------------------
\* fork and clone(CLONE_VM ...).  A full table is EAGAIN, no memory ENOMEM.
NewPid == s_fork_count + 1

\* fork copies the address space, clone(CLONE_VM) shares it.
Mut_NewPml4(p, kind) == pml4[p]
NewPml4(p, kind) == IF kind = "fork" THEN NewPid ELSE pml4[p]

Create(p, kind) ==
  LET c == NewPid
  IN  /\ s_fork_count < MAX_PROCESSES /\ c \in 1..load.pids
      /\ ppid' = [ppid EXCEPT ![c] = p]
      /\ tgid' = [tgid EXCEPT ![c] = IF kind = "thread" THEN tgid[p] ELSE c]
      /\ pml4' = [pml4 EXCEPT ![c] = NewPml4(p, kind)]
      /\ mapped' = [mapped EXCEPT ![c] = mapped[p]]
      /\ s_fork_count' = s_fork_count + 1
      /\ IF kind = "vfork"
           THEN /\ s' = SchedBlock(SchedAdd(s, c))
                /\ waiting_for' = [waiting_for EXCEPT ![p] = c]
                /\ pc' = [pc EXCEPT ![p] = "vfork"]
           ELSE /\ s' = SchedAdd(s, c)
                /\ pc' = [pc EXCEPT ![p] = "ret"]
                /\ UNCHANGED waiting_for
      /\ UNCHANGED <<pending, stop_signum, arg, shutdown>>

CreateFails(p) ==
  /\ pc' = [pc EXCEPT ![p] = "ret"]
  /\ UNCHANGED <<s, ppid, tgid, pml4, mapped, pending, stop_signum, waiting_for,
                 arg, s_fork_count, shutdown>>

Clone(p, kind) ==
  /\ kind \in Calls /\ InUser(p)
  /\ Create(p, kind) \/ CreateFails(p)

\* The parent of a vfork runs again, for whatever reason it was woken.
VforkReturn(p) ==
  /\ s.cur = p /\ pc[p] = "vfork"
  /\ pc' = [pc EXCEPT ![p] = "ret"]
  /\ UNCHANGED <<s, ppid, tgid, pml4, mapped, pending, stop_signum, waiting_for,
                 arg, s_fork_count, shutdown>>

\* Freeing what an address space maps takes it from everyone who runs in it.
Unmap(p) == [q \in Pid |-> IF q # p /\ q \in Tasks /\ pml4[q] = pml4[p] THEN FALSE ELSE mapped[q]]

\* sys_execve replaces the image in the page tables the process has.
Exec(p) ==
  /\ "exec" \in Calls /\ InUser(p)
  /\ mapped' = [Unmap(p) EXCEPT ![p] = TRUE]
  /\ pc' = [pc EXCEPT ![p] = "ret"]
  /\ UNCHANGED <<s, ppid, tgid, pml4, pending, stop_signum, waiting_for, arg,
                 s_fork_count, shutdown>>

-----------------------------------------------------------------------------
\* sys_waitpid.  The order in which the scan meets the children is the order
\* of the task ring, which depends on who created them: any may come first.
Asks(p, a, c) == c # p /\ ppid[c] = p /\ a.who \in {0, c}
Mut_Reportable(p, a, c) ==
  /\ c \in Tasks /\ Asks(p, a, c)
  /\ \/ s.st[c] = "ZOMBIE" /\ tgid[c] = c
     \/ s.st[c] = "STOPPED" /\ WUNTRACED \in a.opts
Reportable(p, a, c) ==
  /\ c \in Tasks /\ Asks(p, a, c)
  /\ \/ s.st[c] = "ZOMBIE"
     \/ s.st[c] = "STOPPED" /\ WUNTRACED \in a.opts

\* The TCB is unlinked from the ring and freed, the page tables with it when
\* the child was a group leader.
Reap(p, c) ==
  /\ s' = [s EXCEPT !.st[c] = "gone"]
  /\ mapped' = IF tgid[c] = c THEN Unmap(c) ELSE mapped
  /\ UNCHANGED stop_signum

ReportStop(p, c) ==
  /\ stop_signum' = [stop_signum EXCEPT ![c] = "none"]
  /\ UNCHANGED <<s, mapped>>

WaitFound(p, a) ==
  \E c \in Pid :
    /\ Reportable(p, a, c)
    /\ IF s.st[c] = "ZOMBIE" THEN Reap(p, c) ELSE ReportStop(p, c)
    /\ pc' = [pc EXCEPT ![p] = "ret"]
    /\ waiting_for' = [waiting_for EXCEPT ![p] = 0]
    /\ arg' = [arg EXCEPT ![p] = NoArg]

\* A status pointer that is not a user address: nothing is reported.
WaitFault(p, a) ==
  /\ \E c \in Pid : Reportable(p, a, c)
  /\ pc' = [pc EXCEPT ![p] = "ret"]
  /\ arg' = [arg EXCEPT ![p] = NoArg]
  /\ UNCHANGED <<s, mapped, stop_signum, waiting_for>>

WaitNone(p, a) ==
  /\ \A c \in Pid : ~Reportable(p, a, c)
  /\ UNCHANGED <<mapped, stop_signum>>
  /\ IF WNOHANG \in a.opts
       THEN /\ pc' = [pc EXCEPT ![p] = "ret"]
            /\ UNCHANGED <<s, waiting_for, arg>>
       ELSE /\ s' = SchedBlock(s)
            /\ pc' = [pc EXCEPT ![p] = "wait"]
            /\ waiting_for' = [waiting_for EXCEPT ![p] = a.who]
            /\ arg' = [arg EXCEPT ![p] = a]

WaitScan(p, a) ==
  /\ WaitFound(p, a) \/ WaitFault(p, a) \/ WaitNone(p, a)
  /\ UNCHANGED <<ppid, tgid, pml4, pending, s_fork_count, shutdown>>

Waitpid(p, who, opts) ==
  /\ "wait" \in Calls /\ InUser(p)
  /\ who # 0 => ppid[who] = p
  /\ WaitScan(p, [who |-> who, opts |-> opts])

\* goto retry, when sched_block returns.
WaitRetry(p) ==
  /\ s.cur = p /\ pc[p] = "wait"
  /\ WaitScan(p, arg[p])

-----------------------------------------------------------------------------
\* sys_kill on one process, and on a group (also the terminal's Ctrl-C/Z).
Kill(p, q, sig) ==
  /\ "kill" \in Calls /\ InUser(p) /\ q \in Tasks
  /\ s' = WakeForSignal(s, q)
  /\ pending' = Post(pending, {q}, sig)
  /\ pc' = [pc EXCEPT ![p] = "ret"]
  /\ UNCHANGED <<ppid, tgid, pml4, mapped, stop_signum, waiting_for, arg, s_fork_count, shutdown>>

KillGroup(p, G, sig) ==
  /\ "killpg" \in Calls /\ InUser(p)
  /\ s' = SendGroup(s, G)
  /\ pending' = Post(pending, Members(G), sig)
  /\ pc' = [pc EXCEPT ![p] = "ret"]
  /\ UNCHANGED <<ppid, tgid, pml4, mapped, stop_signum, waiting_for, arg, s_fork_count, shutdown>>

\* signal_deliver, signal_deliver_sysret: one signal on each return to user
\* mode, the lowest-numbered one, with the default action.
FirstPending(p, i) == Sig[i] \in pending[p] /\ \A j \in 1..i - 1 : Sig[j] \notin pending[p]
NextSignal(p) == Sig[CHOOSE i \in 1..Len(Sig) : FirstPending(p, i)]

Terminate(p, pend) ==
  /\ SchedExit(p, s, ppid, pend, FALSE)
  /\ UNCHANGED stop_signum

Mut_StopSelf(p, pend) ==
  /\ stop_signum' = [stop_signum EXCEPT ![p] = "TSTP"]
  /\ pending' = pend
  /\ s' = SchedStop(s)
  /\ pc' = [pc EXCEPT ![p] = "user"]
  /\ UNCHANGED <<ppid, shutdown>>
StopSelf(p, pend) ==
  /\ stop_signum' = [stop_signum EXCEPT ![p] = "TSTP"]
  /\ pending' = Post(pend, {ppid[p]}, "CHLD")
  /\ s' = SchedStop(WakeForSignal(s, ppid[p]))
  /\ pc' = [pc EXCEPT ![p] = "user"]
  /\ UNCHANGED <<ppid, shutdown>>

Ignore(p, pend) ==
  /\ pending' = pend
  /\ pc' = [pc EXCEPT ![p] = "user"]
  /\ UNCHANGED <<s, ppid, stop_signum, shutdown>>

Deliver(p) ==
  /\ s.cur = p /\ pc[p] = "ret"
  /\ UNCHANGED <<tgid, pml4, mapped, waiting_for, arg, s_fork_count>>
  /\ IF pending[p] = {}
       THEN Ignore(p, pending)
       ELSE LET sig == NextSignal(p)
                pend == [pending EXCEPT ![p] = @ \ {sig}]
            IN  CASE sig = "TERM" -> Terminate(p, pend)
                  [] sig = "TSTP" -> StopSelf(p, pend)
                  [] OTHER -> Ignore(p, pend)

\* The timer interrupts a task in user mode, or task_idle.  A user task
\* returns from the interrupt, through signal_deliver, when it next runs.
Tick ==
  /\ s.cur # Idle => InUser(s.cur)
  /\ ~shutdown
  /\ s' = SchedPreempt(s)
  /\ pc' = [p \in Pid |-> IF p = s.cur THEN "ret" ELSE pc[p]]
  /\ UNCHANGED <<ppid, tgid, pml4, mapped, pending, stop_signum, waiting_for, arg,
                 s_fork_count, shutdown>>

\* pit_handler powers the machine off once a shutdown was requested.
PowerOff == shutdown /\ UNCHANGED vars

Next ==
  /\ UNCHANGED load
  /\ \/ \E p \in Pid, G \in Groups : Exit(p, G) \/ ExitGroup(p, G)
     \/ \E p \in Pid, kind \in {"fork", "thread", "vfork"} : Clone(p, kind)
     \/ \E p \in Pid : VforkReturn(p) \/ Exec(p) \/ WaitRetry(p) \/ Deliver(p)
     \/ \E p \in Pid, who \in Task, opts \in {{}, {WUNTRACED}, {WNOHANG}} : Waitpid(p, who, opts)
     \/ \E p \in Pid, q \in Pid, sig \in Signals : Kill(p, q, sig)
     \/ \E p \in Pid, G \in Groups, sig \in Signals : KillGroup(p, G, sig)
     \/ Tick
     \/ PowerOff

Spec == Init /\ [][Next]_vars

\* The timer keeps firing whenever a task is interruptible, and kernel code
\* that the CPU has switched to runs.
KernelStep == UNCHANGED load /\ \E p \in Pid : VforkReturn(p) \/ WaitRetry(p) \/ Deliver(p)
FairSpec == Spec /\ SF_vars(Tick /\ UNCHANGED load) /\ WF_vars(KernelStep)

-----------------------------------------------------------------------------
TypeOK ==
  /\ s.st \in [Task -> Live \cup {"free", "ZOMBIE", "gone"}]
  /\ s.rq \in Seq(Task) /\ s.cur \in Task
  /\ pc \in [Pid -> {"user", "ret", "wait", "vfork"}]
  /\ ppid \in [Pid -> Task] /\ tgid \in [Pid -> Pid] /\ pml4 \in [Pid -> Pid]
  /\ mapped \in [Pid -> BOOLEAN]
  /\ pending \in [Pid -> SUBSET SigSet]
  /\ stop_signum \in [Pid -> {"none", "TSTP"}]
  /\ waiting_for \in [Pid -> Task]
  /\ arg \in [Pid -> [who : Task, opts : SUBSET {WUNTRACED, WNOHANG}]]
  /\ s_fork_count \in 1..MaxPid /\ shutdown \in BOOLEAN

\* sys_exit_group leaves the group's other threads in the run list, so that a
\* zombie may run, block and be woken: the safety properties are about loads
\* in which it has no other thread to end.
ZombiesUnlinked == ~({"thread", "exit_group"} \subseteq Calls)

\* The run list is what sched.h says: a task is in it exactly when it is
\* TASK_RUNNING, once, whatever signals, exits and reaps happen; the CPU runs
\* one of them.
RunListIffRunning ==
  /\ \A t \in Task : s.st[t] = "RUNNING" <=> Queued(s.rq, t)
  /\ \A i, j \in 1..Len(s.rq) : s.rq[i] = s.rq[j] => i = j
  /\ Queued(s.rq, s.cur)

\* sys_waitpid "blocks until a child exits": a process other than init is
\* never left blocked in waitpid while a child it asked for is a zombie or,
\* with WUNTRACED, stopped.
WaiterMissesNothing ==
  ZombiesUnlinked =>
    \A p \in Pid \ {InitProc} : s.st[p] = "BLOCKED" /\ pc[p] = "wait" =>
      \A c \in Pid : ~Reportable(p, arg[p], c)

\* The comment on reparenting in sys_exit: no orphan stays behind.  Every
\* process but init has a parent that was not reaped, so that a waitpid can
\* still collect it (where no process is killed by a signal, which reparents
\* nothing).
NoOrphans ==
  ZombiesUnlinked /\ ~shutdown /\ "TERM" \notin Signals /\ Leaders = {} =>
    \A p \in Tasks \ {InitProc} : ppid[p] \in Tasks

\* A task that may still run, or be resumed, has its memory mapped: nobody
\* freed the page tables or the pages it shares.
MemoryIntact == \A p \in Pid : s.st[p] \in Live => mapped[p]

\* The variables have their types, the scheduler has every task that can run
\* and no other, and a task that can run has its memory, where every process
\* has an address space of its own (sched_exit, sys_execve, sys_waitpid,
\* signal_send_pid, signal_send_pgrp).
LiveTasksSound ==
  ZombiesUnlinked =>
    TypeOK /\ RunListIffRunning /\ (Calls \cap {"thread", "vfork"} = {} => MemoryIntact)

\* A process that exited never runs again, and is reported once: a zombie
\* can only be reaped and a reaped TCB is never touched.
DeadStayDead ==
  [][ZombiesUnlinked =>
       \A p \in Pid : /\ s.st[p] = "ZOMBIE" => s'.st[p] \in {"ZOMBIE", "gone"}
                      /\ s.st[p] = "gone" => s'.st[p] = "gone" /\ s'.cur # p]_vars

\* A waitpid whose child exited returns.  (A stopped child may be resumed
\* before the waiter looks, and then there is nothing to report.  Nor is a
\* stopped waiter resumed by a signal to itself alone, nor init told of a
\* zombie that it inherits.)
WaitReturns ==
  "kill" \notin Calls =>
    \A p \in Pid \ {InitProc} :
      (/\ s.st[p] \in Live /\ pc[p] = "wait"
       /\ \E c \in Pid : s.st[c] = "ZOMBIE" /\ Asks(p, arg[p], c)) ~> pc[p] # "wait"
=============================================================================
