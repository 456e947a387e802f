----------------------------- MODULE Proc_proofs ----------------------------
(***************************************************************************)
(* Proofs about Proc: the process tree, waitpid and the run list, for any  *)
(* number of processes and any workload.                                   *)
(***************************************************************************)
EXTENDS Proc, SchedOps_proofs

States == Live \cup {"free", "ZOMBIE", "gone"}

\* The scheduler's state: the run list holds the running tasks, once each.
PrSched == Queue(s, Task, States) /\ Runs(s) /\ s.st[Idle] = "RUNNING"

PrFields ==
  /\ load \in Loads
  /\ pc \in [Pid -> {"user", "ret", "wait", "vfork"}]
  /\ ppid \in [Pid -> Task] /\ tgid \in [Pid -> Pid] /\ pml4 \in [Pid -> Pid]
  /\ mapped \in [Pid -> BOOLEAN]
  /\ pending \in [Pid -> SUBSET SigSet]
  /\ stop_signum \in [Pid -> {"none", "TSTP"}]
  /\ waiting_for \in [Pid -> Task]
  /\ arg \in [Pid -> [who : Task, opts : SUBSET {WUNTRACED, WNOHANG}]]
  /\ s_fork_count \in 1..MaxPid /\ shutdown \in BOOLEAN

\* The pids handed out are those up to s_fork_count.
PrPids == \A p \in Pid : s.st[p] = "free" <=> p > s_fork_count

\* Without clone(CLONE_THREAD) every process is a group of its own, and without
\* CLONE_VM it has an address space of its own, which nobody unmaps.
PrGroups == "thread" \notin Calls => \A p \in Pid : tgid[p] = p
PrMemory ==
  Calls \cap {"thread", "vfork"} = {} => \A p \in Pid : mapped[p] /\ pml4[p] = p

\* Where nobody is killed, nobody has the signal pending, and parents live.
Peaceful == "TERM" \notin Signals /\ Leaders = {}
PrNoTerm == Peaceful => \A p \in Pid : "TERM" \notin pending[p]
LiveParent(p) == ppid[p] \in Pid /\ s.st[ppid[p]] \in Live
PrTree ==
  Peaceful /\ ~shutdown =>
    s.st[InitProc] \in Live /\ \A p \in Tasks \ {InitProc} : LiveParent(p)

PrWait ==
  \A p \in Pid \ {InitProc} : s.st[p] = "BLOCKED" /\ pc[p] = "wait" =>
    \A c \in Pid : ~Reportable(p, arg[p], c)

PrInv ==
  /\ PrSched /\ PrFields /\ PrPids /\ PrGroups /\ PrMemory
  /\ PrNoTerm /\ PrTree /\ PrWait

\* w is v with some blocked or stopped tasks running again.
Resumed(x, y) == y = x \/ (x \in {"BLOCKED", "STOPPED"} /\ y = "RUNNING")
Roused(w, v) ==
  Queue(w, Task, States) /\ w.cur = v.cur /\ \A t \in Task : Resumed(v.st[t], w.st[t])

\* signal_send_pid leaves its target unblocked.
LEMMA WakeForSignalDoes ==
  ASSUME NEW v, Queue(v, Task, States), NEW p \in Task
  PROVE  /\ Roused(WakeForSignal(v, p), v)
         /\ p # 0 => WakeForSignal(v, p).st[p] # "BLOCKED"
<1>1. "RUNNING" \in States
  BY Zenon DEF States, Live
<1>2. WithState(SchedWake(v, p), v, p, "RUNNING", Task, States) /\ SchedWake(v, p).cur = v.cur
  BY <1>1, WakeQueue, Zenon
<1>3. CASE p # 0 /\ v.st[p] = "BLOCKED"
  <2>1. WakeForSignal(v, p) = SchedWake(v, p)
    BY <1>3, Zenon DEF WakeForSignal
  <2> QED BY <1>2, <1>3, <2>1, Zenon DEF WithState, Roused, Resumed
<1>4. CASE ~(p # 0 /\ v.st[p] = "BLOCKED")
  <2>1. WakeForSignal(v, p) = v
    BY <1>4, Zenon DEF WakeForSignal
  <2> QED BY <1>4, <2>1, Zenon DEF Roused, Resumed
<1> QED BY <1>3, <1>4, Zenon

\* signal_send_pgrp makes blocked and stopped members run.
LEMMA SendGroupDoes ==
  ASSUME NEW v, Queue(v, Task, States), NEW G
  PROVE  Roused(SendGroup(v, G), v)
<1> DEFINE q == [p \in Pid |-> p]
           I == Resumable(v, G)
<1>1. "RUNNING" \in States
  BY Zenon DEF States, Live
<1>2. Len(q) = MaxPid /\ \A n \in 1..MaxPid : q[n] = n
  BY ProcAssumption DEF Pid
<1>3. Wakeable(q, I, Task)
  BY <1>2, ProcAssumption, Zenon DEF Wakeable, Task, Pid
<1>4. SendGroup(v, G) = SchedWakeEach(v, q, I)
  BY Zenon DEF SendGroup
<1>5. \A t \in I : t \in Pid /\ v.st[t] \in {"BLOCKED", "STOPPED"}
  BY Zenon DEF Resumable, Members, Tasks
<1> HIDE DEF q, I
<1>6. Woken(SendGroup(v, G), v, q, I, Task, States)
  BY <1>1, <1>3, <1>4, WakeEachQueue, Zenon
<1>7. ASSUME NEW t \in Task PROVE Resumed(v.st[t], SendGroup(v, G).st[t])
  <2>1. SendGroup(v, G).st[t] = IF \E n \in 1..Len(q) : n \in I /\ q[n] = t THEN "RUNNING" ELSE v.st[t]
    BY <1>6, Zenon DEF Woken
  <2>2. (\E n \in 1..Len(q) : n \in I /\ q[n] = t) => t \in I
    BY <1>2, Zenon
  <2> QED BY <1>5, <2>1, <2>2, Zenon DEF Resumed
<1> QED BY <1>6, <1>7, Zenon DEF Woken, Roused

\* Roused states compose.
LEMMA RousedTwice ==
  ASSUME NEW u, NEW v, NEW w, Roused(v, u), Roused(w, v)
  PROVE  Roused(w, u)
BY Zenon DEF Roused, Resumed

\* What sched_exit does: d is a zombie, its parent is not left blocked, and
\* somebody else runs.
Exited(d, par) ==
  /\ PrSched' /\ s'.st[d] = "ZOMBIE"
  /\ par[d] # 0 => s'.st[par[d]] # "BLOCKED"
  /\ \A t \in Task : t # d => Resumed(s.st[t], s'.st[t])

\* ... and it does, with whatever processes sys_exit has woken before.
LEMMA SchedExitDoes ==
  ASSUME PrSched, NEW d \in Pid, s.cur = d, NEW sc, Roused(sc, s),
         NEW par \in [Pid -> Task], NEW pend, NEW halt, SchedExit(d, sc, par, pend, halt)
  PROVE  Exited(d, par)
<1> DEFINE z == SchedZombie(sc)
           w == WakeForSignal(z, par[d])
           up == /\ par[d] # 0 /\ w.st[par[d]] = "RUNNING" /\ waiting_for[par[d]] \in {0, d}
<1>0. d # Idle /\ d \in Task /\ Idle \in Task /\ par[d] \in Task /\ "ZOMBIE" \in States
  BY ProcAssumption DEF Pid, Idle, Task, States
<1>1. /\ Queue(s, Task, States) /\ s.st[Idle] = "RUNNING"
      /\ Queue(sc, Task, States) /\ sc.cur = d
      /\ \A t \in Task : Resumed(s.st[t], sc.st[t])
  BY Zenon DEF PrSched, Roused
<1>2. s' = IF up THEN SchedSwitch(w, par[d]) ELSE SchedYieldToNext(w)
  BY Zenon DEF SchedExit, NotifyParent
<1>3. WithState(z, sc, sc.cur, "ZOMBIE", Task, States) /\ z.cur = sc.cur
  BY <1>0, <1>1, ZombieQueue, Zenon
<1> HIDE DEF z
<1>4. Queue(z, Task, States) /\ \A t \in Task : z.st[t] = IF t = d THEN "ZOMBIE" ELSE sc.st[t]
  BY <1>1, <1>3, Zenon DEF WithState
<1>5. Roused(w, z) /\ (par[d] # 0 => w.st[par[d]] # "BLOCKED")
  BY <1>0, <1>4, WakeForSignalDoes, Zenon
<1> HIDE DEF w
<1>6. /\ Queue(w, Task, States) /\ w.st[d] = "ZOMBIE" /\ w.st[Idle] = "RUNNING"
      /\ \A t \in Task : t # d => Resumed(s.st[t], w.st[t])
  <2>1. Queue(w, Task, States) /\ \A t \in Task : Resumed(z.st[t], w.st[t])
    BY <1>5, Zenon DEF Roused
  <2> QED BY <1>0, <1>1, <1>4, <2>1 DEF Resumed
<1>7. Queue(s', Task, States) /\ s'.st = w.st /\ Runs(s')
  <2>1. CASE up
    <3>1. Switched(SchedSwitch(w, par[d]), w, Task, States) /\ SchedSwitch(w, par[d]).cur = par[d]
      BY <1>0, <1>6, SwitchQueue
    <3> QED BY <1>2, <2>1, <3>1, Zenon DEF Switched, Runs
  <2>2. CASE ~up
    <3>1. Switched(SchedYieldToNext(w), w, Task, States) /\ Runs(SchedYieldToNext(w))
      BY <1>0, <1>6, YieldQueue, Zenon
    <3> QED BY <1>2, <2>2, <3>1, Zenon DEF Switched
  <2> QED BY <2>1, <2>2, Zenon
<1>8. PrSched'
  <2>1. Queue(s, Task, States)' /\ Runs(s)'
    BY <1>7, Zenon DEF Queue, Runs
  <2> QED BY <1>6, <1>7, <2>1, Zenon DEF PrSched
<1> QED BY <1>5, <1>6, <1>7, <1>8, Zenon DEF Exited

\* The kinds of tasks, as the provers need them.
LEMMA TaskKinds ==
  /\ Idle \in Task /\ InitProc \in Pid /\ Idle \notin Pid
  /\ \A p \in Pid : p \in Task /\ p # 0 /\ p # Idle /\ p \in Nat
  /\ \A t \in Task : t \in Pid \/ t = 0
BY ProcAssumption DEF Task, Pid, Idle, InitProc

\* Waiters stay right when a child that ends or stops has woken its parent.
LEMMA WaitKept ==
  ASSUME PrWait,
         \A q \in Pid : s'.st[q] = "BLOCKED" /\ pc'[q] = "wait" =>
           s.st[q] = "BLOCKED" /\ pc[q] = "wait" /\ arg'[q] = arg[q],
         \A c \in Pid : s'.st[c] \in {"ZOMBIE", "STOPPED"} =>
           \/ ppid'[c] = InitProc
           \/ ppid'[c] = ppid[c] /\ (s'.st[c] = s.st[c] \/ s'.st[ppid[c]] # "BLOCKED")
  PROVE  PrWait'
<1> SUFFICES ASSUME NEW p \in Pid \ {InitProc}, s'.st[p] = "BLOCKED", pc'[p] = "wait",
                    NEW c \in Pid, Reportable(p, arg[p], c)'
             PROVE  FALSE
  BY Zenon DEF PrWait
<1>1. /\ s'.st[c] \in {"ZOMBIE", "STOPPED"} /\ c # p /\ ppid'[c] = p
      /\ arg'[p].who \in {0, c}
      /\ s'.st[c] = "ZOMBIE" \/ WUNTRACED \in arg'[p].opts
  BY Zenon DEF Reportable, Asks
<1>2. arg'[p] = arg[p] /\ ppid[c] = p /\ s.st[c] = s'.st[c]
  BY <1>1, Zenon
<1>3. Reportable(p, arg[p], c)
  BY <1>1, <1>2, Zenon DEF Reportable, Asks, Tasks
<1> QED BY <1>3, Zenon DEF PrWait

\* A zombie stays one until it is reaped, and a reaped task is gone for good.
Buried ==
  \A t \in Pid : /\ s.st[t] = "ZOMBIE" => s'.st[t] \in {"ZOMBIE", "gone"}
                 /\ s.st[t] = "gone" => s'.st[t] = "gone"

\* A step in which nobody exits and nobody is created.
Quiet ==
  \A t \in Task : \/ Resumed(s.st[t], s'.st[t])
                  \/ t = s.cur /\ s'.st[t] \in {"BLOCKED", "STOPPED"}
                  \/ s.st[t] = "ZOMBIE" /\ s'.st[t] = "gone"

\* Such a step preserves the invariant if what it wrote has its part of it.
LEMMA QuietInv ==
  ASSUME PrInv, Quiet, PrSched', PrFields', PrMemory', PrNoTerm', PrWait',
         UNCHANGED <<load, ppid, tgid, s_fork_count, shutdown>>
  PROVE  PrInv' /\ Buried
<1>0. PrSched /\ PrPids /\ PrGroups /\ PrTree /\ PrFields
  BY Zenon DEF PrInv
<1>1. \A t \in Pid : /\ s.st[t] \in Live => s'.st[t] \in Live
                     /\ s'.st[t] = "free" <=> s.st[t] = "free"
                     /\ s'.st[t] \notin {"free", "gone"} => s.st[t] \notin {"free", "gone"}
                     /\ s.st[t] = "ZOMBIE" => s'.st[t] \in {"ZOMBIE", "gone"}
                     /\ s.st[t] = "gone" => s'.st[t] = "gone"
  <2> TAKE t \in Pid
  <2>1. t \in Task /\ (t = s.cur => s.st[t] = "RUNNING")
    BY <1>0, TaskKinds, Zenon DEF PrSched, Runs
  <2> QED BY <2>1, Zenon DEF Quiet, Resumed, Live
<1>2. PrPids' /\ PrGroups'
  BY <1>0, <1>1, Zenon DEF PrPids, PrGroups, Calls
<1>3. PrTree'
  <2>1. Peaceful' = Peaceful /\ InitProc \in Pid
    BY TaskKinds, Zenon DEF Peaceful, Signals, Leaders
  <2>2. Tasks' \subseteq Tasks /\ Tasks \subseteq Pid
    BY <1>1, Zenon DEF Tasks
  <2>3. \A p \in Pid : LiveParent(p) => LiveParent(p)'
    BY <1>1, Zenon DEF LiveParent
  <2> QED BY <1>0, <1>1, <2>1, <2>2, <2>3, Zenon DEF PrTree
<1>4. Buried
  BY <1>1, Zenon DEF Buried
<1> QED BY <1>2, <1>3, <1>4, Zenon DEF PrInv

\* A process exits, by sys_exit, by sys_exit_group or by a signal.
LEMMA ExitStep ==
  ASSUME PrInv, NEW d \in Pid, s.cur = d, Exited(d, ppid'), PrNoTerm',
         ppid' \in [Pid -> Task], pc' = [pc EXCEPT ![d] = "user"],
         pending' \in [Pid -> SUBSET SigSet], shutdown' \in BOOLEAN, shutdown => shutdown',
         UNCHANGED <<load, tgid, pml4, mapped, stop_signum, waiting_for, arg, s_fork_count>>,
         \A c \in Pid : ppid'[c] \in {ppid[c], InitProc},
         Peaceful => /\ d = InitProc => shutdown'
                     /\ \A c \in Tasks : ppid[c] = d => ppid'[c] = InitProc
  PROVE  PrInv' /\ Buried
<1>0. PrSched /\ PrPids /\ PrGroups /\ PrTree /\ PrFields /\ PrMemory /\ PrWait
  BY Zenon DEF PrInv
<1>1. /\ PrSched' /\ s'.st[d] = "ZOMBIE" /\ s.st[d] = "RUNNING" /\ s'.st[0] = "RUNNING"
      /\ ppid'[d] # 0 => s'.st[ppid'[d]] # "BLOCKED"
      /\ \A t \in Pid : t # d => Resumed(s.st[t], s'.st[t])
  BY <1>0, TaskKinds, Zenon DEF Exited, PrSched, Runs, Idle
<1>2. PrFields'
  BY <1>0, Zenon DEF PrFields
<1>3. PrPids' /\ PrGroups' /\ PrMemory'
  BY <1>0, <1>1 DEF PrPids, PrGroups, PrMemory, Calls, Resumed
<1>4. PrTree'
  <2> SUFFICES ASSUME Peaceful', ~shutdown'
               PROVE  s'.st[InitProc] \in Live /\ \A p \in Tasks' \ {InitProc} : LiveParent(p)'
    BY Zenon DEF PrTree
  <2>1. Peaceful /\ ~shutdown /\ d # InitProc /\ InitProc \in Pid
    BY TaskKinds, Zenon DEF Peaceful, Signals, Leaders
  <2>2. \A t \in Pid : t # d /\ s.st[t] \in Live => s'.st[t] \in Live
    BY <1>1, Zenon DEF Resumed, Live
  <2>3. s.st[InitProc] \in Live /\ s'.st[InitProc] \in Live
    BY <1>0, <2>1, <2>2, Zenon DEF PrTree
  <2>4. ASSUME NEW p \in Tasks' \ {InitProc} PROVE LiveParent(p)'
    <3>1. p \in Tasks /\ p \in Pid
      BY <1>1, Zenon DEF Tasks, Resumed
    <3>2. CASE ppid'[p] = InitProc
      BY <2>1, <2>3, <3>2, Zenon DEF LiveParent
    <3>3. CASE ppid'[p] = ppid[p] /\ ppid[p] # d
      <4>1. ppid[p] \in Pid /\ s.st[ppid[p]] \in Live
        BY <1>0, <2>1, <2>4, <3>1, Zenon DEF PrTree, LiveParent
      <4> QED BY <2>2, <3>3, <4>1, Zenon DEF LiveParent
    <3> QED BY <2>1, <3>1, <3>2, <3>3, Zenon
  <2> QED BY <2>3, <2>4, Zenon
<1>5. PrWait'
  <2>1. \A q \in Pid : s'.st[q] = "BLOCKED" /\ pc'[q] = "wait" =>
          s.st[q] = "BLOCKED" /\ pc[q] = "wait" /\ arg'[q] = arg[q]
    BY <1>0, <1>1, Zenon DEF Resumed, PrFields
  <2>2. ASSUME NEW c \in Pid, s'.st[c] \in {"ZOMBIE", "STOPPED"}
        PROVE  \/ ppid'[c] = InitProc
               \/ ppid'[c] = ppid[c] /\ (s'.st[c] = s.st[c] \/ s'.st[ppid[c]] # "BLOCKED")
    <3>1. CASE c = d
      BY <1>1, <3>1, Zenon
    <3>2. CASE c # d
      BY <1>1, <2>2, <3>2, Zenon DEF Resumed
    <3> QED BY <3>1, <3>2, Zenon
  <2> QED BY <1>0, <2>1, <2>2, WaitKept, Zenon
<1>6. Buried
  BY <1>1, Zenon DEF Resumed, Buried
<1> QED BY <1>1, <1>2, <1>3, <1>4, <1>5, <1>6, Zenon DEF PrInv

\* Posting a signal keeps the types and, unless it is the one that kills, the
\* absence of that one.
LEMMA PostDoes ==
  ASSUME NEW pend \in [Pid -> SUBSET SigSet], NEW G, NEW sig \in SigSet
  PROVE  /\ Post(pend, G, sig) \in [Pid -> SUBSET SigSet]
         /\ sig # "TERM" => \A p \in Pid : "TERM" \in Post(pend, G, sig)[p] => "TERM" \in pend[p]
         /\ G = {} => Post(pend, G, sig) = pend
<1>1. \A p \in Pid : /\ Post(pend, G, sig)[p] \in {pend[p], pend[p] \cup {sig}}
                     /\ G = {} => Post(pend, G, sig)[p] = pend[p]
  BY Zenon DEF Post
<1>2. Post(pend, G, sig) \in [Pid -> SUBSET SigSet]
  BY Zenon DEF Post
<1>3. G = {} => Post(pend, G, sig) = pend
  BY <1>1, <1>2
<1> QED BY <1>1, <1>2, <1>3, Zenon

\* What sched_exit does to the rest of the state.
RestExited(d, par, pend, halt) ==
  /\ ppid' = par /\ pc' = [pc EXCEPT ![d] = "user"]
  /\ pending' \in [Pid -> SUBSET SigSet]
  /\ shutdown' \in BOOLEAN /\ (shutdown => shutdown') /\ (halt => shutdown')
  /\ (\A p \in Pid : "TERM" \notin pend[p]) => \A p \in Pid : "TERM" \notin pending'[p]

\* ... whatever parents and pending signals its caller passes on.
LEMMA SchedExitRest ==
  ASSUME NEW d \in Pid, NEW sc, NEW par, NEW pend \in [Pid -> SUBSET SigSet],
         NEW halt \in BOOLEAN, shutdown \in BOOLEAN, SchedExit(d, sc, par, pend, halt)
  PROVE  RestExited(d, par, pend, halt)
<1> DEFINE q == Post(pend, {par[d]}, "CHLD")
<1>1. ppid' = par /\ pc' = [pc EXCEPT ![d] = "user"] /\ pending' = [q EXCEPT ![d] = {}]
  BY Zenon DEF SchedExit
<1>2. shutdown' \in BOOLEAN /\ (shutdown => shutdown') /\ (halt => shutdown')
  <2>1. PICK b \in BOOLEAN : shutdown' = (shutdown \/ halt \/ b)
    BY Zenon DEF SchedExit
  <2> QED BY <2>1, Zenon
<1>3. q \in [Pid -> SUBSET SigSet] /\ \A p \in Pid : "TERM" \in q[p] => "TERM" \in pend[p]
  BY PostDoes, Zenon DEF SigSet
<1> HIDE DEF q
<1> QED BY <1>1, <1>2, <1>3, Zenon DEF RestExited

\* sys_exit and sys_exit_group hang up a session leader's terminal first; a
\* group without other threads is the process itself.
LEMMA ExitInv ==
  ASSUME PrInv, ZombiesUnlinked, UNCHANGED load, NEW p \in Pid, NEW G,
         Exit(p, G) \/ ExitGroup(p, G)
  PROVE  PrInv' /\ Buried
<1> DEFINE H == HangUp(p, G)
           pend == Post(Post(pending, H, "TERM"), H, "CONT")
           par == Reparent(p)
<1>0. PrSched /\ PrFields /\ PrGroups /\ PrNoTerm /\ Queue(s, Task, States) /\ s.cur = p
  BY Zenon DEF PrInv, PrSched, Exit, ExitGroup, InUser
<1>1. /\ pend \in [Pid -> SUBSET SigSet]
      /\ Peaceful => pend = pending
  <2>1. Post(pending, H, "TERM") \in [Pid -> SUBSET SigSet] /\ (H = {} => Post(pending, H, "TERM") = pending)
    BY <1>0, PostDoes, Zenon DEF PrFields, SigSet
  <2>2. pend \in [Pid -> SUBSET SigSet] /\ (H = {} => pend = Post(pending, H, "TERM"))
    BY <2>1, PostDoes, Zenon DEF SigSet
  <2>3. Peaceful => H = {}
    BY Zenon DEF Peaceful, HangUp
  <2> QED BY <2>1, <2>2, <2>3, Zenon
<1>2. /\ par \in [Pid -> Task] /\ \A c \in Pid : par[c] \in {ppid[c], InitProc}
      /\ \A c \in Tasks : ppid[c] = p => par[c] = InitProc
  BY <1>0, TaskKinds, Zenon DEF Reparent, PrFields, Tasks
<1>3. Roused(SendGroup(s, H), s)
  BY <1>0, SendGroupDoes, Zenon
<1>4. \E halt \in BOOLEAN : /\ SchedExit(p, SendGroup(s, H), par, pend, halt)
                            /\ p = InitProc => halt
  <2>1. CASE Exit(p, G)
    BY <2>1, Zenon DEF Exit
  <2>2. CASE ExitGroup(p, G)
    <3> DEFINE k == [s EXCEPT !.st = [t \in Task |-> IF t \in Group(p) \ {p} THEN "ZOMBIE" ELSE @[t]]]
    <3>1. "thread" \notin Calls
      BY <2>2, Zenon DEF ExitGroup, ZombiesUnlinked
    <3>2. \A t \in Group(p) : t = p
      BY <1>0, <3>1, Zenon DEF Group, PrGroups, Tasks
    <3>3. k = s
      <4>1. s \in [st : [Task -> States], rq : Seq(Task), cur : Task]
        BY <1>0, Zenon DEF Queue
      <4>2. [t \in Task |-> IF t \in Group(p) \ {p} THEN "ZOMBIE" ELSE s.st[t]] = s.st
        BY <3>2, <4>1, Zenon
      <4>3. k = [s EXCEPT !.st = s.st]
        BY <4>1, <4>2, Zenon
      <4> QED BY <4>1, <4>3, Zenon
    <3>4. SchedExit(p, SendGroup(k, H), par, pend, tgid[p] = InitProc)
      BY <2>2, Zenon DEF ExitGroup
    <3>5. tgid[p] = p
      BY <1>0, <3>1, Zenon DEF PrGroups
    <3> QED BY <3>3, <3>4, <3>5, Zenon
  <2> QED BY <2>1, <2>2, Zenon
<1> HIDE DEF H, pend, par
<1>5. PICK halt \in BOOLEAN : /\ SchedExit(p, SendGroup(s, H), par, pend, halt)
                              /\ p = InitProc => halt
  BY <1>4, Zenon
<1>6. Exited(p, par)
  BY <1>0, <1>2, <1>3, <1>5, SchedExitDoes, Zenon
<1>7. RestExited(p, par, pend, halt)
  <2>1. shutdown \in BOOLEAN
    BY <1>0, Zenon DEF PrFields
  <2> QED BY <1>1, <1>5, <2>1, SchedExitRest, Zenon
<1>8. PrNoTerm'
  BY <1>0, <1>1, <1>7, Zenon DEF PrNoTerm, Peaceful, Signals, Leaders, RestExited
<1>9. UNCHANGED <<load, tgid, pml4, mapped, stop_signum, waiting_for, arg, s_fork_count>>
  BY Zenon DEF Exit, ExitGroup
<1> QED BY <1>0, <1>2, <1>5, <1>6, <1>7, <1>8, <1>9, ExitStep, Zenon DEF RestExited

\* A step that changes no task's state, and nobody's memory.
LEMMA StillInv ==
  ASSUME PrInv, UNCHANGED <<load, s, ppid, tgid, pml4, s_fork_count, shutdown>>,
         PrFields', PrMemory', PrNoTerm',
         \A q \in Pid : pc'[q] = "wait" => pc[q] = "wait" /\ arg'[q] = arg[q]
  PROVE  PrInv' /\ Buried
<1>0. PrSched /\ PrWait /\ PrFields
  BY Zenon DEF PrInv
<1>1. PrSched' /\ Quiet
  BY <1>0, Zenon DEF PrSched, Quiet, Resumed, Queue, Runs
<1>2. PrWait'
  BY <1>0, WaitKept, Zenon
<1> QED BY <1>1, <1>2, QuietInv, Zenon

\* Unmapping an address space that nobody shares takes it from nobody.
LEMMA UnmapDoes ==
  ASSUME mapped \in [Pid -> BOOLEAN], NEW p
  PROVE  /\ Unmap(p) \in [Pid -> BOOLEAN]
         /\ (\A q \in Pid : pml4[q] = q) /\ p \in Pid => \A q \in Pid : mapped[q] => Unmap(p)[q]
<1>1. \A q \in Pid : mapped[q] \in BOOLEAN
  BY Zenon
<1>2. \A q \in Pid : (IF q # p /\ q \in Tasks /\ pml4[q] = pml4[p] THEN FALSE ELSE mapped[q]) \in BOOLEAN
  BY <1>1, Zenon
<1>3. Unmap(p) \in [Pid -> BOOLEAN]
  BY <1>2, Zenon DEF Unmap
<1>4. \A q \in Pid : Unmap(p)[q] = IF q # p /\ q \in Tasks /\ pml4[q] = pml4[p] THEN FALSE ELSE mapped[q]
  BY Zenon DEF Unmap
<1> QED BY <1>3, <1>4, Zenon

\* The parent of a vfork returns, an execve replaces the image, and a clone
\* fails: nobody's state changes.
LEMMA ReturnInv ==
  ASSUME PrInv, UNCHANGED load, NEW p \in Pid,
         VforkReturn(p) \/ Exec(p) \/ CreateFails(p)
  PROVE  PrInv' /\ Buried
<1>0. PrFields /\ PrMemory /\ PrNoTerm
  BY Zenon DEF PrInv
<1>1. /\ UNCHANGED <<s, ppid, tgid, pml4, pending, stop_signum, waiting_for, arg,
                     s_fork_count, shutdown>>
      /\ pc' = [pc EXCEPT ![p] = "ret"]
      /\ mapped' = mapped \/ mapped' = [Unmap(p) EXCEPT ![p] = TRUE]
  BY Zenon DEF VforkReturn, Exec, CreateFails
<1>2. /\ mapped \in [Pid -> BOOLEAN] /\ Unmap(p) \in [Pid -> BOOLEAN]
      /\ (\A q \in Pid : pml4[q] = q) => \A q \in Pid : mapped[q] => Unmap(p)[q]
  BY <1>0, UnmapDoes, Zenon DEF PrFields
<1>3. mapped' \in [Pid -> BOOLEAN] /\ PrMemory'
  <2>1. \A q \in Pid : mapped'[q] = mapped[q] \/ mapped'[q] = Unmap(p)[q] \/ mapped'[q] = TRUE
    BY <1>1, <1>2, Zenon
  <2>2. mapped' \in [Pid -> BOOLEAN]
    BY <1>1, <1>2, Zenon
  <2> QED BY <1>0, <1>1, <1>2, <2>1, <2>2, Zenon DEF PrMemory, Calls
<1>4. PrFields'
  BY <1>0, <1>1, <1>3, Zenon DEF PrFields
<1>5. PrNoTerm'
  BY <1>0, <1>1, Zenon DEF PrNoTerm, Peaceful, Signals, Leaders
<1>6. \A q \in Pid : pc'[q] = "wait" => pc[q] = "wait" /\ arg'[q] = arg[q]
  BY <1>0, <1>1, Zenon DEF PrFields
<1> QED BY <1>1, <1>3, <1>4, <1>5, <1>6, StillInv, Zenon

\* sys_kill, to one process and to a group.
LEMMA KillInv ==
  ASSUME PrInv, UNCHANGED load, NEW p \in Pid, NEW sig \in Signals,
         (\E q \in Pid : Kill(p, q, sig)) \/ (\E G : KillGroup(p, G, sig))
  PROVE  PrInv' /\ Buried
<1>0. PrFields /\ PrMemory /\ PrNoTerm /\ PrSched /\ PrWait /\ Queue(s, Task, States)
  BY Zenon DEF PrInv, PrSched
<1>1. /\ UNCHANGED <<ppid, tgid, pml4, mapped, stop_signum, waiting_for, arg, s_fork_count, shutdown>>
      /\ pc' = [pc EXCEPT ![p] = "ret"]
  BY Zenon DEF Kill, KillGroup
<1>2. Roused(s', s)
  <2>1. CASE \E q \in Pid : Kill(p, q, sig)
    BY <1>0, <2>1, WakeForSignalDoes, TaskKinds, Zenon DEF Kill
  <2>2. CASE \E G : KillGroup(p, G, sig)
    BY <1>0, <2>2, SendGroupDoes, Zenon DEF KillGroup
  <2> QED BY <2>1, <2>2, Zenon
<1>3. /\ pending' \in [Pid -> SUBSET SigSet]
      /\ sig # "TERM" => \A q \in Pid : "TERM" \in pending'[q] => "TERM" \in pending[q]
  <2>1. \E G : pending' = Post(pending, G, sig)
    BY Zenon DEF Kill, KillGroup
  <2>2. sig \in SigSet
    BY <1>0, ProcAssumption, Zenon DEF PrFields, Signals
  <2> QED BY <1>0, <2>1, <2>2, PostDoes DEF PrFields
<1>4. PrFields' /\ PrMemory'
  BY <1>0, <1>1, <1>3, Zenon DEF PrFields, PrMemory, Calls
<1>5. PrNoTerm'
  BY <1>0, <1>3, Zenon DEF PrNoTerm, Peaceful, Signals, Leaders
<1>6. PrSched' /\ Quiet
  <2>1. /\ Queue(s, Task, States)' /\ s'.cur = s.cur
        /\ \A t \in Task : Resumed(s.st[t], s'.st[t])
    BY <1>2, Zenon DEF Roused, Queue
  <2>2. s.cur \in Task /\ Idle \in Task
    BY <1>0, TaskKinds, Zenon DEF Queue
  <2> QED BY <1>0, <2>1, <2>2, Zenon DEF PrSched, Quiet, Resumed, Runs
<1>7. PrWait'
  <2>1. \A t \in Pid : Resumed(s.st[t], s'.st[t])
    BY <1>2, TaskKinds, Zenon DEF Roused
  <2>2. \A q \in Pid : s'.st[q] = "BLOCKED" /\ pc'[q] = "wait" =>
          s.st[q] = "BLOCKED" /\ pc[q] = "wait" /\ arg'[q] = arg[q]
    BY <1>0, <1>1, <2>1, Zenon DEF Resumed, PrFields
  <2>3. \A c \in Pid : s'.st[c] \in {"ZOMBIE", "STOPPED"} => ppid'[c] = ppid[c] /\ s'.st[c] = s.st[c]
    BY <1>1, <2>1, Zenon DEF Resumed
  <2> QED BY <1>0, <2>2, <2>3, WaitKept, Zenon
<1> QED BY <1>1, <1>4, <1>5, <1>6, <1>7, QuietInv, Zenon

\* The current process blocks or stops, and another one runs.
LEMMA ProcLeaves ==
  ASSUME NEW v, Roused(v, s), PrSched, s.cur \in Pid, NEW x \in {"BLOCKED", "STOPPED"},
         s' = SchedLeave(v, x)
  PROVE  /\ PrSched' /\ Quiet /\ s'.st[s.cur] = x
         /\ \A t \in Task : t # s.cur => s'.st[t] = v.st[t]
<1>0. /\ Queue(v, Task, States) /\ v.cur = s.cur /\ s.cur # Idle /\ s.cur \in Task
      /\ Idle \in Task /\ x \in States /\ x # "RUNNING"
  BY TaskKinds, Zenon DEF Roused, States, Live
<1>1. v.st[Idle] = "RUNNING" /\ \A t \in Task : Resumed(s.st[t], v.st[t])
  BY <1>0, Zenon DEF Roused, Resumed, PrSched
<1>2. WithState(SchedLeave(v, x), v, v.cur, x, Task, States) /\ Runs(SchedLeave(v, x))
  BY <1>0, <1>1, LeaveQueue, Zenon
<1>3. \A t \in Task : s'.st[t] = IF t = s.cur THEN x ELSE v.st[t]
  BY <1>0, <1>2, Zenon DEF WithState
<1>4. Queue(s, Task, States)' /\ Runs(s)'
  BY <1>2, Zenon DEF WithState, Queue, Runs
<1>5. PrSched'
  BY <1>0, <1>1, <1>3, <1>4, Zenon DEF PrSched
<1> QED BY <1>0, <1>1, <1>3, <1>5, Zenon DEF Quiet

\* Nobody is roused: the state itself.
LEMMA RousedSelf ==
  ASSUME PrSched PROVE Roused(s, s)
BY Zenon DEF PrSched, Roused, Resumed

\* fork and clone: the child is added, and a vfork's parent blocks.
LEMMA CreateInv ==
  ASSUME PrInv, UNCHANGED load, NEW p \in Pid, NEW kind \in {"fork", "thread", "vfork"},
         kind \in Calls, InUser(p), Create(p, kind)
  PROVE  PrInv' /\ Buried
<1> DEFINE c == NewPid
           v == SchedAdd(s, c)
<1>0. /\ PrSched /\ PrFields /\ PrPids /\ PrGroups /\ PrMemory /\ PrNoTerm /\ PrTree /\ PrWait
      /\ s.cur = p /\ s.st[p] = "RUNNING" /\ Queue(s, Task, States)
  BY Zenon DEF PrInv, PrSched, InUser, Runs
<1>1. /\ c \in Pid /\ c = s_fork_count + 1 /\ s_fork_count \in Nat /\ c <= MaxPid
  <2>1. load.pids \in 1..MaxPid /\ s_fork_count \in 1..MaxPid /\ MaxPid \in Nat
    BY <1>0, ProcAssumption, Zenon DEF PrFields
  <2>2. c \in 1..load.pids /\ c = s_fork_count + 1
    BY Zenon DEF Create, NewPid
  <2> QED BY <2>1, <2>2 DEF Pid
<1>2. s.st[c] = "free" /\ c # p /\ c \in Task /\ p \in Task
  <2>1. c > s_fork_count /\ (s.st[c] = "free" <=> c > s_fork_count)
    BY <1>0, <1>1 DEF PrPids
  <2> QED BY <1>0, <1>1, <2>1, TaskKinds, Zenon
<1>3. /\ ppid' = [ppid EXCEPT ![c] = p]
      /\ tgid' = [tgid EXCEPT ![c] = IF kind = "thread" THEN tgid[p] ELSE c]
      /\ pml4' = [pml4 EXCEPT ![c] = NewPml4(p, kind)]
      /\ mapped' = [mapped EXCEPT ![c] = mapped[p]]
      /\ s_fork_count' = s_fork_count + 1
      /\ UNCHANGED <<pending, stop_signum, arg, shutdown>>
  BY Zenon DEF Create
<1>4. \/ /\ s' = SchedBlock(v) /\ waiting_for' = [waiting_for EXCEPT ![p] = c]
         /\ pc' = [pc EXCEPT ![p] = "vfork"]
      \/ /\ s' = v /\ waiting_for' = waiting_for
         /\ pc' = [pc EXCEPT ![p] = "ret"]
  BY Zenon DEF Create
<1>5. /\ Queue(v, Task, States) /\ v.cur = p
      /\ \A t \in Task : v.st[t] = IF t = c THEN "RUNNING" ELSE s.st[t]
  <2>1. SchedAdd(s, c) = SchedWake(s, c) /\ "RUNNING" \in States
    BY Zenon DEF SchedAdd, SchedWake, States, Live
  <2>2. WithState(SchedWake(s, c), s, c, "RUNNING", Task, States) /\ SchedWake(s, c).cur = s.cur
    BY <1>0, <1>2, <2>1, WakeQueue, Zenon
  <2> QED BY <1>0, <2>1, <2>2, Zenon DEF WithState
<1> HIDE DEF c, v
<1>6. /\ PrSched' /\ s'.st[p] \in {"RUNNING", "BLOCKED"}
      /\ \A t \in Task : t # p => s'.st[t] = IF t = c THEN "RUNNING" ELSE s.st[t]
  <2>0. v.st[Idle] = "RUNNING" /\ Idle \in Task /\ p # Idle /\ c # Idle
    BY <1>0, <1>1, <1>5, TaskKinds, Zenon DEF PrSched
  <2>1. CASE s' = v
    <3>1. Queue(s, Task, States)' /\ Runs(s)'
      BY <1>0, <1>2, <1>5, <2>1, Zenon DEF Queue, Runs
    <3> QED BY <1>0, <1>2, <1>5, <2>0, <2>1, <3>1, Zenon DEF PrSched
  <2>2. CASE s' = SchedBlock(v)
    <3>1. "BLOCKED" \in States /\ SchedBlock(v) = SchedLeave(v, "BLOCKED")
      BY Zenon DEF States, Live, SchedBlock
    <3>2. WithState(SchedLeave(v, "BLOCKED"), v, v.cur, "BLOCKED", Task, States)
          /\ Runs(SchedLeave(v, "BLOCKED"))
      BY <1>5, <2>0, <3>1, LeaveQueue, Zenon
    <3>3. \A t \in Task : s'.st[t] = IF t = p THEN "BLOCKED" ELSE v.st[t]
      BY <1>5, <2>2, <3>1, <3>2, Zenon DEF WithState
    <3>4. Queue(s, Task, States)' /\ Runs(s)'
      BY <2>2, <3>1, <3>2 DEF WithState, Queue, Runs
    <3> QED BY <1>2, <1>5, <2>0, <3>3, <3>4, Zenon DEF PrSched
  <2> QED BY <1>4, <2>1, <2>2, Zenon
<1>7. PrFields'
  <2>1. pc' \in [Pid -> {"user", "ret", "wait", "vfork"}] /\ waiting_for' \in [Pid -> Task]
    <3>1. /\ pc \in [Pid -> {"user", "ret", "wait", "vfork"}] /\ waiting_for \in [Pid -> Task]
          /\ c \in Task
      BY <1>0, <1>2, Zenon DEF PrFields
    <3> QED BY <1>4, <3>1, Zenon
  <2>2. ppid' \in [Pid -> Task] /\ tgid' \in [Pid -> Pid]
    BY <1>0, <1>1, <1>2, <1>3, Zenon DEF PrFields
  <2>3. pml4' \in [Pid -> Pid]
    <3>1. NewPml4(p, kind) \in Pid
      BY <1>0, <1>1, Zenon DEF NewPml4, PrFields, c
    <3> QED BY <1>0, <1>3, <3>1, Zenon DEF PrFields
  <2>4. mapped' \in [Pid -> BOOLEAN]
    BY <1>0, <1>3, Zenon DEF PrFields
  <2>5. s_fork_count' \in 1..MaxPid
    BY <1>1, <1>3, ProcAssumption
  <2> QED BY <1>0, <1>3, <2>1, <2>2, <2>3, <2>4, <2>5, Zenon DEF PrFields
<1>8. PrPids'
  <2> SUFFICES ASSUME NEW q \in Pid PROVE s'.st[q] = "free" <=> q > s_fork_count'
    BY Zenon DEF PrPids
  <2>1. q \in Task /\ q \in Nat /\ (s.st[q] = "free" <=> q > s_fork_count)
    BY <1>0, TaskKinds, Zenon DEF PrPids
  <2>2. CASE q = p
    BY <1>0, <1>1, <1>2, <1>3, <1>6, <2>1, <2>2
  <2>3. CASE q = c
    BY <1>1, <1>2, <1>3, <1>6, <2>1, <2>3
  <2>4. CASE q # p /\ q # c
    BY <1>1, <1>3, <1>6, <2>1, <2>4
  <2> QED BY <2>2, <2>3, <2>4, Zenon
<1>9. PrGroups'
  BY <1>0, <1>1, <1>3, Zenon DEF PrGroups, Calls, PrFields
<1>10. PrMemory'
  <2> SUFFICES ASSUME Calls \cap {"thread", "vfork"} = {}
               PROVE  \A q \in Pid : mapped'[q] /\ pml4'[q] = q
    BY Zenon DEF PrMemory, Calls
  <2>1. kind = "fork" /\ NewPml4(p, kind) = c
    BY Zenon DEF NewPml4, c
  <2>2. \A q \in Pid : mapped[q] /\ pml4[q] = q
    BY <1>0, Zenon DEF PrMemory
  <2> QED BY <1>0, <1>1, <1>3, <2>1, <2>2, Zenon DEF PrFields
<1>11. PrNoTerm'
  BY <1>0, <1>3, Zenon DEF PrNoTerm, Peaceful, Signals, Leaders
<1>12. PrTree'
  <2> SUFFICES ASSUME Peaceful', ~shutdown'
               PROVE  s'.st[InitProc] \in Live /\ \A q \in Tasks' \ {InitProc} : LiveParent(q)'
    BY Zenon DEF PrTree
  <2>1. /\ Peaceful /\ ~shutdown /\ InitProc \in Pid
        /\ s.st[InitProc] \in Live /\ \A q \in Tasks \ {InitProc} : LiveParent(q)
    BY <1>0, <1>3, TaskKinds, Zenon DEF PrTree, Peaceful, Signals, Leaders
  <2>2. \A q \in Pid : s.st[q] \in Live => s'.st[q] \in Live
    BY <1>2, <1>6, TaskKinds, Zenon DEF Live
  <2>3. s'.st[p] \in Live
    BY <1>6, Zenon DEF Live
  <2>4. ASSUME NEW q \in Tasks' \ {InitProc} PROVE LiveParent(q)'
    <3>1. CASE q = c
      BY <1>0, <1>1, <1>3, <2>3, <3>1, Zenon DEF LiveParent, PrFields
    <3>2. CASE q # c
      <4>1. q \in Tasks /\ ppid'[q] = ppid[q]
        BY <1>0, <1>3, <1>6, <3>2, TaskKinds, Zenon DEF Tasks, PrFields
      <4> QED BY <2>1, <2>2, <2>4, <4>1, Zenon DEF LiveParent
    <3> QED BY <3>1, <3>2, Zenon
  <2> QED BY <2>1, <2>2, <2>4, Zenon
<1>13. PrWait'
  <2>1. \A q \in Pid : s'.st[q] = "BLOCKED" /\ pc'[q] = "wait" =>
          s.st[q] = "BLOCKED" /\ pc[q] = "wait" /\ arg'[q] = arg[q]
    BY <1>0, <1>3, <1>4, <1>6, TaskKinds, Zenon DEF PrFields
  <2>2. \A q \in Pid : s'.st[q] \in {"ZOMBIE", "STOPPED"} => ppid'[q] = ppid[q] /\ s'.st[q] = s.st[q]
    BY <1>0, <1>3, <1>6, TaskKinds, Zenon DEF PrFields
  <2> QED BY <1>0, <2>1, <2>2, WaitKept, Zenon
<1>14. Buried
  BY <1>0, <1>2, <1>6, TaskKinds, Zenon DEF Buried
<1> QED BY <1>6, <1>7, <1>8, <1>9, <1>10, <1>11, <1>12, <1>13, <1>14, Zenon DEF PrInv

\* The scan of sys_waitpid, on the call and after each wake-up.
LEMMA WaitInv ==
  ASSUME PrInv, UNCHANGED load, NEW p \in Pid, s.cur = p,
         NEW a \in [who : Task, opts : SUBSET {WUNTRACED, WNOHANG}], WaitScan(p, a)
  PROVE  PrInv' /\ Buried
<1>0. PrFields /\ PrMemory /\ PrNoTerm /\ PrSched /\ PrWait /\ Queue(s, Task, States)
  BY Zenon DEF PrInv, PrSched
<1>1. UNCHANGED <<ppid, tgid, pml4, pending, s_fork_count, shutdown>>
  BY Zenon DEF WaitScan
<1>2. PrNoTerm'
  BY <1>0, <1>1, Zenon DEF PrNoTerm, Peaceful, Signals, Leaders
<1>3. NoArg \in [who : Task, opts : SUBSET {WUNTRACED, WNOHANG}] /\ 0 \in Task
  BY TaskKinds, Zenon DEF NoArg, Idle
<1>4. CASE WaitFound(p, a)
  <2>1. PICK c \in Pid :
          /\ Reportable(p, a, c)
          /\ IF s.st[c] = "ZOMBIE" THEN Reap(p, c) ELSE ReportStop(p, c)
          /\ pc' = [pc EXCEPT ![p] = "ret"]
          /\ waiting_for' = [waiting_for EXCEPT ![p] = 0]
          /\ arg' = [arg EXCEPT ![p] = NoArg]
    BY <1>4, Zenon DEF WaitFound
  <2>2. \/ /\ s.st[c] = "ZOMBIE" /\ s' = [s EXCEPT !.st[c] = "gone"]
           /\ mapped' = Unmap(c) \/ mapped' = mapped
           /\ stop_signum' = stop_signum
        \/ /\ s' = s /\ mapped' = mapped
           /\ stop_signum' = [stop_signum EXCEPT ![c] = "none"]
    BY <2>1, Zenon DEF Reap, ReportStop
  <2>3. mapped' \in [Pid -> BOOLEAN] /\ PrMemory'
    <3>1. /\ mapped \in [Pid -> BOOLEAN] /\ Unmap(c) \in [Pid -> BOOLEAN]
          /\ (\A q \in Pid : pml4[q] = q) => \A q \in Pid : mapped[q] => Unmap(c)[q]
      BY <1>0, UnmapDoes, Zenon DEF PrFields
    <3>2. mapped' = Unmap(c) \/ mapped' = mapped
      BY <2>2, Zenon
    <3> QED BY <1>0, <1>1, <3>1, <3>2, Zenon DEF PrMemory, Calls
  <2>4. PrFields'
    <3>1. pc' \in [Pid -> {"user", "ret", "wait", "vfork"}] /\ waiting_for' \in [Pid -> Task]
      BY <1>0, <1>3, <2>1, Zenon DEF PrFields
    <3>2. arg' \in [Pid -> [who : Task, opts : SUBSET {WUNTRACED, WNOHANG}]]
      BY <1>0, <1>3, <2>1, Zenon DEF PrFields
    <3>3. stop_signum' \in [Pid -> {"none", "TSTP"}]
      BY <1>0, <2>2, Zenon DEF PrFields
    <3> QED BY <1>0, <1>1, <2>3, <3>1, <3>2, <3>3, Zenon DEF PrFields
  <2>5. PrSched' /\ \A t \in Task : s'.st[t] = s.st[t] \/ (s.st[t] = "ZOMBIE" /\ s'.st[t] = "gone")
    <3>1. CASE s' = s
      BY <1>0, <3>1, Zenon DEF PrSched, Queue, Runs
    <3>2. CASE s.st[c] = "ZOMBIE" /\ s' = [s EXCEPT !.st[c] = "gone"]
      <4>1. /\ s'.rq = s.rq /\ s'.cur = s.cur /\ "gone" \in States /\ c \in Task
            /\ s' \in [st : [Task -> States], rq : Seq(Task), cur : Task]
            /\ \A t \in Task : s'.st[t] = IF t = c THEN "gone" ELSE s.st[t]
        BY <1>0, <3>2, TaskKinds, Zenon DEF Queue, States
      <4>2. Queue(s, Task, States)'
        BY <1>0, <3>2, <4>1, Zenon DEF Queue
      <4>3. s.cur \in Task /\ Idle \in Task
        BY <1>0, TaskKinds, Zenon DEF Queue
      <4> QED BY <1>0, <3>2, <4>1, <4>2, <4>3, Zenon DEF PrSched, Runs
    <3> QED BY <2>2, <3>1, <3>2, Zenon
  <2>6. Quiet
    BY <2>5, Zenon DEF Quiet, Resumed
  <2>7. PrWait'
    <3>1. \A q \in Pid : s'.st[q] = "BLOCKED" /\ pc'[q] = "wait" =>
            s.st[q] = "BLOCKED" /\ pc[q] = "wait" /\ arg'[q] = arg[q]
      BY <1>0, <2>1, <2>5, TaskKinds, Zenon DEF PrFields
    <3>2. \A q \in Pid : s'.st[q] \in {"ZOMBIE", "STOPPED"} => ppid'[q] = ppid[q] /\ s'.st[q] = s.st[q]
      BY <1>1, <2>5, TaskKinds, Zenon
    <3> QED BY <1>0, <3>1, <3>2, WaitKept, Zenon
  <2> QED BY <1>1, <1>2, <2>3, <2>4, <2>5, <2>6, <2>7, QuietInv, Zenon
<1>5. ASSUME WaitFault(p, a) \/ (WaitNone(p, a) /\ WNOHANG \in a.opts)
      PROVE  PrInv' /\ Buried
  <2>1. /\ pc' = [pc EXCEPT ![p] = "ret"] /\ UNCHANGED <<s, mapped, stop_signum, waiting_for>>
        /\ arg' = [arg EXCEPT ![p] = NoArg] \/ arg' = arg
    BY <1>5, Zenon DEF WaitFault, WaitNone
  <2>2. arg' \in [Pid -> [who : Task, opts : SUBSET {WUNTRACED, WNOHANG}]]
    BY <1>0, <1>3, <2>1, Zenon DEF PrFields
  <2>3. PrFields' /\ PrMemory'
    BY <1>0, <1>1, <2>1, <2>2, Zenon DEF PrFields, PrMemory, Calls
  <2>4. \A q \in Pid : pc'[q] = "wait" => pc[q] = "wait" /\ arg'[q] = arg[q]
    BY <1>0, <2>1, Zenon DEF PrFields
  <2> QED BY <1>1, <1>2, <2>1, <2>3, <2>4, StillInv, Zenon
<1>6. ASSUME WaitNone(p, a), WNOHANG \notin a.opts
      PROVE  PrInv' /\ Buried
  <2>1. /\ \A c \in Pid : ~Reportable(p, a, c)
        /\ UNCHANGED <<mapped, stop_signum>>
        /\ s' = SchedLeave(s, "BLOCKED") /\ pc' = [pc EXCEPT ![p] = "wait"]
        /\ waiting_for' = [waiting_for EXCEPT ![p] = a.who] /\ arg' = [arg EXCEPT ![p] = a]
    BY <1>6, Zenon DEF WaitNone, SchedBlock
  <2>2. PrSched' /\ Quiet /\ s'.st[p] = "BLOCKED" /\ \A t \in Task : t # p => s'.st[t] = s.st[t]
    BY <1>0, <2>1, RousedSelf, ProcLeaves, Zenon
  <2>3. PrFields' /\ PrMemory'
    <3>1. pc' \in [Pid -> {"user", "ret", "wait", "vfork"}] /\ waiting_for' \in [Pid -> Task]
      BY <1>0, <2>1, Zenon DEF PrFields
    <3>2. arg' \in [Pid -> [who : Task, opts : SUBSET {WUNTRACED, WNOHANG}]]
      BY <1>0, <2>1, Zenon DEF PrFields
    <3> QED BY <1>0, <1>1, <2>1, <3>1, <3>2, Zenon DEF PrFields, PrMemory, Calls
  <2>4. PrWait'
    <3> SUFFICES ASSUME NEW q \in Pid \ {InitProc}, s'.st[q] = "BLOCKED", pc'[q] = "wait",
                        NEW c \in Pid, Reportable(q, arg[q], c)'
                 PROVE  FALSE
      BY Zenon DEF PrWait
    <3>1. c # q /\ ppid[c] = q /\ s'.st[c] \in {"ZOMBIE", "STOPPED"}
      BY <1>1, Zenon DEF Reportable, Asks
    <3>2. c # p /\ s'.st[c] = s.st[c]
      BY <2>2, <3>1, TaskKinds, Zenon
    <3>3. CASE q = p
      <4>1. arg'[q] = a
        BY <1>0, <2>1, <3>3, Zenon DEF PrFields
      <4>2. Reportable(p, a, c)
        BY <1>1, <3>2, <3>3, <4>1, Zenon DEF Reportable, Asks, Tasks
      <4> QED BY <2>1, <4>2, Zenon
    <3>4. CASE q # p
      <4>1. arg'[q] = arg[q] /\ pc[q] = "wait" /\ s.st[q] = "BLOCKED"
        BY <1>0, <2>1, <2>2, <3>4, TaskKinds, Zenon DEF PrFields
      <4>2. Reportable(q, arg[q], c)
        BY <1>1, <3>2, <4>1, Zenon DEF Reportable, Asks, Tasks
      <4> QED BY <1>0, <4>1, <4>2, Zenon DEF PrWait
    <3> QED BY <3>3, <3>4, Zenon
  <2> QED BY <1>1, <1>2, <2>2, <2>3, <2>4, QuietInv, Zenon
<1> QED BY <1>4, <1>5, <1>6, Zenon DEF WaitScan

\* The signal that is delivered is one that is pending.
LEMMA NextIsPending ==
  ASSUME NEW p \in Pid, pending[p] \in SUBSET SigSet, pending[p] # {}
  PROVE  NextSignal(p) \in pending[p]
<1>1. Len(Sig) = 4 /\ Sig[1] = "TERM" /\ Sig[2] = "CHLD" /\ Sig[3] = "CONT" /\ Sig[4] = "TSTP"
  BY Zenon DEF Sig
<1>2. \E i \in 1..Len(Sig) : FirstPending(p, i)
  <2>1. CASE "TERM" \in pending[p]
    <3>1. FirstPending(p, 1)
      BY <1>1, <2>1 DEF FirstPending
    <3> QED BY <1>1, <3>1
  <2>2. CASE "TERM" \notin pending[p] /\ "CHLD" \in pending[p]
    <3>1. FirstPending(p, 2)
      BY <1>1, <2>2 DEF FirstPending
    <3> QED BY <1>1, <3>1
  <2>3. CASE "TERM" \notin pending[p] /\ "CHLD" \notin pending[p] /\ "CONT" \in pending[p]
    <3>1. \A j \in 1..3 - 1 : j = 1 \/ j = 2
      OBVIOUS
    <3>2. FirstPending(p, 3)
      BY <1>1, <2>3, <3>1, Zenon DEF FirstPending
    <3> QED BY <1>1, <3>2
  <2>4. CASE "TERM" \notin pending[p] /\ "CHLD" \notin pending[p] /\ "CONT" \notin pending[p]
    <3>1. \A j \in 1..4 - 1 : j = 1 \/ j = 2 \/ j = 3
      OBVIOUS
    <3>2. "TSTP" \in pending[p]
      BY <2>4, Zenon DEF SigSet
    <3>3. FirstPending(p, 4)
      BY <1>1, <2>4, <3>1, <3>2, Zenon DEF FirstPending
    <3> QED BY <1>1, <3>3
  <2> QED BY <2>1, <2>2, <2>3, <2>4, Zenon
<1>3. FirstPending(p, CHOOSE i \in 1..Len(Sig) : FirstPending(p, i))
  BY <1>2, Zenon
<1> QED BY <1>3, Zenon DEF FirstPending, NextSignal

\* A signal is taken and ignored.
LEMMA IgnoreInv ==
  ASSUME PrInv, UNCHANGED <<load, tgid, pml4, mapped, waiting_for, arg, s_fork_count>>,
         NEW p \in Pid, NEW pend \in [Pid -> SUBSET SigSet],
         \A q \in Pid : pend[q] \subseteq pending[q], Ignore(p, pend)
  PROVE  PrInv' /\ Buried
<1>0. PrFields /\ PrMemory /\ PrNoTerm
  BY Zenon DEF PrInv
<1>1. pending' = pend /\ pc' = [pc EXCEPT ![p] = "user"] /\ UNCHANGED <<s, ppid, stop_signum, shutdown>>
  BY Zenon DEF Ignore
<1>2. PrFields' /\ PrMemory'
  BY <1>0, <1>1, Zenon DEF PrFields, PrMemory, Calls
<1>3. PrNoTerm'
  BY <1>0, <1>1, Zenon DEF PrNoTerm, Peaceful, Signals, Leaders
<1>4. \A q \in Pid : pc'[q] = "wait" => pc[q] = "wait" /\ arg'[q] = arg[q]
  BY <1>0, <1>1, Zenon DEF PrFields
<1> QED BY <1>1, <1>2, <1>3, <1>4, StillInv, Zenon

\* A process stops itself: its parent hears of it before the CPU is given up.
LEMMA StopInv ==
  ASSUME PrInv, UNCHANGED <<load, tgid, pml4, mapped, waiting_for, arg, s_fork_count>>,
         NEW p \in Pid, s.cur = p, NEW pend \in [Pid -> SUBSET SigSet],
         \A q \in Pid : pend[q] \subseteq pending[q], StopSelf(p, pend)
  PROVE  PrInv' /\ Buried
<1> DEFINE v == WakeForSignal(s, ppid[p])
<1>0. /\ PrFields /\ PrMemory /\ PrNoTerm /\ PrSched /\ PrWait /\ Queue(s, Task, States)
      /\ ppid[p] \in Task
  BY Zenon DEF PrInv, PrSched, PrFields
<1>1. /\ stop_signum' = [stop_signum EXCEPT ![p] = "TSTP"]
      /\ pending' = Post(pend, {ppid[p]}, "CHLD") /\ s' = SchedLeave(v, "STOPPED")
      /\ pc' = [pc EXCEPT ![p] = "user"] /\ UNCHANGED <<ppid, shutdown>>
  BY Zenon DEF StopSelf, SchedStop
<1>2. Roused(v, s) /\ (ppid[p] # 0 => v.st[ppid[p]] # "BLOCKED")
  BY <1>0, WakeForSignalDoes, Zenon
<1> HIDE DEF v
<1>3. PrSched' /\ Quiet /\ s'.st[p] = "STOPPED" /\ \A t \in Task : t # p => s'.st[t] = v.st[t]
  BY <1>0, <1>1, <1>2, ProcLeaves, Zenon
<1>4. pending' \in [Pid -> SUBSET SigSet] /\ \A q \in Pid : "TERM" \in pending'[q] => "TERM" \in pend[q]
  BY <1>1, PostDoes, Zenon DEF SigSet
<1>5. PrFields' /\ PrMemory'
  <2>1. stop_signum' \in [Pid -> {"none", "TSTP"}] /\ pc' \in [Pid -> {"user", "ret", "wait", "vfork"}]
    BY <1>0, <1>1, Zenon DEF PrFields
  <2> QED BY <1>0, <1>1, <1>4, <2>1, Zenon DEF PrFields, PrMemory, Calls
<1>6. PrNoTerm'
  BY <1>0, <1>4, Zenon DEF PrNoTerm, Peaceful, Signals, Leaders
<1>7. PrWait'
  <2>1. \A t \in Pid : t # p => Resumed(s.st[t], s'.st[t])
    BY <1>2, <1>3, TaskKinds, Zenon DEF Roused
  <2>2. \A q \in Pid : s'.st[q] = "BLOCKED" /\ pc'[q] = "wait" =>
          s.st[q] = "BLOCKED" /\ pc[q] = "wait" /\ arg'[q] = arg[q]
    BY <1>0, <1>1, <1>3, <2>1, Zenon DEF Resumed, PrFields
  <2>3. s'.st[ppid[p]] # "BLOCKED"
    <3>1. CASE ppid[p] = p
      BY <1>3, <3>1, Zenon
    <3>2. CASE ppid[p] = 0
      BY <1>3, <3>2, Zenon DEF PrSched, Idle
    <3>3. CASE ppid[p] # p /\ ppid[p] # 0
      BY <1>0, <1>2, <1>3, <3>3, Zenon
    <3> QED BY <3>1, <3>2, <3>3, Zenon
  <2>4. \A c \in Pid : s'.st[c] \in {"ZOMBIE", "STOPPED"} =>
          ppid'[c] = ppid[c] /\ (s'.st[c] = s.st[c] \/ s'.st[ppid[c]] # "BLOCKED")
    BY <1>1, <2>1, <2>3, Zenon DEF Resumed
  <2> QED BY <1>0, <2>2, <2>4, WaitKept, Zenon
<1> QED BY <1>1, <1>3, <1>5, <1>6, <1>7, QuietInv, Zenon

\* A signal kills: sched_exit, with no reparenting.
LEMMA TerminateInv ==
  ASSUME PrInv, UNCHANGED <<load, tgid, pml4, mapped, waiting_for, arg, s_fork_count>>,
         NEW p \in Pid, s.cur = p, NEW pend \in [Pid -> SUBSET SigSet],
         \A q \in Pid : pend[q] \subseteq pending[q], "TERM" \in pending[p], Terminate(p, pend)
  PROVE  PrInv' /\ Buried
<1>0. PrSched /\ PrFields /\ PrNoTerm /\ ppid \in [Pid -> Task] /\ shutdown \in BOOLEAN
  BY Zenon DEF PrInv, PrFields
<1>1. SchedExit(p, s, ppid, pend, FALSE) /\ stop_signum' = stop_signum
  BY Zenon DEF Terminate
<1>2. ~Peaceful
  BY <1>0, Zenon DEF PrNoTerm
<1>3. Exited(p, ppid)
  BY <1>0, <1>1, RousedSelf, SchedExitDoes, Zenon
<1>4. RestExited(p, ppid, pend, FALSE)
  BY <1>0, <1>1, SchedExitRest, Zenon
<1>5. PrNoTerm'
  BY <1>2, Zenon DEF PrNoTerm, Peaceful, Signals, Leaders
<1> QED BY <1>0, <1>1, <1>2, <1>3, <1>4, <1>5, ExitStep, Zenon DEF RestExited

\* One signal is delivered on the way back to user mode.
LEMMA DeliverInv ==
  ASSUME PrInv, UNCHANGED load, NEW p \in Pid, Deliver(p)
  PROVE  PrInv' /\ Buried
<1> DEFINE sig == NextSignal(p)
           pend == [pending EXCEPT ![p] = @ \ {sig}]
<1>0. pending \in [Pid -> SUBSET SigSet]
  BY Zenon DEF PrInv, PrFields
<1>1. s.cur = p /\ UNCHANGED <<tgid, pml4, mapped, waiting_for, arg, s_fork_count>>
  BY Zenon DEF Deliver
<1>2. CASE pending[p] = {}
  <2>1. Ignore(p, pending)
    BY <1>2, Zenon DEF Deliver
  <2> QED BY <1>0, <1>1, <2>1, IgnoreInv, Zenon
<1>3. CASE pending[p] # {}
  <2>1. sig \in pending[p]
    BY <1>0, <1>3, NextIsPending, Zenon
  <2>2. /\ sig = "TERM" => Terminate(p, pend)
        /\ sig = "TSTP" => StopSelf(p, pend)
        /\ sig # "TERM" /\ sig # "TSTP" => Ignore(p, pend)
    BY <1>3, Zenon DEF Deliver
  <2> HIDE DEF sig
  <2>3. pend \in [Pid -> SUBSET SigSet] /\ \A q \in Pid : pend[q] \subseteq pending[q]
    BY <1>0, Zenon
  <2> HIDE DEF pend
  <2>4. CASE sig = "TERM"
    BY <1>1, <2>1, <2>2, <2>3, <2>4, TerminateInv, Zenon
  <2>5. CASE sig = "TSTP"
    BY <1>1, <2>2, <2>3, <2>5, StopInv, Zenon
  <2>6. CASE sig # "TERM" /\ sig # "TSTP"
    BY <1>1, <2>2, <2>3, <2>6, IgnoreInv, Zenon
  <2> QED BY <2>4, <2>5, <2>6, Zenon
<1> QED BY <1>2, <1>3, Zenon

\* The timer preempts the current task.
LEMMA TickInv ==
  ASSUME PrInv, UNCHANGED load, Tick
  PROVE  PrInv' /\ Buried
<1>0. PrFields /\ PrMemory /\ PrNoTerm /\ PrSched /\ PrWait /\ Queue(s, Task, States) /\ Runs(s)
  BY Zenon DEF PrInv, PrSched
<1>1. /\ UNCHANGED <<ppid, tgid, pml4, mapped, pending, stop_signum, waiting_for, arg,
                     s_fork_count, shutdown>>
      /\ pc' = [p \in Pid |-> IF p = s.cur THEN "ret" ELSE pc[p]]
      /\ s' = SchedPreempt(s)
  BY Zenon DEF Tick
<1>2. Switched(SchedPreempt(s), s, Task, States) /\ Runs(SchedPreempt(s))
  BY <1>0, TaskKinds, PreemptQueue, Zenon DEF PrSched
<1>3. PrSched' /\ s'.st = s.st
  BY <1>0, <1>1, <1>2, Zenon DEF PrSched, Switched, Queue, Runs
<1>4. Quiet
  BY <1>3, Zenon DEF Quiet, Resumed
<1>5. PrFields' /\ PrMemory' /\ PrNoTerm'
  BY <1>0, <1>1, Zenon DEF PrFields, PrMemory, PrNoTerm, Peaceful, Signals, Leaders, Calls
<1>6. PrWait'
  BY <1>0, <1>1, <1>3, WaitKept, Zenon
<1> QED BY <1>1, <1>3, <1>4, <1>5, <1>6, QuietInv, Zenon

\* The first process is running, alone.
LEMMA ProcInitInv ==
  ASSUME Init
  PROVE  PrInv
<1>0. /\ InitProc \in Pid /\ InitProc # Idle /\ Idle = 0 /\ InitProc = 1
      /\ 0 \in Task /\ Pid \subseteq Task /\ Pid \subseteq Nat /\ Task = Pid \cup {0}
  BY TaskKinds, Zenon DEF Idle, InitProc, Task
<1>1. PrSched
  <2> DEFINE x == [t \in Task |-> IF t \in {Idle, InitProc} THEN "RUNNING" ELSE "free"]
             q == <<Idle, InitProc>>
  <2>1. s = [st |-> x, rq |-> q, cur |-> InitProc]
    BY Zenon DEF Init
  <2>2. /\ x \in [Task -> States] /\ x[Idle] = "RUNNING" /\ x[InitProc] = "RUNNING"
        /\ \A t \in Task : x[t] = "RUNNING" <=> t \in {Idle, InitProc}
    BY <1>0, Zenon DEF States, Live
  <2>3. /\ q \in Seq(Task) /\ Len(q) = 2 /\ q[1] = Idle /\ q[2] = InitProc
        /\ \A i \in 1..Len(q) : i = 1 \/ i = 2
    BY <1>0
  <2> HIDE DEF x, q
  <2>4. \A t \in Task : Queued(q, t) <=> t \in {Idle, InitProc}
    BY <2>3 DEF Queued
  <2>5. Queue(s, Task, States)
    <3>1. s \in [st : [Task -> States], rq : Seq(Task), cur : Task]
      BY <1>0, <2>1, <2>2, <2>3, Zenon
    <3>2. \A i, j \in 1..Len(s.rq) : s.rq[i] = s.rq[j] => i = j
      <4>1. \A i, j \in 1..Len(q) : q[i] = q[j] => i = j
        <5> TAKE i, j \in 1..Len(q)
        <5>1. (i = 1 \/ i = 2) /\ (j = 1 \/ j = 2)
          BY <2>3, Zenon
        <5>2. q[1] # q[2] /\ q[2] # q[1]
          BY <1>0, <2>3, Zenon
        <5>3. CASE i = 1
          BY <5>1, <5>2, <5>3
        <5>4. CASE i = 2
          BY <5>1, <5>2, <5>4
        <5> QED BY <5>1, <5>3, <5>4, Zenon
      <4> QED BY <2>1, <4>1
    <3>3. \A t \in Task : s.st[t] = "RUNNING" <=> Queued(s.rq, t)
      BY <2>1, <2>2, <2>4, Zenon
    <3> QED BY <3>1, <3>2, <3>3, Zenon DEF Queue
  <2> QED BY <2>1, <2>2, <2>5, Zenon DEF PrSched, Runs
<1>2. PrFields
  <2>1. NoArg \in [who : Task, opts : SUBSET {WUNTRACED, WNOHANG}]
    BY <1>0, Zenon DEF NoArg
  <2>2. 1 \in 1..MaxPid
    BY ProcAssumption
  <2> QED BY <1>0, <2>1, <2>2, Zenon DEF PrFields, Init
<1>3. \A p \in Pid : s.st[p] = IF p = 1 THEN "RUNNING" ELSE "free"
  <2>1. s.st = [t \in Task |-> IF t \in {Idle, InitProc} THEN "RUNNING" ELSE "free"]
    BY Zenon DEF Init
  <2>2. \A p \in Pid : p \in Task /\ (p \in {Idle, InitProc} <=> p = 1)
    BY <1>0, TaskKinds, Zenon
  <2> QED BY <2>1, <2>2, Zenon
<1>4. PrPids
  <2>1. s_fork_count = 1 /\ \A p \in Pid : p \in Nat /\ p >= 1
    BY DEF Init, Pid
  <2> QED BY <1>3, <2>1 DEF PrPids
<1>5. PrGroups /\ PrMemory /\ PrNoTerm
  BY Zenon DEF Init, PrGroups, PrMemory, PrNoTerm
<1>6. PrTree
  BY <1>0, <1>3, Zenon DEF PrTree, Tasks, Live
<1>7. PrWait
  BY <1>3, Zenon DEF PrWait
<1> QED BY <1>1, <1>2, <1>4, <1>5, <1>6, <1>7, Zenon DEF PrInv

\* Every step of the kernel keeps the invariant and leaves the dead alone.
LEMMA ProcStepInv ==
  ASSUME PrInv, ZombiesUnlinked, [Next]_vars
  PROVE  PrInv' /\ Buried
<1>1. CASE UNCHANGED vars
  <2>1. UNCHANGED <<load, s, pc, ppid, tgid, pml4, mapped, pending, stop_signum, waiting_for,
                    arg, s_fork_count, shutdown>>
    BY <1>1, Zenon DEF vars
  <2>2. PrFields' /\ PrMemory' /\ PrNoTerm'
    BY <2>1, Zenon DEF PrInv, PrFields, PrMemory, PrNoTerm, Peaceful, Calls, Signals, Leaders
  <2> QED BY <2>1, <2>2, StillInv, Zenon
<1>2. ASSUME NEW p \in Pid, NEW G \in Groups, Exit(p, G) \/ ExitGroup(p, G), UNCHANGED load
      PROVE  PrInv' /\ Buried
  BY <1>2, ExitInv, Zenon
<1>3. ASSUME NEW p \in Pid, NEW kind \in {"fork", "thread", "vfork"}, Clone(p, kind), UNCHANGED load
      PROVE  PrInv' /\ Buried
  <2>1. kind \in Calls /\ InUser(p) /\ (Create(p, kind) \/ CreateFails(p))
    BY <1>3, Zenon DEF Clone
  <2> QED BY <1>3, <2>1, CreateInv, ReturnInv, Zenon
<1>4. ASSUME NEW p \in Pid, VforkReturn(p) \/ Exec(p), UNCHANGED load
      PROVE  PrInv' /\ Buried
  BY <1>4, ReturnInv, Zenon
<1>5. ASSUME NEW p \in Pid, WaitRetry(p), UNCHANGED load
      PROVE  PrInv' /\ Buried
  <2>1. s.cur = p /\ WaitScan(p, arg[p])
    BY <1>5, Zenon DEF WaitRetry
  <2>2. arg[p] \in [who : Task, opts : SUBSET {WUNTRACED, WNOHANG}]
    BY Zenon DEF PrInv, PrFields
  <2> QED BY <1>5, <2>1, <2>2, WaitInv, Zenon
<1>6. ASSUME NEW p \in Pid, NEW who \in Task, NEW opts \in {{}, {WUNTRACED}, {WNOHANG}},
             Waitpid(p, who, opts), UNCHANGED load
      PROVE  PrInv' /\ Buried
  <2>1. s.cur = p /\ WaitScan(p, [who |-> who, opts |-> opts])
    BY <1>6, Zenon DEF Waitpid, InUser
  <2>2. [who |-> who, opts |-> opts] \in [who : Task, opts : SUBSET {WUNTRACED, WNOHANG}]
    BY Zenon
  <2> QED BY <1>6, <2>1, <2>2, WaitInv, Zenon
<1>7. ASSUME NEW p \in Pid, Deliver(p), UNCHANGED load
      PROVE  PrInv' /\ Buried
  BY <1>7, DeliverInv, Zenon
<1>8. ASSUME NEW p \in Pid, NEW sig \in Signals, UNCHANGED load,
             (\E q \in Pid : Kill(p, q, sig)) \/ (\E G \in Groups : KillGroup(p, G, sig))
      PROVE  PrInv' /\ Buried
  BY <1>8, KillInv, Zenon
<1>9. ASSUME Tick, UNCHANGED load
      PROVE  PrInv' /\ Buried
  BY <1>9, TickInv, Zenon
<1> QED BY <1>1, <1>2, <1>3, <1>4, <1>5, <1>6, <1>7, <1>8, <1>9, Zenon DEF Next, PowerOff

\* Whatever programs do, in every workload in which sys_exit_group has no
\* other thread to end, the inductive invariant of the process table holds.
THEOREM ProcInvariant == Spec => [](ZombiesUnlinked => PrInv)
<1>1. Init => (ZombiesUnlinked => PrInv)
  BY ProcInitInv, Zenon
<1>2. (ZombiesUnlinked => PrInv) /\ [Next]_vars => (ZombiesUnlinked => PrInv)'
  <2> SUFFICES ASSUME ZombiesUnlinked => PrInv, [Next]_vars, ZombiesUnlinked'
               PROVE  PrInv'
    BY Zenon
  <2>1. load' = load
    BY Zenon DEF Next, vars
  <2>2. ZombiesUnlinked
    BY <2>1, Zenon DEF ZombiesUnlinked, Calls
  <2> QED BY <2>2, ProcStepInv, Zenon
<1> QED BY <1>1, <1>2, PTL DEF Spec

\* No orphan stays behind when a parent exits (Reparent in sys_exit): as long
\* as no process is killed by a signal, every process but init has a parent
\* that was not reaped.
THEOREM ProcNoOrphans == Spec => []NoOrphans
<1>1. (ZombiesUnlinked => PrInv) => NoOrphans
  BY Zenon DEF NoOrphans, PrInv, PrTree, Peaceful, LiveParent, Tasks, Live
<1> QED BY <1>1, ProcInvariant, PTL

\* The run list has every task that can run and no other, the current task is
\* in it, and where each process has its own address space a task that may run
\* has its memory (sched_exit, sys_execve, sys_waitpid, signal_send_pgrp).
THEOREM ProcLiveTasksSound == Spec => []LiveTasksSound
<1>1. (ZombiesUnlinked => PrInv) => LiveTasksSound
  <2> SUFFICES ASSUME PrInv
               PROVE  TypeOK /\ RunListIffRunning /\ (Calls \cap {"thread", "vfork"} = {} => MemoryIntact)
    BY Zenon DEF LiveTasksSound
  <2>0. Queue(s, Task, States) /\ Runs(s) /\ PrFields /\ PrMemory
    BY Zenon DEF PrInv, PrSched
  <2>1. TypeOK
    BY <2>0, Zenon DEF TypeOK, Queue, PrFields, States
  <2>2. RunListIffRunning
    BY <2>0, Zenon DEF RunListIffRunning, Queue, Runs
  <2>3. Calls \cap {"thread", "vfork"} = {} => MemoryIntact
    BY <2>0, Zenon DEF PrMemory, MemoryIntact
  <2> QED BY <2>1, <2>2, <2>3, Zenon
<1> QED BY <1>1, ProcInvariant, PTL

\* sys_waitpid "blocks until a child exits": nobody but init is left blocked
\* while a child it asked for has something to report.
THEOREM ProcWaiterMissesNothing == Spec => []WaiterMissesNothing
<1>1. (ZombiesUnlinked => PrInv) => WaiterMissesNothing
  BY Zenon DEF WaiterMissesNothing, PrInv, PrWait
<1> QED BY <1>1, ProcInvariant, PTL

\* A process that exited never runs again and is reaped at most once.
THEOREM ProcDeadStayDead == Spec => DeadStayDead
<1>1. (ZombiesUnlinked => PrInv) /\ [Next]_vars =>
        [ZombiesUnlinked =>
           \A p \in Pid : /\ s.st[p] = "ZOMBIE" => s'.st[p] \in {"ZOMBIE", "gone"}
                          /\ s.st[p] = "gone" => s'.st[p] = "gone" /\ s'.cur # p]_vars
  <2> SUFFICES ASSUME PrInv, ZombiesUnlinked, [Next]_vars
               PROVE  \A p \in Pid : /\ s.st[p] = "ZOMBIE" => s'.st[p] \in {"ZOMBIE", "gone"}
                                     /\ s.st[p] = "gone" => s'.st[p] = "gone" /\ s'.cur # p
    BY Zenon
  <2>1. PrInv' /\ Buried
    BY ProcStepInv, Zenon
  <2>2. s'.st[s'.cur] = "RUNNING"
    BY <2>1, Zenon DEF PrInv, PrSched, Runs
  <2> QED BY <2>1, <2>2, Zenon DEF Buried
<1> QED BY <1>1, ProcInvariant, PTL DEF Spec, DeadStayDead
=============================================================================
