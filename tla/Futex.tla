------------------------------- MODULE Futex -------------------------------
(***************************************************************************)
(* Threads that synchronise with futexes and sleep (syscall/futex.c,       *)
(* sys_nanosleep, sched_tick's timed wakeups, and the clear_child_tid half *)
(* of sys_exit), over the scheduler functions of SchedOps.                 *)
(*                                                                         *)
(* The user side is the usual protocol: a thread stores to a word in user  *)
(* mode and then, some time later, wakes those who wait on it; a thread    *)
(* that read the value v waits with expected value v.  A joiner waits on   *)
(* the clear_child_tid word of another thread.                             *)
(***************************************************************************)
EXTENDS SchedOps, Integers, FiniteSets

CONSTANTS
  Thread,
  Joiner,          \* the thread that joins the others
  Words,           \* futex words of programs
  FUTEX_MAX_WAIT,
  MaxSleep,        \* bound: ticks of a nanosleep
  Loads,           \* the workloads, of which a behaviour has one
  Idle, NULL

Task == Thread \cup {Idle}
Tid(t) == <<"ctid", t>>                       \* the address clear_child_tid names
Addr == Words \cup {Tid(t) : t \in Thread}
Slot == 1..FUTEX_MAX_WAIT
TaskList ==                                   \* the threads, in one order
  CHOOSE q \in [1..Cardinality(Thread) -> Thread] :
    \A i, j \in 1..Cardinality(Thread) : q[i] = q[j] => i = j
NotSleeping == -1                             \* sleep_deadline = 0
ALL == FUTEX_MAX_WAIT                         \* a count no wake exhausts

ASSUME FutexAssumption ==
  /\ IsFiniteSet(Thread) /\ Idle \notin Thread
  /\ NULL \notin Thread \cup Addr /\ \A t \in Thread : Tid(t) \notin Words
  /\ FUTEX_MAX_WAIT \in Nat /\ MaxSleep \in Nat
  /\ \A l \in Loads : l.words \subseteq Words /\ l.exiting \subseteq Thread

VARIABLES
  load,
  s,
  pc, at, expected,  \* the call a thread is in, its address and value
  word,
  s_pool,
  deadline           \* ticks left to sleep_deadline

vars == <<load, s, pc, at, expected, word, s_pool, deadline>>

FreeSlot == [in_use |-> FALSE, task |-> NULL, addr |-> NULL]

Used == load.words        \* the words the program uses
Signals == load.signals   \* signals may wake blocked threads
Exiting == load.exiting   \* the threads that exit

Init ==
  /\ load \in Loads
  /\ s = [st |-> [t \in Task |-> "RUNNING"],
          rq |-> <<Idle>> \o TaskList, cur |-> Idle]
  /\ pc = [t \in Thread |-> "user"]
  /\ at = [t \in Thread |-> NULL] /\ expected = [t \in Thread |-> 0]
  /\ word = [a \in Addr |-> IF a \in Words THEN 0 ELSE 1]
  /\ s_pool = [i \in Slot |-> FreeSlot]
  /\ deadline = [t \in Thread |-> NotSleeping]

InUser(t) == s.cur = t /\ pc[t] = "user"
UserMode(t) == pc[t] \in {"user", "wake"}

-----------------------------------------------------------------------------
Matching(a) == {i \in Slot : s_pool[i].in_use /\ s_pool[i].addr = a}

\* futex_wake_addr takes the first n matching slots in pool order.
Taken(a, n) == {i \in Matching(a) : Cardinality({j \in Matching(a) : j < i}) < n}

Mut_FreePool(a, n) ==
  [i \in Slot |-> IF i \in Taken(a, 1) THEN FreeSlot ELSE s_pool[i]]
FreePool(a, n) == [i \in Slot |-> IF i \in Taken(a, n) THEN FreeSlot ELSE s_pool[i]]
FutexWakeAddr(sc, a, n) == SchedWakeEach(sc, [i \in Slot |-> s_pool[i].task], Taken(a, n))

\* User code: change the word, then call FUTEX_WAKE.
Store(t, a, v) ==
  /\ InUser(t) /\ a \in Used /\ word[a] # v
  /\ word' = [word EXCEPT ![a] = v]
  /\ pc' = [pc EXCEPT ![t] = "wake"] /\ at' = [at EXCEPT ![t] = a]
  /\ UNCHANGED <<s, expected, s_pool, deadline>>

Wake(t) ==
  /\ s.cur = t /\ pc[t] = "wake"
  /\ s' = FutexWakeAddr(s, at[t], ALL)
  /\ s_pool' = FreePool(at[t], ALL)
  /\ pc' = [pc EXCEPT ![t] = "user"] /\ at' = [at EXCEPT ![t] = NULL]
  /\ UNCHANGED <<expected, word, deadline>>

\* FUTEX_WAIT: EAGAIN when the word has changed, ENOMEM when the pool is full.
MayWait(t, a) ==
  \/ a \in Used
  \/ (t = Joiner /\ \E u \in Exiting : a = Tid(u))

Mut_WaitStays(a, v) == TRUE
WaitStays(a, v) == word[a] = v
WaitBlocks(a, v) == WaitStays(a, v) /\ \E i \in Slot : ~s_pool[i].in_use

Wait(t, a, v) ==
  /\ InUser(t) /\ MayWait(t, a)
  /\ WaitBlocks(a, v)
  /\ LET i == CHOOSE j \in Slot : /\ ~s_pool[j].in_use
                                  /\ \A k \in 1..j - 1 : s_pool[k].in_use
     IN  s_pool' = [s_pool EXCEPT ![i] = [in_use |-> TRUE, task |-> t, addr |-> a]]
  /\ pc' = [pc EXCEPT ![t] = "wait"]
  /\ at' = [at EXCEPT ![t] = a] /\ expected' = [expected EXCEPT ![t] = v]
  /\ s' = SchedBlock(s)
  /\ UNCHANGED <<word, deadline>>

WaitReturn(t) ==
  /\ s.cur = t /\ pc[t] = "wait"
  /\ pc' = [pc EXCEPT ![t] = "user"]
  /\ at' = [at EXCEPT ![t] = NULL] /\ expected' = [expected EXCEPT ![t] = 0]
  /\ UNCHANGED <<s, word, s_pool, deadline>>

-----------------------------------------------------------------------------
\* n is the time in ticks, the nanoseconds cut to ticks but never to none, so
\* that only a sleep of no time has its deadline now.  A negative time, or
\* 10^9 nanoseconds and more, is refused and changes nothing.
NanoSleep(t, n) ==
  /\ InUser(t) /\ n <= load.sleep
  /\ deadline' = [deadline EXCEPT ![t] = n]
  /\ pc' = [pc EXCEPT ![t] = "sleep"]
  /\ s' = SchedBlock(s)
  /\ UNCHANGED <<at, expected, word, s_pool>>

SleepReturn(t) ==
  /\ s.cur = t /\ pc[t] = "sleep"
  /\ pc' = [pc EXCEPT ![t] = "user"]
  /\ UNCHANGED <<s, at, expected, word, s_pool, deadline>>

\* sched_tick: the clock advances, blocked tasks whose deadline has passed
\* run, and the next task of the run list gets the CPU.
Mut_Expired(t) == s.st[t] = "BLOCKED" /\ deadline[t] # NotSleeping
Expired(t) == s.st[t] = "BLOCKED" /\ deadline[t] \in {0, 1}
Countdown(t, due) ==
  CASE t \in due -> NotSleeping
    [] t \notin due /\ deadline[t] > 0 -> deadline[t] - 1
    [] OTHER -> deadline[t]
WakeDue(due) == SchedWakeEach(s, TaskList, {i \in 1..Len(TaskList) : TaskList[i] \in due})
Mut_Tick ==
  /\ s.cur # Idle => UserMode(s.cur)
  /\ LET due == {t \in Thread : Expired(t)}
     IN  /\ s' = IF s.cur = Idle THEN SchedPreempt(WakeDue(due)) ELSE WakeDue(due)
         /\ deadline' = [t \in Thread |-> Countdown(t, due)]
  /\ UNCHANGED <<pc, at, expected, word, s_pool>>
Tick ==
  /\ s.cur # Idle => UserMode(s.cur)
  /\ LET due == {t \in Thread : Expired(t)}
     IN  /\ s' = SchedPreempt(WakeDue(due))
         /\ deadline' = [t \in Thread |-> Countdown(t, due)]
  /\ UNCHANGED <<pc, at, expected, word, s_pool>>

\* A signal to a blocked thread makes it run.
Signal(t, u) ==
  /\ Signals /\ InUser(t) /\ s.st[u] = "BLOCKED"
  /\ s' = SchedWake(s, u)
  /\ UNCHANGED <<pc, at, expected, word, s_pool, deadline>>

\* sys_exit: clear the joiners' word, wake one of them, and go.
Exit(t) ==
  /\ InUser(t) /\ t \in Exiting
  /\ word' = [word EXCEPT ![Tid(t)] = 0]
  /\ s_pool' = FreePool(Tid(t), 1)
  /\ s' = SchedYieldToNext(SchedZombie(FutexWakeAddr(s, Tid(t), 1)))
  /\ pc' = [pc EXCEPT ![t] = "dead"]
  /\ UNCHANGED <<at, expected, deadline>>

Next ==
  /\ UNCHANGED load
  /\ \/ \E t \in Thread, a \in Words, v \in 0..1 : Store(t, a, v)
     \/ \E t \in Thread, a \in Addr, v \in 0..1 : Wait(t, a, v)
     \/ \E t \in Thread : Wake(t) \/ WaitReturn(t) \/ SleepReturn(t) \/ Exit(t)
     \/ \E t \in Thread, n \in 0..MaxSleep : NanoSleep(t, n)
     \/ \E t, u \in Thread : Signal(t, u)
     \/ Tick

Spec == Init /\ [][Next]_vars

\* The timer fires whenever a task is interruptible, and kernel code that the
\* CPU switched to runs.
KernelStep == UNCHANGED load /\ \E t \in Thread : WaitReturn(t) \/ SleepReturn(t)
FairSpec == Spec /\ SF_vars(Tick /\ UNCHANGED load) /\ WF_vars(KernelStep)

-----------------------------------------------------------------------------
TypeOK ==
  /\ s.st \in [Task -> {"RUNNING", "BLOCKED", "ZOMBIE"}]
  /\ s.cur \in Task /\ s.rq \in Seq(Task)
  /\ pc \in [Thread -> {"user", "wake", "wait", "sleep", "dead"}]
  /\ at \in [Thread -> Addr \cup {NULL}] /\ expected \in [Thread -> 0..1]
  /\ word \in [Addr -> 0..1]
  /\ s_pool \in [Slot -> [in_use : BOOLEAN, task : Thread \cup {NULL}, addr : Addr \cup {NULL}]]
  /\ deadline \in [Thread -> NotSleeping..MaxSleep]

\* The variables have their types, and a slot belongs to a thread that is blocked on its address, and every such
\* thread has one slot: a wake finds everyone, and wakes nobody else.  (A
\* signal ends the wait and leaves the slot behind.)
PoolHoldsSleepers == TypeOK /\ (~Signals =>
  /\ \A i \in Slot : s_pool[i].in_use =>
       LET t == s_pool[i].task
       IN  s.st[t] = "BLOCKED" /\ pc[t] = "wait" /\ at[t] = s_pool[i].addr
  /\ \A t \in Thread : (s.st[t] = "BLOCKED" /\ pc[t] = "wait") =>
       Cardinality({i \in Slot : s_pool[i].in_use /\ s_pool[i].task = t}) = 1)

\* A thread sleeps on a word that no longer has the value it expected only
\* while the thread that changed it has yet to make its FUTEX_WAKE call.
NobodyForgotten ==
  \A t \in Thread :
    (s.st[t] = "BLOCKED" /\ pc[t] = "wait" /\ word[at[t]] # expected[t]) =>
      \E u \in Thread : pc[u] = "wake" /\ at[u] = at[t]

\* A thread that nobody signals sleeps as long as it asked for: no other
\* thread's wake and no tick makes it runnable while its deadline lies ahead.
NoEarlyWake ==
  [][~Signals => \A t \in Thread :
       (pc[t] = "sleep" /\ s.st[t] = "BLOCKED" /\ s'.st[t] = "RUNNING") => deadline[t] <= 1]_vars

\* pthread_join returns once the thread is gone.
JoinReturns ==
  (/\ pc[Joiner] = "wait" /\ expected[Joiner] = 1
   /\ \E t \in Thread : pc[t] = "dead" /\ at[Joiner] = Tid(t)) ~> pc[Joiner] # "wait"
=============================================================================
