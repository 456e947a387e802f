-------------------------------- MODULE Pipe --------------------------------
(***************************************************************************)
(* A pipe shared by processes that fork, dup, read, write, poll, close and *)
(* exit (fs/pipe.c, fs/fd_table.c, sched/waitq.c, sys_read, sys_write,     *)
(* sys_close, sys_poll, sys_fork's copy of the fd table and sched_exit's   *)
(* release of it), over the scheduler functions of SchedOps.               *)
(*                                                                         *)
(* Bytes are numbered as they are written, modulo Mod, so that the ring    *)
(* buffer's contents can be told apart.  A system call runs with           *)
(* interrupts off up to the point where it blocks: that part is an action. *)
(***************************************************************************)
EXTENDS SchedOps, FiniteSets

CONSTANTS
  Proc,           \* processes; the first to run made the pipe
  Creator,
  Loads,          \* the workloads, of which a behaviour has one
  PIPE_BUF_SIZE,
  Mod,            \* bound: byte numbers, more than PIPE_BUF_SIZE
  MaxHold,        \* bound: descriptors of one end in one process
  IdleTask, NoTask

ASSUME PipeAssumption ==
  /\ IsFiniteSet(Proc) /\ Creator \in Proc
  /\ IdleTask \notin Proc /\ NoTask \notin Proc \cup {IdleTask}
  /\ PIPE_BUF_SIZE \in Nat \ {0} /\ Mod \in Nat /\ Mod > PIPE_BUF_SIZE /\ MaxHold \in Nat \ {0}
  /\ \A l \in Loads : l.procs \subseteq Proc

PipeTask == Proc \cup {IdleTask}
End == {"r", "w"}
Other(e) == IF e = "r" THEN "w" ELSE "r"

VARIABLES
  load,
  s,         \* the scheduler
  pc, want,  \* the call a process is in, and how many bytes it asked for
  hold,      \* hold[p][e]: descriptors of end e in p's fd table
  buf, read_pos, write_pos, count,
  refs,      \* read_refs and write_refs
  waiting,   \* reader_waiting ("r") and writer_waiting ("w")
  waiters,   \* the waitqs of pollers of each end
  freed,
  hung,      \* the CPU spins on a lock it holds
  nwr, nrd   \* ghost: bytes written and read so far, modulo Mod

ring == <<buf, read_pos, write_pos, count, nwr, nrd>>
pipeVars == <<load, s, pc, want, hold, ring, refs, waiting, waiters, freed, hung>>

Procs == load.procs       \* the processes there may be
Readers == load.readers   \* the processes that call read
Writers == load.writers   \* ... write
Pollers == load.pollers   \* ... poll

PipeInit ==
  /\ load \in Loads
  /\ s = [st |-> [t \in PipeTask |-> IF t \in {IdleTask, Creator} THEN "RUNNING" ELSE "free"],
          rq |-> <<IdleTask, Creator>>, cur |-> Creator]
  /\ pc = [p \in Proc |-> "user"] /\ want = [p \in Proc |-> 0]
  /\ hold = [p \in Proc |-> [e \in End |-> IF p = Creator THEN 1 ELSE 0]]
  /\ buf = [i \in 0..PIPE_BUF_SIZE - 1 |-> 0]
  /\ read_pos = 0 /\ write_pos = 0 /\ count = 0 /\ nwr = 0 /\ nrd = 0
  /\ refs = [e \in End |-> 1]
  /\ waiting = [e \in End |-> NoTask]
  /\ waiters = [e \in End |-> <<>>]
  /\ freed = FALSE /\ hung = FALSE

ProcInUser(p) == ~hung /\ s.cur = p /\ pc[p] = "user"
In(p, call) == ~hung /\ s.cur = p /\ pc[p] = call

-----------------------------------------------------------------------------
\* Waking: the one blocked reader or writer, and every poller in the queue.
WakeOne(sc, t) == IF t = NoTask THEN sc ELSE SchedWake(sc, t)
Mut_WakeAll(sc, q) == IF q = <<>> THEN sc ELSE SchedWake(sc, Head(q))
WakeAll(sc, q) == SchedWakeEach(sc, q, 1..Len(q))

\* What a transfer at one end does to those who wait at the other.
WakeEnd(sc, e) == WakeAll(WakeOne(sc, waiting[e]), waiters[e])

Done(p) == pc' = [pc EXCEPT ![p] = "user"] /\ want' = [want EXCEPT ![p] = 0]
Sleep(p, e, call, n) ==
  /\ waiting' = [waiting EXCEPT ![e] = p]
  /\ s' = SchedBlock(s)
  /\ pc' = [pc EXCEPT ![p] = call] /\ want' = [want EXCEPT ![p] = n]
  /\ UNCHANGED <<ring, waiters>>

Taken(n) == IF n > count THEN count ELSE n

\* pipe_read_fn.
ReadLoop(p, n) ==
  /\ UNCHANGED <<hold, refs, freed, hung>>
  /\ \/ /\ count = 0 /\ refs["w"] = 0
        /\ Done(p)
        /\ UNCHANGED <<s, ring, waiting, waiters>>
     \/ /\ count = 0 /\ refs["w"] # 0
        /\ Sleep(p, "r", "read", n)
     \/ /\ count # 0
        /\ LET k == Taken(n)
           IN  /\ read_pos' = (read_pos + k) % PIPE_BUF_SIZE
               /\ count' = count - k
               /\ nrd' = (nrd + k) % Mod
        /\ s' = WakeEnd(s, "w")
        /\ waiting' = [waiting EXCEPT !["w"] = NoTask]
        /\ Done(p)
        /\ UNCHANGED <<buf, write_pos, nwr, waiters>>

\* pipe_write_fn.  A writer without readers gets EPIPE and a SIGPIPE, which
\* it survives or which ends it as ExitProc does.
Stored(n) == IF n > PIPE_BUF_SIZE - count THEN PIPE_BUF_SIZE - count ELSE n

Mut_Store(k) ==
  [i \in 0..PIPE_BUF_SIZE - 1 |->
     LET d == i - write_pos
     IN  IF d >= 0 /\ d < k THEN (nwr + d) % Mod ELSE buf[i]]
Store(k) ==
  [i \in 0..PIPE_BUF_SIZE - 1 |->
     LET d == (i - write_pos + PIPE_BUF_SIZE) % PIPE_BUF_SIZE
     IN  IF d < k THEN (nwr + d) % Mod ELSE buf[i]]

WriteLoop(p, n) ==
  /\ UNCHANGED <<hold, refs, freed, hung>>
  /\ \/ /\ refs["r"] = 0
        /\ Done(p)
        /\ UNCHANGED <<s, ring, waiting, waiters>>
     \/ /\ refs["r"] # 0 /\ count = PIPE_BUF_SIZE
        /\ Sleep(p, "w", "write", n)
     \/ /\ refs["r"] # 0 /\ count # PIPE_BUF_SIZE
        /\ LET k == Stored(n)
           IN  /\ buf' = Store(k)
               /\ write_pos' = (write_pos + k) % PIPE_BUF_SIZE
               /\ count' = count + k
               /\ nwr' = (nwr + k) % Mod
        /\ s' = WakeEnd(s, "r")
        /\ waiting' = [waiting EXCEPT !["r"] = NoTask]
        /\ Done(p)
        /\ UNCHANGED <<read_pos, nrd, waiters>>

Read(p, n) == ProcInUser(p) /\ p \in Readers /\ hold[p]["r"] > 0 /\ ReadLoop(p, n)
ReadRetry(p) == In(p, "read") /\ ReadLoop(p, want[p])
Write(p, n) == ProcInUser(p) /\ p \in Writers /\ hold[p]["w"] > 0 /\ WriteLoop(p, n)
WriteRetry(p) == In(p, "write") /\ WriteLoop(p, want[p])

-----------------------------------------------------------------------------
\* pipe_read_poll_fn and pipe_write_poll_fn: any event poll reports.
Ready(e) ==
  IF e = "r" THEN count > 0 \/ refs["w"] = 0
             ELSE count < PIPE_BUF_SIZE \/ refs["r"] = 0

\* waitq_remove: p's entry leaves the queue, which has one for each poller.
Unqueued(q, p) ==
  IF Queued(q, p) THEN Unlinked(q, CHOOSE i \in 1..Len(q) : q[i] = p) ELSE q

\* sys_poll on one end without a timeout: return if ready, else register on
\* the end's waitq and block; on waking unregister and look again.
PollCall(e) == IF e = "r" THEN "pollr" ELSE "pollw"
PollLoop(p, e, q) ==
  /\ IF Ready(e)
       THEN /\ pc' = [pc EXCEPT ![p] = "user"]
            /\ waiters' = [waiters EXCEPT ![e] = q]
            /\ UNCHANGED s
       ELSE /\ waiters' = [waiters EXCEPT ![e] = <<p>> \o q]
            /\ s' = SchedBlock(s)
            /\ pc' = [pc EXCEPT ![p] = PollCall(e)]
  /\ UNCHANGED <<want, hold, ring, refs, waiting, freed, hung>>

Poll(p, e) == ProcInUser(p) /\ p \in Pollers /\ hold[p][e] > 0 /\ PollLoop(p, e, waiters[e])
PollRetry(p, e) == In(p, PollCall(e)) /\ PollLoop(p, e, Unqueued(waiters[e], p))

-----------------------------------------------------------------------------
\* pipe_read_close_fn and pipe_write_close_fn: whoever is blocked at the other
\* end is woken, its pollers when this was the last reference.
LastRef(e) == refs[e] = 1
WakeOnClose(sc, e) ==
  LET o == Other(e)
      w == WakeOne(sc, waiting[o])
  IN  IF LastRef(e) THEN WakeAll(w, waiters[o]) ELSE w

Mut_CloseEnd(p, e) ==
  /\ hold' = [hold EXCEPT ![p][e] = @ - 1]
  /\ refs' = [refs EXCEPT ![e] = @ - 1]
  /\ waiting' = IF LastRef(e) THEN [waiting EXCEPT ![Other(e)] = NoTask] ELSE waiting
  /\ freed' = LastRef(e)
CloseEnd(p, e) ==
  /\ hold' = [hold EXCEPT ![p][e] = @ - 1]
  /\ refs' = [refs EXCEPT ![e] = @ - 1]
  /\ waiting' = [waiting EXCEPT ![Other(e)] = NoTask]
  /\ freed' = (LastRef(e) /\ refs[Other(e)] = 0)

Close(p, e) ==
  /\ ProcInUser(p) /\ hold[p][e] > 0
  /\ CloseEnd(p, e)
  /\ s' = WakeOnClose(s, e)
  /\ UNCHANGED <<pc, want, ring, waiters, hung>>

\* dup, dup2, and the dup hooks.
Dup(p, e) ==
  /\ ProcInUser(p) /\ load.dups /\ hold[p][e] \in 1..MaxHold - 1
  /\ hold' = [hold EXCEPT ![p][e] = @ + 1]
  /\ refs' = [refs EXCEPT ![e] = @ + 1]
  /\ UNCHANGED <<s, pc, want, ring, waiting, waiters, freed, hung>>

\* fd_table_copy: every descriptor of the child is one more reference.
Fork(p, c) ==
  /\ ProcInUser(p) /\ c \in Procs /\ s.st[c] = "free"
  /\ hold' = [hold EXCEPT ![c] = hold[p]]
  /\ refs' = [e \in End |-> refs[e] + hold[p][e]]
  /\ s' = SchedAdd(s, c)
  /\ UNCHANGED <<pc, want, ring, waiting, waiters, freed, hung>>

\* sched_exit takes sched_lock and then closes what is still open.  A close
\* that has someone to wake calls sched_wake, which takes sched_lock again.
Holds(p) == {e \in End : hold[p][e] > 0}
LastOf(p, e) == refs[e] = hold[p][e]
WakesOnExit(p) ==
  \E e \in Holds(p) :
    \/ waiting[Other(e)] # NoTask
    \/ (LastOf(p, e) /\ waiters[Other(e)] # <<>>)

ExitProc(p) ==
  /\ ProcInUser(p) /\ (load.exits \/ Holds(p) = {})
  /\ IF WakesOnExit(p)
       THEN /\ hung' = TRUE
            /\ UNCHANGED <<s, hold, refs, freed>>
       ELSE /\ hold' = [hold EXCEPT ![p] = [e \in End |-> 0]]
            /\ refs' = [e \in End |-> refs[e] - hold[p][e]]
            /\ freed' = \A e \in End : refs[e] = hold[p][e]
            /\ s' = SchedYieldToNext(SchedZombie(s))
            /\ UNCHANGED hung
  /\ UNCHANGED <<pc, want, ring, waiting, waiters>>

\* A signal wakes whatever a blocked process is in; the loops look again.
Signal(p, q) ==
  /\ ProcInUser(p) /\ s.st[q] = "BLOCKED"
  /\ s' = SchedWake(s, q)
  /\ UNCHANGED <<pc, want, hold, ring, refs, waiting, waiters, freed, hung>>

\* The timer preempts a process in user mode, or task_idle.
PipeTick ==
  /\ ~hung /\ (s.cur # IdleTask => pc[s.cur] = "user")
  /\ s' = SchedPreempt(s)
  /\ UNCHANGED <<pc, want, hold, ring, refs, waiting, waiters, freed, hung>>

PipeNext ==
  /\ UNCHANGED load
  /\ \/ \E p \in Proc, n \in 1..PIPE_BUF_SIZE : Read(p, n) \/ Write(p, n)
     \/ \E p \in Proc : ReadRetry(p) \/ WriteRetry(p) \/ ExitProc(p)
     \/ \E p \in Proc, e \in End : Poll(p, e) \/ PollRetry(p, e) \/ Close(p, e) \/ Dup(p, e)
     \/ \E p, q \in Proc : Fork(p, q) \/ Signal(p, q)
     \/ PipeTick

PipeSpec == PipeInit /\ [][PipeNext]_pipeVars

\* The kernel code that the CPU switched to runs.
KernelStep ==
  UNCHANGED load /\ \E p \in Proc : ReadRetry(p) \/ WriteRetry(p) \/ \E e \in End : PollRetry(p, e)

-----------------------------------------------------------------------------
PipeTypeOK ==
  /\ s.st \in [PipeTask -> {"free", "RUNNING", "BLOCKED", "ZOMBIE"}]
  /\ s.rq \in Seq(PipeTask) /\ s.cur \in PipeTask
  /\ pc \in [Proc -> {"user", "read", "write", "pollr", "pollw"}]
  /\ want \in [Proc -> 0..PIPE_BUF_SIZE]
  /\ hold \in [Proc -> [End -> 0..MaxHold]]
  /\ count \in 0..PIPE_BUF_SIZE
  /\ read_pos \in 0..PIPE_BUF_SIZE - 1 /\ write_pos \in 0..PIPE_BUF_SIZE - 1
  /\ refs \in [End -> 0..MaxHold * Cardinality(Proc)]
  /\ waiting \in [End -> Proc \cup {NoTask}]
  /\ freed \in BOOLEAN /\ hung \in BOOLEAN

\* The variables have their types and the ring holds the bytes that were
\* written and not yet read, in order, across the wrap-around: no byte is
\* lost, repeated or overwritten (pipe_read_fn, pipe_write_fn).
StreamIntact ==
  /\ PipeTypeOK
  /\ (nrd + count) % Mod = nwr
  /\ write_pos = (read_pos + count) % PIPE_BUF_SIZE
  /\ \A i \in 0..count - 1 : buf[(read_pos + i) % PIPE_BUF_SIZE] = (nrd + i) % Mod

\* The pipe has room for one blocked reader and for one blocked writer.
OnlyOne(p, S) == S \subseteq {p}

\* No wakeup is lost: a process is blocked on the pipe only while what it
\* waits for has not happened, though it may have been woken meanwhile.  A
\* reader is promised this when no other process reads (reader_waiting is one
\* pointer), a writer when no other writes, and every poller.
NobodyForgotten ==
  \A p \in Proc : s.st[p] = "BLOCKED" =>
    CASE pc[p] = "read"  -> OnlyOne(p, Readers) => count = 0 /\ refs["w"] > 0
      [] pc[p] = "write" -> OnlyOne(p, Writers) => count = PIPE_BUF_SIZE /\ refs["r"] > 0
      [] pc[p] = "pollr" -> ~Ready("r")
      [] pc[p] = "pollw" -> ~Ready("w")

\* The open descriptors of an end, in all processes.
Descriptors(e) == {d \in Proc \X (1..MaxHold) : d[2] <= hold[d[1]][e]}

\* The reference counts are the descriptors that exist, so EOF and EPIPE come
\* when the last one is gone, and the pipe is freed then and not before.
RefsCountDescriptors ==
  /\ \A e \in End : refs[e] = Cardinality(Descriptors(e))
  /\ freed <=> \A e \in End : refs[e] = 0

\* The CPU never waits for a lock it holds itself.
NeverHangs == ~hung
=============================================================================
