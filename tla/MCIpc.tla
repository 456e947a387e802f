------------------------------- MODULE MCIpc --------------------------------
(***************************************************************************)
(* The scheduler, a pipe, and the signals of one process: one of the three *)
(* in a behaviour, on small sets of tasks, descriptors and signals.        *)
(***************************************************************************)
EXTENDS Sched, Pipe, Signal, TLC

CONSTANTS p1, p2, p3

\* A writer and a reader that also poll and dup, and two pollers of one pipe.
MCLoads ==
  {[procs |-> {p1, p2}, readers |-> {p2}, writers |-> {p1}, pollers |-> {p1, p2},
    dups |-> TRUE, exits |-> FALSE],
   [procs |-> {p1, p2, p3}, readers |-> {}, writers |-> {p1}, pollers |-> {p2, p3},
    dups |-> FALSE, exits |-> FALSE]}

\* Processes that leave their descriptors to sched_exit.
ExitLoads == {[l EXCEPT !.dups = FALSE, !.exits = TRUE] : l \in {x \in MCLoads : x.dups}}

\* Besides the default: a signal ignored, a handler that also masks INT, which
\* CHLD can interrupt when it handles INT, and one whose sa_mask has KILL in it.
MCActions == {[h |-> "IGN", m |-> {}], [h |-> "fn", m |-> {"INT"}], [h |-> "fn", m |-> {"KILL"}]}

VARIABLE part   \* which of the three moves
ipcVars == <<part, vars, pipeVars, signalVars>>

IpcInit ==
  /\ part \in {"sched", "pipe", "signal"}
  /\ Init /\ PipeInit /\ SignalInit
  /\ part # "pipe" => load = CHOOSE l \in Loads : TRUE

IpcNext ==
  /\ UNCHANGED part
  /\ \/ part = "sched" /\ Next /\ UNCHANGED <<pipeVars, signalVars>>
     \/ part = "pipe" /\ PipeNext /\ UNCHANGED <<vars, signalVars>>
     \/ part = "signal" /\ SignalNext /\ UNCHANGED <<vars, pipeVars>>

\* The PIT fires for ever, and the interrupt controller keeps a tick that comes
\* while interrupts are off, so it is taken at one of the next chances (SF); an
\* interrupt handler runs to its end, and so does the kernel code that the CPU
\* switched to.  In one process the timer interrupts whenever it is in user
\* mode, and delivery follows.
SchedTimer == part = "sched" /\ TickBegin(1)
PipeTimer == part = "pipe" /\ PipeTick /\ UNCHANGED load
SchedRuns == part = "sched" /\ (TickScan \/ TickPick)
PipeRuns == part = "pipe" /\ KernelStep
SignalRuns == part = "signal" /\ (Interrupt \/ Deliver \/ SuspendReturn)

IpcSpec ==
  /\ IpcInit /\ [][IpcNext]_ipcVars
  /\ SF_vars(SchedTimer) /\ WF_vars(SchedRuns)
  /\ SF_pipeVars(PipeTimer) /\ WF_pipeVars(PipeRuns)
  /\ WF_signalVars(SignalRuns)

-----------------------------------------------------------------------------
\* What must end for task or process i: its sleep, a read that could
\* return, and its life once SIGKILL is the next signal to be delivered.
Owed(i) ==
  \/ part = "sched" /\ i \in User /\ state[i] = "BLOCKED" /\ sleep[i] >= 0 /\ halted = "no"
  \/ part = "pipe" /\ i \in Proc /\ pc[i] = "read" /\ (count > 0 \/ refs["w"] = 0)
  \/ part = "signal" /\ i = p1 /\ st \in {"RUNNING", "BLOCKED"}
       /\ "KILL" \in Deliverable /\ "INT" \notin Deliverable

\* A sleeper wakes although each tick skips the task it interrupts, a reader
\* of the pipe returns once there are bytes or no writers are left, and
\* SIGKILL ends a process that is not stopped, whatever mask sigprocmask or
\* sigsuspend was given and whichever handlers nest.  Two things keep SIGKILL
\* waiting in the code, and are left out of what is owed: a handler whose
\* sa_mask has SIGKILL runs to its end first (signal_deliver does not take it
\* out of the mask), and each return to user mode delivers one signal, the
\* lowest, so that SIGINT, sent again before every return, goes first for ever.
EveryWaitEnds == \A i \in Proc : Owed(i) ~> ~Owed(i)
=============================================================================
