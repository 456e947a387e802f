------------------------------- MODULE Signal -------------------------------
(***************************************************************************)
(* One process and its signals on x86_64: masks, handlers that nest,       *)
(* sigreturn, sigsuspend, and what happens to its registers on the way     *)
(* (signal/signal.c, syscall/sys_signal.c, arch/x86_64/syscall_entry.asm). *)
(* Other processes send it signals and resume it at any time that it is    *)
(* not executing in the kernel.  Processes and job control are in Proc.    *)
(***************************************************************************)
EXTENDS Naturals, Sequences

CONSTANTS
  Actions,   \* the sigaction records programs install: [h, m]
  Masks,     \* the sets programs pass to sigprocmask and sigsuspend
  MaxDepth   \* bound: how deep handlers nest

\* The signals in delivery order, and their default actions.
Sig == <<"INT", "KILL", "CHLD", "STOP">>
SigSet == {"INT", "KILL", "CHLD", "STOP"}
Catchable == {"INT", "CHLD"}
Unmaskable == {"KILL", "STOP"}
Default == [h |-> "DFL", m |-> {}]

ASSUME SignalAssumption ==
  /\ Actions \subseteq [h : {"DFL", "IGN", "fn"}, m : SUBSET SigSet]
  /\ Masks \subseteq SUBSET SigSet /\ MaxDepth \in Nat

\* Registers by what saves and restores them: rip, rsp and the registers of
\* syscall_frame_t (core), rdi, rsi and rdx (args), rax, and rcx and r11.
Regs == {"core", "args", "rax", "scratch"}
Junk == 99

VARIABLES
  st,        \* RUNNING, BLOCKED, STOPPED or ZOMBIE
  mode,      \* user mode, or in the kernel returning by sysret or iretq, or
             \* blocked in sigsuspend
  pending, signal_mask, sigactions,
  regs,      \* regs[r] = n: register class r holds what context n left there;
             \* context 0 is the program, n the n-th nested handler
  frames,    \* the signal frames on the user stack
  old_mask,  \* sigsuspend's local variable
  prog_mask  \* ghost: the mask the program last asked for

signalVars == <<st, mode, pending, signal_mask, sigactions, regs, frames, old_mask, prog_mask>>

Context(n) == [r \in Regs |-> n]
Depth == Len(frames)
Top == frames[Depth]

SignalInit ==
  /\ st = "RUNNING" /\ mode = "user"
  /\ pending = {} /\ signal_mask = {}
  /\ sigactions = [x \in SigSet |-> Default]
  /\ regs = Context(0) /\ frames = <<>>
  /\ old_mask = {} /\ prog_mask = {}

InUserMode == st = "RUNNING" /\ mode = "user"

-----------------------------------------------------------------------------
\* signal_send_pid and signal_send_pgrp, from another process.
Send(sig) ==
  /\ mode # "sysret" /\ mode # "iretq" /\ st # "ZOMBIE"
  /\ pending' = pending \cup {sig}
  /\ st' = IF st = "BLOCKED" THEN "RUNNING" ELSE st
  /\ UNCHANGED <<mode, signal_mask, sigactions, regs, frames, old_mask, prog_mask>>

SendGroup(sig) ==
  /\ mode # "sysret" /\ mode # "iretq" /\ st # "ZOMBIE"
  /\ pending' = pending \cup {sig}
  /\ st' = "RUNNING"
  /\ UNCHANGED <<mode, signal_mask, sigactions, regs, frames, old_mask, prog_mask>>

\* An interrupt in user mode; signal_deliver runs before the iretq.
Interrupt ==
  /\ InUserMode
  /\ mode' = "iretq"
  /\ UNCHANGED <<st, pending, signal_mask, sigactions, regs, frames, old_mask, prog_mask>>

\* SYSCALL overwrites rcx and r11; every other register is preserved but
\* rax, which takes the result: a value the calling context expects.
Result(rg) == [rg EXCEPT !["scratch"] = Junk]

\* A system call that has nothing to do with signals.
OtherCall ==
  /\ InUserMode
  /\ mode' = "sysret" /\ regs' = Result(regs)
  /\ UNCHANGED <<st, pending, signal_mask, sigactions, frames, old_mask, prog_mask>>

\* The context goes on computing: it reloads the registers that do not
\* survive a system call, and uses the others.
Compute ==
  /\ InUserMode /\ regs["scratch"] = Junk
  /\ regs' = [regs EXCEPT !["scratch"] = Depth]
  /\ UNCHANGED <<st, mode, pending, signal_mask, sigactions, frames, old_mask, prog_mask>>

Sigaction(sig, sa) ==
  /\ InUserMode /\ sig \in Catchable
  /\ sigactions' = [sigactions EXCEPT ![sig] = sa]
  /\ mode' = "sysret" /\ regs' = Result(regs)
  /\ UNCHANGED <<st, pending, signal_mask, frames, old_mask, prog_mask>>

Maskable(m) == m \ Unmaskable
NewMask(how, m) ==
  Maskable(CASE how = "BLOCK" -> signal_mask \cup m
             [] how = "UNBLOCK" -> signal_mask \ m
             [] how = "SETMASK" -> m)

\* sigprocmask, called by the program outside its handlers.
Sigprocmask(how, m) ==
  /\ InUserMode /\ Depth = 0
  /\ signal_mask' = NewMask(how, m)
  /\ prog_mask' = NewMask(how, m)
  /\ mode' = "sysret" /\ regs' = Result(regs)
  /\ UNCHANGED <<st, pending, sigactions, frames, old_mask>>

\* sigsuspend: block unless a signal is deliverable already.
Sigsuspend(m) ==
  /\ InUserMode /\ Depth = 0
  /\ old_mask' = signal_mask
  /\ signal_mask' = Maskable(m)
  /\ mode' = "suspend" /\ regs' = Result(regs)
  /\ st' = IF pending \ Maskable(m) = {} THEN "BLOCKED" ELSE st
  /\ UNCHANGED <<pending, sigactions, frames, prog_mask>>

\* ... and return EINTR under the old mask.
SuspendReturn ==
  /\ st = "RUNNING" /\ mode = "suspend"
  /\ signal_mask' = old_mask /\ old_mask' = {}
  /\ mode' = "sysret"
  /\ UNCHANGED <<st, pending, sigactions, regs, frames, prog_mask>>

-----------------------------------------------------------------------------
\* signal_deliver (iretq) and signal_deliver_sysret: take the lowest-numbered
\* deliverable signal, once per return to user mode.
Deliverable == pending \ signal_mask
FirstDeliverable(i) == Sig[i] \in Deliverable /\ \A j \in 1..i - 1 : Sig[j] \notin Deliverable
NextSignal == Sig[CHOOSE i \in 1..Len(Sig) : FirstDeliverable(i)]

NoSignal ==
  /\ Deliverable = {}
  /\ mode' = "user"
  /\ UNCHANGED <<st, pending, signal_mask, regs, frames>>

DefaultAction(sig) ==
  /\ sigactions[sig].h = "DFL"
  /\ pending' = pending \ {sig}
  /\ st' = CASE sig = "CHLD" -> st
             [] sig = "STOP" -> "STOPPED"
             [] OTHER -> "ZOMBIE"
  /\ mode' = "user"
  /\ UNCHANGED <<signal_mask, regs, frames>>

IgnoreAction(sig) ==
  /\ sigactions[sig].h = "IGN"
  /\ pending' = pending \ {sig}
  /\ mode' = "user"
  /\ UNCHANGED <<st, signal_mask, regs, frames>>

\* Build a frame on the user stack and enter the handler; a stack that has
\* no room ends the process.
HandlerMask(sig) == signal_mask \cup sigactions[sig].m \cup {sig}
EnterHandler(sig) ==
  /\ sigactions[sig].h = "fn"
  /\ pending' = pending \ {sig}
  /\ \/ /\ Depth < MaxDepth
        /\ frames' = Append(frames, [sig |-> sig, mask |-> signal_mask, regs |-> regs])
        /\ signal_mask' = HandlerMask(sig)
        /\ regs' = Context(Depth + 1)
        /\ mode' = "user"
        /\ UNCHANGED st
     \/ /\ st' = "ZOMBIE"
        /\ UNCHANGED <<mode, signal_mask, regs, frames>>

Deliver ==
  /\ st = "RUNNING" /\ mode \in {"sysret", "iretq"}
  /\ \/ NoSignal
     \/ /\ Deliverable # {}
        /\ LET sig == NextSignal
           IN  DefaultAction(sig) \/ IgnoreAction(sig) \/ EnterHandler(sig)
  /\ UNCHANGED <<sigactions, old_mask, prog_mask>>

\* sigreturn restores the core registers and the mask from the frame, and the
\* return path skips signal delivery.  rdi, rsi and rdx stay as the handler
\* left them and rax is SIGRETURN_MAGIC.
RestoredRegs(rg, saved) ==
  [rg EXCEPT !["core"] = saved["core"], !["rax"] = Junk, !["scratch"] = Junk]

Mut_Sigreturn ==
  /\ InUserMode /\ frames # <<>>
  /\ regs' = RestoredRegs(regs, Top.regs)
  /\ frames' = SubSeq(frames, 1, Depth - 1)
  /\ UNCHANGED <<st, mode, pending, signal_mask, sigactions, old_mask, prog_mask>>
Sigreturn ==
  /\ InUserMode /\ frames # <<>>
  /\ regs' = RestoredRegs(regs, Top.regs)
  /\ signal_mask' = Maskable(Top.mask)
  /\ frames' = SubSeq(frames, 1, Depth - 1)
  /\ UNCHANGED <<st, mode, pending, sigactions, old_mask, prog_mask>>

\* A zombie takes no more steps.
Dead == st = "ZOMBIE" /\ UNCHANGED signalVars

SignalNext ==
  \/ \E sig \in SigSet : Send(sig) \/ SendGroup(sig)
  \/ Interrupt \/ OtherCall \/ Compute
  \/ \E sig \in SigSet, sa \in Actions : Sigaction(sig, sa)
  \/ \E how \in {"BLOCK", "UNBLOCK", "SETMASK"}, m \in Masks : Sigprocmask(how, m)
  \/ \E m \in Masks : Sigsuspend(m)
  \/ SuspendReturn \/ Deliver \/ Sigreturn \/ Dead

SignalSpec == SignalInit /\ [][SignalNext]_signalVars

-----------------------------------------------------------------------------
SignalTypeOK ==
  /\ st \in {"RUNNING", "BLOCKED", "STOPPED", "ZOMBIE"}
  /\ mode \in {"user", "sysret", "iretq", "suspend"}
  /\ st = "BLOCKED" => mode = "suspend"
  /\ pending \subseteq SigSet /\ signal_mask \subseteq SigSet
  /\ sigactions \in [SigSet -> Actions \cup {Default}]
  /\ regs \in [Regs -> 0..MaxDepth \cup {Junk}]
  /\ Depth <= MaxDepth
  /\ old_mask \subseteq Catchable /\ prog_mask \subseteq Catchable

\* While a handler runs its signal is masked, in whatever order signals arrive
\* and handlers nest, so no signal has two frames on the stack.
NoReentry == \A i, j \in 1..Depth : frames[i].sig = frames[j].sig => i = j

\* When the last handler has returned the program has the mask it asked for.
MaskRestored == InUserMode /\ Depth = 0 => signal_mask = prog_mask

\* Whatever interrupted it, a context goes on at its own instruction, with
\* its own stack pointer and callee-saved registers.
CoreRestored == InUserMode => regs["core"] = Depth

\* The variables have their types, handlers do not re-enter, and what a
\* handler interrupted gets back its context and its mask
\* (signal_deliver_sysret, signal_deliver, sys_rt_sigreturn).
ContextRestored == SignalTypeOK /\ NoReentry /\ CoreRestored /\ MaskRestored
=============================================================================
