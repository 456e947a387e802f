------------------------------- MODULE Vigil -------------------------------
(***************************************************************************)
(* The service supervisor user/bin/vigil and its control program vigictl.  *)
(*                                                                         *)
(* vigil's loop takes a command, reaps the dead, restarts what should run, *)
(* and sleeps; its signal handlers only set flags.  vigictl writes the     *)
(* command and then a newline to a file in /run and sends SIGUSR1, so      *)
(* several of them and vigil meet in that file.  /run is a ramfs: opening  *)
(* truncates nothing, every write replaces the whole file, and unlink,     *)
(* which only knows ext2, does not find it.  Services crash at any moment, *)
(* may ignore SIGTERM, and fork may fail.                                  *)
(***************************************************************************)
EXTENDS Workload, Naturals, FiniteSets, Sequences, SequencesExt

CONSTANTS VWaits   \* how many seconds shutdown_all waits (5)

VARIABLES vk,    \* vigil
          vp,    \* the processes it forked, in order
          vctl   \* the vigictl processes and the command file

vvars == <<vk, vp, vctl>>

VOn == load.part = "vigil"
VAt(p) == VOn /\ vk.pc = p
VSvcs == DOMAIN vk.svc

\* start_service: nothing if a process is recorded; a failed fork is not
\* noticed.  ok says whether this fork succeeds; idle is a ghost, set when a
\* service that should run was left without a process.
VStart(k, p, i, ok) ==
  IF k.svc[i].pid > 0 THEN [k |-> k, p |-> p]
  ELSE IF ~ok THEN [k |-> [k EXCEPT !.svc[i].idle = TRUE, !.fails = @ - 1], p |-> p]
  ELSE [k |-> [k EXCEPT !.svc[i].pid = Len(p) + 1, !.svc[i].idle = FALSE],
        p |-> Append(p, [svc |-> i, st |-> "live", sig |-> "none"])]

\* kill of a recorded pid; a zombie takes no signal.
VKill(p, pid, sig) ==
  IF pid > 0 /\ p[pid].st = "live" /\ p[pid].sig # "kill" THEN [p EXCEPT ![pid].sig = sig] ELSE p

VForks == {TRUE} \cup (IF vk.fails > 0 THEN {FALSE} ELSE {})

\* Start-up: a service for another boot mode is made inactive.
VBoot ==
  /\ VAt("boot")
  /\ LET i == vk.at
     IN IF i > Len(vk.svc) THEN vk' = [vk EXCEPT !.pc = "top"] /\ UNCHANGED vp
        ELSE IF ~load.svcs[i].here
        THEN vk' = [vk EXCEPT !.svc[i].active = FALSE, !.at = @ + 1] /\ UNCHANGED vp
        ELSE \E ok \in VForks :
               LET r == VStart(vk, vp, i, ok)
               IN vk' = [r.k EXCEPT !.at = @ + 1] /\ vp' = r.p
  /\ UNCHANGED vctl

VTop ==
  /\ VAt("top")
  /\ vk' = IF vk.term THEN [vk EXCEPT !.pc = "down"]
           ELSE IF vk.usr1 THEN [vk EXCEPT !.usr1 = FALSE, !.pc = "read"]
           ELSE [vk EXCEPT !.pc = "reap"]
  /\ UNCHANGED <<vp, vctl>>

\* process_cmd reads the file, which holds the command of one vigictl, or
\* nothing but a newline.
VRead ==
  /\ VAt("read")
  /\ vk' = IF vctl.file = 0 THEN [vk EXCEPT !.pc = "reap"]
           ELSE [vk EXCEPT !.pc = "obey", !.cmd = vctl.file]
  /\ UNCHANGED <<vp, vctl>>

\* "stop" and "restart" only signal: the loop does the rest when the process
\* has died.
VCommand(k, p, c, ok) ==
  LET i == c.i
      s == k.svc[i]
  IN CASE c.verb = "status" -> [k |-> k, p |-> p]
       [] c.verb = "start"  -> VStart([k EXCEPT !.svc[i].active = TRUE], p, i, ok)
       [] OTHER -> [k |-> [k EXCEPT !.svc[i].active = c.verb = "restart",
                                    !.svc[i].idle = @ \/ (c.verb = "restart" /\ s.pid = 0)],
                    p |-> VKill(p, s.pid, "term")]

\* The unlink fails, and the command is done.
VObey ==
  /\ VAt("obey")
  /\ \E ok \in VForks :
       LET r == VCommand(vk, vp, load.ctl[vk.cmd], ok)
       IN vk' = [r.k EXCEPT !.pc = "reap", !.cmd = 0] /\ vp' = r.p
  /\ UNCHANGED vctl

VZombies == {pid \in DOMAIN vp : vp[pid].st = "zombie"}

\* The restart policy, applied to one dead child.
VRespawn(k, p, i, ok) ==
  LET s == k.svc[i]
      d == [k EXCEPT !.svc[i].pid = 0]
  IN IF ~s.active \/ load.svcs[i].oneshot THEN [k |-> d, p |-> p]
     ELSE IF s.restarts >= load.svcs[i].max
     THEN [k |-> [d EXCEPT !.svc[i].active = FALSE], p |-> p]
     ELSE VStart([d EXCEPT !.svc[i].restarts = @ + 1], p, i, ok)

VReap ==
  /\ VAt("reap") /\ VZombies # {}
  /\ \E pid \in VZombies, ok \in VForks :
       LET gone == [vp EXCEPT ![pid].st = "gone"]
           is == {i \in VSvcs : vk.svc[i].pid = pid}
       IN IF is = {} THEN vk' = vk /\ vp' = gone
          ELSE LET r == VRespawn(vk, gone, CHOOSE i \in is : \A j \in is : i <= j, ok)
               IN vk' = r.k /\ vp' = r.p
  /\ UNCHANGED vctl

VSleep ==
  /\ VAt("reap") /\ VZombies = {}
  /\ vk' = [vk EXCEPT !.pc = "top"]
  /\ UNCHANGED <<vp, vctl>>

\* shutdown_all: SIGTERM to everyone, up to VWaits seconds of reaping, then
\* SIGKILL to the rest; sync and power off.
VKillAll(k, p, sig) ==
  [pid \in DOMAIN p |->
     IF p[pid].st = "live" /\ \E i \in VSvcs : k.svc[i].pid = pid THEN [p[pid] EXCEPT !.sig = sig] ELSE p[pid]]

VDown ==
  /\ VAt("down")
  /\ vk' = [vk EXCEPT !.pc = "wait"]
  /\ vp' = VKillAll(vk, vp, "term")
  /\ UNCHANGED vctl

Mut_VWait ==                            \* mutant: the wait has no limit
  /\ VAt("wait")
  /\ IF \A i \in VSvcs : vk.svc[i].pid = 0
     THEN /\ vk' = [vk EXCEPT !.pc = "off"]
          /\ vp' = VKillAll(vk, vp, "kill")
     ELSE /\ vk' = [vk EXCEPT !.svc = [i \in DOMAIN @ |->
                                         IF @[i].pid \in VZombies THEN [@[i] EXCEPT !.pid = 0] ELSE @[i]]]
          /\ vp' = [pid \in DOMAIN vp |->
                      IF pid \in VZombies THEN [vp[pid] EXCEPT !.st = "gone"] ELSE vp[pid]]
  /\ UNCHANGED vctl
VWait ==
  /\ VAt("wait")
  /\ IF (\A i \in VSvcs : vk.svc[i].pid = 0) \/ vk.waited >= VWaits
     THEN /\ vk' = [vk EXCEPT !.pc = "off"]
          /\ vp' = VKillAll(vk, vp, "kill")
     ELSE /\ vk' = [vk EXCEPT !.waited = @ + 1,
                              !.svc = [i \in DOMAIN @ |->
                                         IF @[i].pid \in VZombies THEN [@[i] EXCEPT !.pid = 0] ELSE @[i]]]
          /\ vp' = [pid \in DOMAIN vp |->
                      IF pid \in VZombies THEN [vp[pid] EXCEPT !.st = "gone"] ELSE vp[pid]]
  /\ UNCHANGED vctl

\* A service ends: by itself, or on a signal it does not ignore.
VDie(pid) ==
  /\ VOn /\ vp[pid].st = "live"
  /\ vp[pid].sig # "none" \/ vk.crashes > 0
  /\ vp' = [vp EXCEPT ![pid].st = "zombie"]
  /\ vk' = IF vp[pid].sig = "none" THEN [vk EXCEPT !.crashes = @ - 1] ELSE vk
  /\ UNCHANGED vctl

(******************************* vigictl ***********************************)

VCtlAt(c, s) == VOn /\ vctl.proc[c].st = s

VSignal(c) ==
  /\ VCtlAt(c, "new") /\ load.ctl[c].verb = "shutdown"
  /\ vk' = [vk EXCEPT !.term = TRUE]
  /\ vctl' = [vctl EXCEPT !.proc[c].st = "done"]
  /\ UNCHANGED vp

\* write_cmd: the command replaces the file, then the newline does.
VWrite(c) ==
  /\ VCtlAt(c, "new") /\ load.ctl[c].verb # "shutdown"
  /\ vctl' = [vctl EXCEPT !.proc[c].st = "half", !.file = c]
  /\ UNCHANGED <<vk, vp>>

VNewline(c) ==
  /\ VCtlAt(c, "half")
  /\ vctl' = [vctl EXCEPT !.proc[c].st = "written", !.file = 0]
  /\ UNCHANGED <<vk, vp>>

VNotify(c) ==
  /\ VCtlAt(c, "written")
  /\ vk' = [vk EXCEPT !.usr1 = TRUE]
  /\ vctl' = [vctl EXCEPT !.proc[c].st = "done"]
  /\ UNCHANGED vp

\* load_service: a service is loaded with no process, active.
VigilInit ==
  /\ vk = [pc |-> IF VOn THEN "boot" ELSE "off", at |-> 1, usr1 |-> FALSE, term |-> FALSE, waited |-> 0,
           cmd |-> 0, fails |-> IF VOn THEN load.fails ELSE 0, crashes |-> IF VOn THEN load.crashes ELSE 0,
           svc |-> IF VOn THEN [i \in DOMAIN load.svcs |->
                                  [pid |-> 0, restarts |-> 0, active |-> TRUE, idle |-> FALSE]] ELSE <<>>]
  /\ vp = <<>>
  /\ vctl = [file |-> 0,
             proc |-> IF VOn THEN [c \in DOMAIN load.ctl |-> [st |-> "new"]] ELSE <<>>]

VigilNext ==
  \/ VBoot \/ VTop \/ VRead \/ VObey \/ VReap \/ VSleep \/ VDown \/ VWait
  \/ \E pid \in DOMAIN vp : VDie(pid)
  \/ \E c \in DOMAIN vctl.proc : VSignal(c)
  \/ \E c \in DOMAIN vctl.proc : VWrite(c)
  \/ \E c \in DOMAIN vctl.proc : VNewline(c)
  \/ \E c \in DOMAIN vctl.proc : VNotify(c)

VigilStep == VBoot \/ VTop \/ VRead \/ VObey \/ VReap \/ VSleep \/ VDown \/ VWait

(**************************** what must hold *******************************)

\* A service never runs twice, and vigil never forgets one it started: the
\* processes not yet reaped are those recorded (main.c:110-141, 300-315).
VOneEach ==
  /\ \A pid \in DOMAIN vp : vp[pid].st # "gone" => vk.svc[vp[pid].svc].pid = pid
  /\ \A i \in VSvcs : vk.svc[i].pid > 0 => vp[vk.svc[i].pid].svc = i /\ vp[vk.svc[i].pid].st # "gone"

\* A service that should run has a process, but for the two cases the code
\* leaves open (a failed fork, "restart" of one that is not running); restarts
\* stay within the limit, and a service is given up only when they are used up,
\* when it is for another boot mode, or when a vigictl wrote "stop" for it
\* (main.c:191-225, 286-315).  That a command is obeyed is not said:
\* its newline replaces it in the file, and vigil mostly reads that.
VKept ==
  /\ \A i \in VSvcs : vk.svc[i].restarts <= load.svcs[i].max
  /\ \A i \in VSvcs : ~vk.svc[i].active =>
       \/ vk.svc[i].restarts = load.svcs[i].max \/ ~load.svcs[i].here
       \/ \E c \in DOMAIN load.ctl : load.ctl[c] = [verb |-> "stop", i |-> i] /\ vctl.proc[c].st # "new"
  /\ vk.pc \notin {"boot", "wait", "off"} =>
       \A i \in VSvcs : vk.svc[i].active /\ ~load.svcs[i].oneshot => vk.svc[i].pid > 0 \/ vk.svc[i].idle

\* The power goes off with nothing of the services left running unsignalled
\* (main.c:143-168).
VQuietOff == vk.pc = "off" => \A pid \in DOMAIN vp : vp[pid].st = "live" => vp[pid].sig = "kill"

VigilIntact == VOn => VOneEach /\ VKept /\ VQuietOff

\* A shutdown asked for and a dead child: each is dealt with.
VDue == VOn /\ vk.pc # "off" /\ (vk.term \/ VZombies # {})
=============================================================================
