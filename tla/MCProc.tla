------------------------------- MODULE MCProc -------------------------------
(***************************************************************************)
(* Workloads for Proc: job control, threads, processes that exec, and      *)
(* stops of a whole group.                                                 *)
(***************************************************************************)
EXTENDS Proc

Load(calls, pids) == [calls |-> calls, pids |-> pids, leaders |-> {}, signals |-> {}]

MCLoads ==
  { [Load({"fork", "exit", "wait", "kill"}, 3) EXCEPT !.signals = {"TERM"}],
    [Load({"fork", "exit", "wait", "kill"}, 3) EXCEPT !.signals = {"TSTP"}],
    [Load({"fork", "exit", "wait", "killpg"}, 3) EXCEPT !.leaders = {2}, !.signals = {"TSTP"}],
    Load({"fork", "exit", "wait", "thread", "vfork"}, 3),
    Load({"exit", "wait", "thread"}, 4),
    Load({"fork", "exit_group", "wait", "exec"}, 4) }

ThreadLoads == {Load({"fork", "thread", "exit", "wait"}, 4)}
=============================================================================
