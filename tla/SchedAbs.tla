------------------------------ MODULE SchedAbs ------------------------------
(***************************************************************************)
(* What the scheduler promises its callers: a round-robin queue of the     *)
(* runnable tasks.  The pointers, the clock and the CPU registers of Sched *)
(* are hidden; a sleeper may be woken at any time, a user task or the idle *)
(* task may be preempted at any time.                                      *)
(***************************************************************************)
EXTENDS SchedOps

CONSTANTS User, Idle, NULL

VARIABLES s, up

Init ==
  /\ s = [st |-> [t \in User \cup {Idle} |-> "free"], rq |-> <<>>, cur |-> NULL]
  /\ up = FALSE

Keep == UNCHANGED up

Spawn == ~up /\ s.cur = NULL /\ s' = [SchedAdd(s, Idle) EXCEPT !.cur = Idle] /\ Keep
Start == ~up /\ s.cur # NULL /\ up' = TRUE /\ UNCHANGED s

Add(t) == s.cur # NULL /\ s.st[t] = "free" /\ s' = SchedAdd(s, t) /\ Keep
Block == up /\ s.cur \in User /\ s' = SchedBlock(s) /\ Keep
Stop == up /\ s.cur \in User /\ s' = SchedStop(s) /\ Keep
Wake(t) == up /\ s.st[t] \in {"RUNNING", "BLOCKED", "STOPPED"} /\ s' = SchedWake(s, t) /\ Keep
Resume(t) == up /\ s.st[t] = "STOPPED" /\ s' = SchedResume(s, t) /\ Keep

\* The parent p is woken if it was blocked; control goes to it or to the queue's head.
Exit(p) ==
  LET z == SchedZombie(s)
      w == IF p # NULL /\ z.st[p] = "BLOCKED" THEN SchedWake(z, p) ELSE z
  IN  /\ up /\ s.cur \in User /\ Keep
      /\ \/ s' = SchedYieldToNext(w)
         \/ p # NULL /\ w.st[p] = "RUNNING" /\ s' = SchedSwitch(w, p)

Reap(t) == up /\ t # s.cur /\ s.st[t] = "ZOMBIE" /\ s' = [s EXCEPT !.st[t] = "free"] /\ Keep

Preempt == up /\ s' = SchedPreempt(s) /\ Keep

Next ==
  \/ Spawn \/ Start \/ Block \/ Stop \/ Preempt
  \/ \E t \in User : Add(t) \/ Wake(t) \/ Resume(t) \/ Reap(t)
  \/ \E p \in (User \cup {NULL}) \ {s.cur} : Exit(p)

Spec == Init /\ [][Next]_<<s, up>>
=============================================================================
