------------------------------ MODULE MCFutex -------------------------------
(***************************************************************************)
(* Workloads for Futex: threads that exit and are joined, two words, and   *)
(* signals that end waits early.                                           *)
(***************************************************************************)
EXTENDS Futex

CONSTANTS t1, t2, t3, a, b

MCLoads ==
  { [words |-> {a}, signals |-> FALSE, exiting |-> {t2, t3}, sleep |-> 2],
    [words |-> {a, b}, signals |-> FALSE, exiting |-> {}, sleep |-> 0],
    [words |-> {a}, signals |-> TRUE, exiting |-> {}, sleep |-> 0] }
=============================================================================
