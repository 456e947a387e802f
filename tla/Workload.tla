------------------------------ MODULE Workload ------------------------------
(***************************************************************************)
(* The workload that a behaviour is driven by: a record whose field "part" *)
(* names the part of the system that moves, and whose other fields say     *)
(* which calls, events and failures that part meets.                       *)
(***************************************************************************)
VARIABLE load
=============================================================================
