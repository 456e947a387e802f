-------------------------------- MODULE MCMm --------------------------------
(***************************************************************************)
(* The kernel's three allocation tables, one of them at a time.  Pages of  *)
(* physical memory are three bytes long, so that the boundaries of the     *)
(* firmware's regions fall on, before and after page boundaries.           *)
(***************************************************************************)
EXTENDS Pmm, Kva, Vma

Region == [base : 0..9, len : 0..9]
MCUsable == {{r} : r \in Region} \cup {{[base |-> 0, len |-> 4], [base |-> 4, len |-> 8]}}
MCReserved == {{[base |-> 0, len |-> k], r} : k \in {1, 3}, r \in [base : {4, 6}, len : 1..3] \cup {[base |-> 6, len |-> 0]}}

VARIABLE part     \* the table that is used
vars == <<part, pmmVars, kvaVars, vmaVars>>

Init ==
  /\ part \in {"pmm", "kva", "vma"}
  /\ PmmInit /\ KvaInit /\ VmaInit
  /\ part # "pmm" => boot = CHOOSE b \in [usable : Usable, reserved : Reserved] : TRUE

Next ==
  /\ UNCHANGED part
  /\ \/ part = "pmm" /\ PmmNext /\ UNCHANGED <<kvaVars, vmaVars>>
     \/ part = "kva" /\ KvaNext /\ UNCHANGED <<pmmVars, vmaVars>>
     \/ part = "vma" /\ VmaNext /\ UNCHANGED <<pmmVars, kvaVars>>

Spec == Init /\ [][Next]_vars
=============================================================================
