--------------------------------- MODULE Vma ---------------------------------
(***************************************************************************)
(* The mapping table against what it stands for: which protection and type *)
(* every page of the address space has.  A page is inserted only when it   *)
(* is not mapped, since vmm_map_user_page has just mapped it.              *)
(***************************************************************************)
EXTENDS RangeList

CONSTANTS
  VMA_CAPACITY,
  MaxVa,            \* bound: pages 1..MaxVa
  Prots, Types      \* bounds: the values callers pass

ASSUME VmaAssumption ==
  VMA_CAPACITY \in Nat /\ MaxVa \in Nat /\ Prots \subseteq Nat /\ "none" \notin Types

Pages == 1..MaxVa
Ranges == {r \in [va : Pages, n : Pages] : End(r) <= MaxVa + 1}
Unmapped == [prot |-> 0, type |-> "none"]

VARIABLES
  table,
  page              \* the protection and type of every page

vmaVars == <<table, page>>

VmaInit ==
  /\ table = EmptyTable(VMA_CAPACITY)
  /\ page = [v \in Pages |-> Unmapped]

Step(t, pg) == table' = t /\ page' = pg

Insert(r, prot, type) ==
  /\ \A v \in PagesOf(r) : page[v] = Unmapped
  /\ Step(vma_insert(table, [va |-> r.va, n |-> r.n, prot |-> prot, type |-> type]),
          [v \in Pages |-> IF v \in PagesOf(r) THEN [prot |-> prot, type |-> type] ELSE page[v]])

Remove(r) ==
  Step(vma_remove(table, r), [v \in Pages |-> IF v \in PagesOf(r) THEN Unmapped ELSE page[v]])

UpdateProt(r, prot) ==
  Step(vma_update_prot(table, r, prot),
       [v \in Pages |-> IF v \in PagesOf(r) /\ page[v] # Unmapped
                        THEN [page[v] EXCEPT !.prot = prot] ELSE page[v]])

Clear == Step(vma_clear(table), [v \in Pages |-> Unmapped])

VmaNext ==
  \/ \E r \in Ranges :
       \/ \E prot \in Prots, type \in Types : Insert(r, prot, type)
       \/ Remove(r)
       \/ \E prot \in Prots : UpdateProt(r, prot)
  \/ Clear

VmaSpec == VmaInit /\ [][VmaNext]_vmaVars

-----------------------------------------------------------------------------
Entry == [va : Pages, n : Pages, prot : Prots, type : Types]

VmaTypeOK ==
  /\ table.slot \in [1..VMA_CAPACITY -> Entry \cup {NoEntry}]
  /\ table.n \in 0..VMA_CAPACITY
  /\ page \in [Pages -> [prot : Prots, type : Types] \cup {Unmapped}]

\* The valid entries are sorted by address and apart (vma_insert's search and
\* the loops of vma_remove and vma_update_prot rely on it).
Sorted == \A k \in 1..table.n - 1 : End(table.slot[k]) <= table.slot[k + 1].va

\* The variables have their types, and the table is sorted and shows every
\* page with its protection and type, and no other page, after any sequence of vma_insert, vma_remove, vma_update_prot and
\* vma_clear.
ShowsPages ==
  /\ VmaTypeOK /\ Sorted
  /\ \A e \in Entries(table), v \in Pages :
       v \in PagesOf(e) => page[v] = [prot |-> e.prot, type |-> e.type]
  /\ \A v \in Pages : page[v] # Unmapped => \E e \in Entries(table) : v \in PagesOf(e)
=============================================================================
