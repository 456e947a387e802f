-------------------------------- MODULE Kva --------------------------------
(***************************************************************************)
(* The kernel's virtual address allocator (mm/kva.c): a bump pointer and a *)
(* free list of ranges, under kva_lock.                                    *)
(***************************************************************************)
EXTENDS RangeList, FiniteSets

CONSTANTS
  KVA_BASE,
  KVA_FREE_MAX,
  MaxAlloc,         \* bound: pages of one allocation
  KvaPages             \* bound: pages the bump pointer may pass

ASSUME KvaAssumption ==
  KVA_BASE \in Nat \ {0} /\ KVA_FREE_MAX \in Nat /\ MaxAlloc \in Nat /\ KvaPages \in Nat

Range == [va : Nat, n : Nat \ {0}]

VARIABLES
  s_free,           \* the free list
  s_kva_next,
  live,             \* the ranges callers hold
  lost,             \* ranges dropped because the free list was full
  kva_panicked

kvaVars == <<s_free, s_kva_next, live, lost, kva_panicked>>

KvaInit ==
  /\ s_free = <<>> /\ s_kva_next = KVA_BASE
  /\ live = {} /\ lost = {} /\ kva_panicked = FALSE

-----------------------------------------------------------------------------
\* kva_alloc_pages: from the free list if anything fits, else by bumping.
\* The pages are mapped afterwards; running out of frames then is a panic.
AllocFree(n) ==
  /\ ~kva_panicked
  /\ \E i \in DOMAIN s_free :
       /\ IsBest(s_free, n, i)
       /\ s_free' = TakeAt(s_free, i, n)
       /\ live' = live \cup {[va |-> s_free[i].va, n |-> n]}
  /\ kva_panicked' \in BOOLEAN
  /\ UNCHANGED <<s_kva_next, lost>>

Bump(n) ==
  /\ s_kva_next + n <= KVA_BASE + KvaPages
  /\ s_kva_next' = s_kva_next + n
  /\ live' = live \cup {[va |-> s_kva_next, n |-> n]}
  /\ UNCHANGED <<s_free, lost>>

AllocBump(n) ==
  /\ ~kva_panicked /\ Fits(s_free, n) = {}
  /\ Bump(n)
  /\ kva_panicked' \in BOOLEAN

\* kva_map_phys_pages always bumps.
MapPhys(n) == ~kva_panicked /\ Bump(n) /\ UNCHANGED kva_panicked

\* freelist_insert, into the first entry that r touches or as a new one.
Mut_Merge(l, i, r) == MergeAfter(l, i, r)
Merge(l, i, r) == IF End(l[i]) = r.va THEN MergeAfter(l, i, r) ELSE MergeBefore(l, i, r)

FreeRange(r) ==
  /\ ~kva_panicked /\ r \in live
  /\ live' = live \ {r}
  /\ \/ /\ Touching(s_free, r) = {}
        /\ s_free' = AddNew(s_free, r, KVA_FREE_MAX)
        /\ lost' = IF Len(s_free) < KVA_FREE_MAX THEN lost ELSE lost \cup {r}
     \/ /\ \E i \in DOMAIN s_free :
             IsFirst(Touching(s_free, r), i) /\ s_free' = Merge(s_free, i, r)
        /\ UNCHANGED lost
  /\ UNCHANGED <<s_kva_next, kva_panicked>>

KvaNext ==
  \/ \E n \in 1..MaxAlloc : AllocFree(n) \/ AllocBump(n) \/ MapPhys(n)
  \/ \E r \in live : FreeRange(r)

KvaSpec == KvaInit /\ [][KvaNext]_kvaVars

-----------------------------------------------------------------------------
KvaTypeOK ==
  /\ s_free \in Seq(Range)
  /\ Len(s_free) <= KVA_FREE_MAX
  /\ s_kva_next \in Nat
  /\ live \subseteq Range /\ lost \subseteq Range
  /\ kva_panicked \in BOOLEAN

\* No address is handed out twice: the ranges callers hold, the free entries
\* and the addresses above the bump pointer never overlap (kva_alloc_pages,
\* kva_free_pages).
NoOverlap ==
  /\ \A i, j \in DOMAIN s_free : i # j => Apart(s_free[i], s_free[j])
  /\ \A i \in DOMAIN s_free, r \in live : Apart(s_free[i], r)
  /\ \A r, q \in live : r # q => Apart(r, q)
  /\ \A i \in DOMAIN s_free : End(s_free[i]) <= s_kva_next
  /\ \A r \in live : End(r) <= s_kva_next

\* No address is forgotten: what was handed out is held, free, or was dropped
\* when the free list was full.
NothingForgotten ==
  KVA_BASE .. s_kva_next - 1 =
    UNION {PagesOf(r) : r \in live \cup lost \cup {s_free[i] : i \in DOMAIN s_free}}
=============================================================================
