-------------------------------- MODULE Pmm --------------------------------
(***************************************************************************)
(* The physical page allocator (mm/pmm.c): the boot map computed from the  *)
(* firmware's regions, and the bitmap and per-page reference counts that   *)
(* alloc, ref and free keep.  Every entry point runs under pmm_lock.       *)
(***************************************************************************)
EXTENDS Integers, FiniteSets

CONSTANTS
  PAGE_SIZE,
  PMM_MAX_PAGES,
  MAX_REFCOUNT,     \* 255: what a uint8_t counts to
  Usable,           \* the sets of usable regions the firmware may report
  Reserved          \* the sets of platform and kernel-image regions

ASSUME PmmAssumption ==
  /\ PAGE_SIZE \in Nat \ {0} /\ PMM_MAX_PAGES \in Nat /\ MAX_REFCOUNT \in Nat \ {0}
  /\ \A rs \in Usable \cup Reserved : \A r \in rs : r.base \in Nat /\ r.len \in Nat
  \* an absent boot module is an empty region at a page boundary
  /\ \A rs \in Reserved : \A r \in rs : r.len = 0 => r.base % PAGE_SIZE = 0

Page == 0..PMM_MAX_PAGES - 1
NoPage == -1

VARIABLES
  pmm_bitmap,       \* pages that are reserved or allocated
  pmm_refcount,
  boot,             \* ghost: the regions of this boot
  reserved,         \* ghost: the pages pmm_init left reserved
  owners,           \* ghost: references handed out and not yet returned
  result,           \* what the last pmm_alloc_page returned
  pmm_panicked

pmmVars == <<pmm_bitmap, pmm_refcount, boot, reserved, owners, result, pmm_panicked>>

-----------------------------------------------------------------------------
Up(a) == ((a + PAGE_SIZE - 1) \div PAGE_SIZE) * PAGE_SIZE
Down(a) == (a \div PAGE_SIZE) * PAGE_SIZE
PagesFrom(start, end) == {i \in Page : start <= i * PAGE_SIZE /\ i * PAGE_SIZE < end}

\* Usable regions shrink to whole pages, reserved ones grow to whole pages.
Mut_FreeRegion(r) == PagesFrom(Down(r.base), Down(r.base + r.len))
FreeRegion(r) ==
  IF Up(r.base) >= r.base + r.len THEN {}
  ELSE PagesFrom(Up(r.base), Down(r.base + r.len))
ReserveRegion(r) == PagesFrom(Down(r.base), Up(r.base + r.len))

BootBitmap(usable, res) ==
  (Page \ UNION {FreeRegion(r) : r \in usable}) \cup UNION {ReserveRegion(r) : r \in res}

PmmInit ==
  /\ boot \in [usable : Usable, reserved : Reserved]
  /\ pmm_bitmap = BootBitmap(boot.usable, boot.reserved)
  /\ reserved = pmm_bitmap
  /\ pmm_refcount = [i \in Page |-> 0]
  /\ owners = [i \in Page |-> 0]
  /\ result = NoPage /\ pmm_panicked = FALSE

-----------------------------------------------------------------------------
Lowest(S) == CHOOSE i \in S : \A j \in S : i <= j

Mut_Alloc ==
  /\ ~pmm_panicked
  /\ \E i \in Page \ pmm_bitmap :
       /\ i = Lowest(Page \ pmm_bitmap)
       /\ pmm_bitmap' = pmm_bitmap \cup {i}
       /\ pmm_refcount' = pmm_refcount
       /\ owners' = [owners EXCEPT ![i] = 1]
       /\ result' = i
  /\ UNCHANGED <<boot, reserved, pmm_panicked>>
Alloc ==
  /\ ~pmm_panicked
  /\ \E i \in Page \ pmm_bitmap :
       /\ i = Lowest(Page \ pmm_bitmap)
       /\ pmm_bitmap' = pmm_bitmap \cup {i}
       /\ pmm_refcount' = [pmm_refcount EXCEPT ![i] = 1]
       /\ owners' = [owners EXCEPT ![i] = @ + 1]
       /\ result' = i
  /\ UNCHANGED <<boot, reserved, pmm_panicked>>

OutOfMemory ==
  /\ ~pmm_panicked /\ Page \subseteq pmm_bitmap
  /\ result' = NoPage
  /\ UNCHANGED <<pmm_bitmap, pmm_refcount, boot, reserved, owners, pmm_panicked>>

\* A sharer of a page that is in use takes another reference.
RefPage(i) ==
  /\ ~pmm_panicked /\ owners[i] > 0
  /\ IF pmm_refcount[i] \in {0, MAX_REFCOUNT}
       THEN pmm_panicked' = TRUE /\ UNCHANGED <<pmm_refcount, owners>>
       ELSE /\ pmm_refcount' = [pmm_refcount EXCEPT ![i] = @ + 1]
            /\ owners' = [owners EXCEPT ![i] = @ + 1]
            /\ UNCHANGED pmm_panicked
  /\ UNCHANGED <<pmm_bitmap, boot, reserved, result>>

\* Owners return their pages.  Tearing down an address space also "frees" the
\* device memory mapped in it, which is reserved and has no reference count.
Frees(i) == i \in pmm_bitmap /\ pmm_refcount[i] # 0
FreePage(i) ==
  /\ ~pmm_panicked /\ (owners[i] > 0 \/ i \in reserved)
  /\ IF Frees(i)
       THEN /\ pmm_refcount' = [pmm_refcount EXCEPT ![i] = @ - 1]
            /\ pmm_bitmap' = IF pmm_refcount'[i] = 0 THEN pmm_bitmap \ {i} ELSE pmm_bitmap
       ELSE UNCHANGED <<pmm_refcount, pmm_bitmap>>
  /\ owners' = IF owners[i] > 0 THEN [owners EXCEPT ![i] = @ - 1] ELSE owners
  /\ UNCHANGED <<boot, reserved, result, pmm_panicked>>

PmmNext == Alloc \/ OutOfMemory \/ \E i \in Page : RefPage(i) \/ FreePage(i)

PmmSpec == PmmInit /\ [][PmmNext]_pmmVars

-----------------------------------------------------------------------------
PmmTypeOK ==
  /\ pmm_bitmap \subseteq Page
  /\ pmm_refcount \in [Page -> 0..MAX_REFCOUNT]
  /\ boot \in [usable : Usable, reserved : Reserved]
  /\ reserved \subseteq Page
  /\ owners \in [Page -> 0..MAX_REFCOUNT]
  /\ result \in Page \cup {NoPage}
  /\ pmm_panicked \in BOOLEAN

Bytes(i) == i * PAGE_SIZE .. (i + 1) * PAGE_SIZE - 1
In(r) == r.base .. r.base + r.len - 1

\* Only whole pages of usable memory that no reserved byte touches are ever
\* handed out, and every such page is (the boot map of pmm_init).
BootMapExact ==
  \A i \in Page :
    i \notin reserved <=>
      /\ \E r \in boot.usable : Bytes(i) \subseteq In(r)
      /\ \A r \in boot.reserved : Bytes(i) \cap In(r) = {}

\* The reference count of a page is the number of its owners, and its bit is
\* set exactly while it is reserved or owned: no page is handed out twice,
\* none is lost, device memory is never freed into the pool, and page 0,
\* the out-of-memory answer, is never handed out where it is reserved.
CountsOwners ==
  /\ \A i \in Page : pmm_refcount[i] = owners[i]
  /\ \A i \in Page : i \in pmm_bitmap <=> (i \in reserved \/ owners[i] > 0)
  /\ \A i \in reserved : owners[i] = 0
  /\ 0 \in reserved => result # 0
=============================================================================
