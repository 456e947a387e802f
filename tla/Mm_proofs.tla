----------------------------- MODULE Mm_proofs -----------------------------
(***************************************************************************)
(* The allocators of the kernel, for every value of their constants.       *)
(*                                                                         *)
(* Physical pages (Pmm): the boot map hands out exactly the whole pages of *)
(* usable memory that no reserved byte touches, and the counts are exact.  *)
(* PmmTypeOK and CountsOwners together are inductive: that a page whose    *)
(* bit is clear has no owner is what makes the count 1 of a fresh page     *)
(* right, and that reserved pages have count 0 is what protects them from  *)
(* FreePage.                                                               *)
(*                                                                         *)
(* Kernel addresses (Kva): none is handed out twice and none is forgotten. *)
(* KvaTypeOK and NoOverlap together are inductive: merging two entries is  *)
(* sound only because every other entry and every live range is apart from *)
(* both.                                                                   *)
(***************************************************************************)
EXTENDS Pmm, Kva, TLAPS

(* ── Physical pages ────────────────────────────────────────────────────── *)

PmmIInv == PmmTypeOK /\ CountsOwners

\* The state pmm_init leaves satisfies the invariant.
LEMMA PmmInitIInv == PmmInit => PmmIInv
<1> SUFFICES ASSUME PmmInit PROVE PmmIInv
    BY Zenon
<1>0. MAX_REFCOUNT \in Nat \ {0}
    BY PmmAssumption, Zenon
<1>1. pmm_bitmap \subseteq Page
  <2>1. \A r : ReserveRegion(r) \subseteq Page
      BY Zenon DEF ReserveRegion, PagesFrom
  <2>2. UNION {ReserveRegion(r) : r \in boot.reserved} \subseteq Page
      BY <2>1, Zenon
  <2> QED BY <2>2, Zenon DEF PmmInit, BootBitmap
<1>2. PmmTypeOK
  <2>1. boot \in [usable : Usable, reserved : Reserved] /\ pmm_panicked \in BOOLEAN
      BY Zenon DEF PmmInit
  <2>2. /\ pmm_refcount \in [Page -> 0..MAX_REFCOUNT] /\ owners \in [Page -> 0..MAX_REFCOUNT]
        /\ reserved \subseteq Page /\ result \in Page \cup {NoPage}
      BY <1>0, <1>1 DEF PmmInit
  <2> QED BY <1>1, <2>1, <2>2, Zenon DEF PmmTypeOK
<1>3. CountsOwners
    BY <1>0, <1>1 DEF PmmInit, CountsOwners, NoPage
<1> QED BY <1>2, <1>3, Zenon DEF PmmIInv

\* Every entry point of the allocator keeps it.
LEMMA PmmNextIInv == PmmIInv /\ [PmmNext]_pmmVars => PmmIInv'
<1> SUFFICES ASSUME PmmIInv, [PmmNext]_pmmVars PROVE PmmIInv'
    BY Zenon
<1> USE DEF PmmIInv
<1>0. MAX_REFCOUNT \in Nat \ {0}
    BY PmmAssumption, Zenon
<1>1. CASE Alloc
  <2> PICK i \in Page \ pmm_bitmap :
        /\ pmm_bitmap' = pmm_bitmap \cup {i}
        /\ pmm_refcount' = [pmm_refcount EXCEPT ![i] = 1]
        /\ owners' = [owners EXCEPT ![i] = @ + 1]
        /\ result' = i
      BY Zenon, <1>1 DEF Alloc
  <2>0. UNCHANGED <<boot, reserved, pmm_panicked>>
      BY <1>1, Zenon DEF Alloc
  <2>1. i \notin reserved /\ owners[i] = 0
      BY <1>0 DEF CountsOwners, PmmTypeOK
  <2>2. PmmTypeOK'
      BY <1>0, <2>0, <2>1 DEF PmmTypeOK
  <2>3. CountsOwners'
      BY <1>0, <2>0, <2>1 DEF PmmTypeOK, CountsOwners
  <2> QED BY <2>2, <2>3, Zenon
<1>2. CASE OutOfMemory
    BY <1>2 DEF OutOfMemory, PmmTypeOK, CountsOwners, NoPage
<1>3. ASSUME NEW i \in Page, RefPage(i) PROVE PmmIInv'
  <2>0. UNCHANGED <<pmm_bitmap, boot, reserved, result>> /\ owners[i] > 0
      BY <1>3, Zenon DEF RefPage
  <2>1. CASE pmm_refcount[i] \in {0, MAX_REFCOUNT}
      BY <1>3, <2>0, <2>1, Zenon DEF RefPage, PmmTypeOK, CountsOwners
  <2>2. CASE pmm_refcount[i] \notin {0, MAX_REFCOUNT}
    <3>1. /\ pmm_refcount' = [pmm_refcount EXCEPT ![i] = @ + 1]
          /\ owners' = [owners EXCEPT ![i] = @ + 1]
          /\ UNCHANGED pmm_panicked
        BY <1>3, <2>2, Zenon DEF RefPage
    <3>2. PmmTypeOK'
        BY <1>0, <2>0, <2>2, <3>1 DEF PmmTypeOK, CountsOwners
    <3>3. CountsOwners'
        BY <1>0, <2>0, <2>2, <3>1 DEF PmmTypeOK, CountsOwners
    <3> QED BY <3>2, <3>3, Zenon
  <2> QED BY <2>1, <2>2, Zenon
<1>4. ASSUME NEW i \in Page, FreePage(i) PROVE PmmIInv'
  <2>0. UNCHANGED <<boot, reserved, result, pmm_panicked>>
      BY <1>4, Zenon DEF FreePage
  <2>1. CASE i \in reserved
      BY <1>0, <1>4, <2>0, <2>1 DEF FreePage, Frees, PmmTypeOK, CountsOwners
  <2>2. CASE i \notin reserved
    <3>1. owners[i] > 0 /\ i \in pmm_bitmap /\ pmm_refcount[i] = owners[i]
        BY <1>4, <2>2, Zenon DEF FreePage, PmmTypeOK, CountsOwners
    <3>2. /\ pmm_refcount' = [pmm_refcount EXCEPT ![i] = @ - 1]
          /\ pmm_bitmap' = IF pmm_refcount'[i] = 0 THEN pmm_bitmap \ {i} ELSE pmm_bitmap
          /\ owners' = [owners EXCEPT ![i] = @ - 1]
        BY <1>0, <1>4, <3>1 DEF FreePage, Frees, PmmTypeOK
    <3>3. PmmTypeOK'
        BY <1>0, <2>0, <3>1, <3>2 DEF PmmTypeOK
    <3>4. CountsOwners'
        BY <1>0, <2>0, <2>2, <3>1, <3>2 DEF PmmTypeOK, CountsOwners
    <3> QED BY <3>3, <3>4, Zenon
  <2> QED BY <2>1, <2>2, Zenon
<1>5. CASE UNCHANGED pmmVars
    BY <1>5, Zenon DEF pmmVars, PmmTypeOK, CountsOwners
<1> QED BY <1>1, <1>2, <1>3, <1>4, <1>5, Zenon DEF PmmNext

\* At all times a page's reference count is its number of owners and its bit
\* is set exactly while it is reserved or owned (mm/pmm.c).
THEOREM OwnersCounted == PmmSpec => []CountsOwners
<1>1. PmmIInv => CountsOwners
    BY Zenon DEF PmmIInv
<1> QED BY PmmInitIInv, PmmNextIInv, <1>1, PTL DEF PmmSpec

\* The variables of the allocator keep their types: no count overflows.
THEOREM PmmTypeCorrect == PmmSpec => []PmmTypeOK
<1>1. PmmIInv => PmmTypeOK
    BY Zenon DEF PmmIInv
<1> QED BY PmmInitIInv, PmmNextIInv, <1>1, PTL DEF PmmSpec

\* Rounding down to whole pages.
LEMMA DownRounds ==
  ASSUME NEW a \in Nat
  PROVE  \E q \in Nat : Down(a) = q * PAGE_SIZE /\ q * PAGE_SIZE <= a /\ a < q * PAGE_SIZE + PAGE_SIZE
<1>1. PAGE_SIZE \in Nat \ {0}
    BY PmmAssumption, Zenon
<1>2. a \div PAGE_SIZE \in Nat /\ a % PAGE_SIZE \in 0..PAGE_SIZE - 1
    BY <1>1
<1>3. a = PAGE_SIZE * (a \div PAGE_SIZE) + (a % PAGE_SIZE)
    BY <1>1
<1>4. PAGE_SIZE * (a \div PAGE_SIZE) = (a \div PAGE_SIZE) * PAGE_SIZE
    BY <1>1, <1>2
<1> QED BY <1>1, <1>2, <1>3, <1>4 DEF Down

\* What is at a page boundary stays there.
LEMMA DownExact ==
  ASSUME NEW a \in Nat, a % PAGE_SIZE = 0
  PROVE  Down(a) = a
<1>1. PAGE_SIZE \in Nat \ {0}
    BY PmmAssumption, Zenon
<1>2. a \div PAGE_SIZE \in Nat /\ a = PAGE_SIZE * (a \div PAGE_SIZE) + (a % PAGE_SIZE)
    BY <1>1
<1> QED BY <1>1, <1>2 DEF Down

\* Rounding up to whole pages.
LEMMA UpRounds ==
  ASSUME NEW a \in Nat
  PROVE  \E q \in Nat : Up(a) = q * PAGE_SIZE /\ a <= q * PAGE_SIZE /\ q * PAGE_SIZE < a + PAGE_SIZE
<1>1. PAGE_SIZE \in Nat \ {0}
    BY PmmAssumption, Zenon
<1>2. a + PAGE_SIZE - 1 \in Nat
    BY <1>1
<1>3. PICK q \in Nat : /\ Down(a + PAGE_SIZE - 1) = q * PAGE_SIZE
                      /\ q * PAGE_SIZE <= a + PAGE_SIZE - 1
                      /\ a + PAGE_SIZE - 1 < q * PAGE_SIZE + PAGE_SIZE
    BY <1>2, DownRounds, Zenon
<1>4. Up(a) = q * PAGE_SIZE
    BY <1>3, Zenon DEF Up, Down
<1>5. q * PAGE_SIZE \in Nat
    BY <1>1
<1> QED BY <1>1, <1>3, <1>4, <1>5

\* Multiples of the page size are a page apart.
LEMMA PagesStep ==
  ASSUME NEW i \in Nat, NEW q \in Nat
  PROVE  /\ i * PAGE_SIZE \in Nat /\ (i + 1) * PAGE_SIZE = i * PAGE_SIZE + PAGE_SIZE
         /\ i * PAGE_SIZE < q * PAGE_SIZE => i * PAGE_SIZE + PAGE_SIZE <= q * PAGE_SIZE
<1>1. PAGE_SIZE \in Nat \ {0}
    BY PmmAssumption, Zenon
<1>2. i * PAGE_SIZE \in Nat /\ (i + 1) * PAGE_SIZE = i * PAGE_SIZE + PAGE_SIZE
    BY <1>1
<1>3. ASSUME i * PAGE_SIZE < q * PAGE_SIZE PROVE i * PAGE_SIZE + PAGE_SIZE <= q * PAGE_SIZE
  <2>1. i < q
    <3>1. ASSUME q <= i PROVE FALSE
      <4>1. PICK d \in Nat : i = q + d
          BY <3>1
      <4>2. i * PAGE_SIZE = q * PAGE_SIZE + d * PAGE_SIZE /\ d * PAGE_SIZE \in Nat /\ q * PAGE_SIZE \in Nat
          BY <1>1, <4>1
      <4> QED BY <1>3, <4>2
    <3> QED BY <3>1
  <2>2. PICK d \in Nat : q = i + 1 + d
      BY <2>1
  <2>3. q * PAGE_SIZE = (i + 1) * PAGE_SIZE + d * PAGE_SIZE /\ d * PAGE_SIZE \in Nat
      BY <1>1, <2>2
  <2> QED BY <1>1, <1>2, <2>3
<1> QED BY <1>2, <1>3, Zenon

\* pmm_free_region frees a page exactly if all of it is usable.
LEMMA FreesWhole ==
  ASSUME NEW r, r.base \in Nat, r.len \in Nat, NEW i \in Page
  PROVE  i \in FreeRegion(r) <=> Bytes(i) \subseteq In(r)
<1> DEFINE P == PAGE_SIZE
           lo == i * P
           end == r.base + r.len
<1>1. P \in Nat \ {0} /\ i \in Nat /\ end \in Nat
    BY PmmAssumption DEF Page
<1>2. PICK u \in Nat : Up(r.base) = u * P /\ r.base <= u * P /\ u * P < r.base + P
    BY UpRounds, Zenon
<1>3. PICK d \in Nat : Down(end) = d * P /\ d * P <= end /\ end < d * P + P
    BY <1>1, DownRounds, Zenon
<1>4. /\ lo \in Nat /\ (i + 1) * P = lo + P /\ u * P \in Nat /\ d * P \in Nat
      /\ (lo < u * P => lo + P <= u * P) /\ (lo < d * P => lo + P <= d * P)
    BY <1>1, PagesStep, Zenon
<1>5. Bytes(i) = lo .. lo + P - 1 /\ In(r) = r.base .. end - 1
  <2>1. Bytes(i) = lo .. (i + 1) * P - 1
      BY Zenon DEF Bytes
  <2>2. In(r) = r.base .. r.base + r.len - 1
      BY Zenon DEF In
  <2>3. (i + 1) * P - 1 = lo + P - 1 /\ r.base + r.len - 1 = end - 1
      BY <1>1, <1>4
  <2> QED BY <2>1, <2>2, <2>3, Zenon
<1>6. i \in FreeRegion(r) <=> ~(u * P >= end) /\ u * P <= lo /\ lo < d * P
    BY <1>2, <1>3, Zenon DEF FreeRegion, PagesFrom
<1> HIDE DEF lo, end
<1>7. Bytes(i) \subseteq In(r) <=> r.base <= lo /\ lo + P <= end
  <2>1. lo \in Bytes(i) /\ lo + P - 1 \in Bytes(i)
      BY <1>1, <1>4, <1>5
  <2>2. Bytes(i) \subseteq In(r) => r.base <= lo /\ lo + P <= end
      BY <1>1, <1>4, <1>5, <2>1
  <2>3. r.base <= lo /\ lo + P <= end => Bytes(i) \subseteq In(r)
      BY <1>1, <1>4, <1>5
  <2> QED BY <2>2, <2>3, Zenon
<1>8. u * P <= lo <=> r.base <= lo
    BY <1>1, <1>2, <1>4
<1>9. lo < d * P <=> lo + P <= end
    BY <1>1, <1>3, <1>4
<1> QED BY <1>1, <1>2, <1>3, <1>4, <1>6, <1>7, <1>8, <1>9

\* pmm_reserve_region reserves a page exactly if some byte of it is reserved.
LEMMA ReservesTouched ==
  ASSUME NEW r, r.base \in Nat, r.len \in Nat, r.len = 0 => r.base % PAGE_SIZE = 0, NEW i \in Page
  PROVE  i \in ReserveRegion(r) <=> Bytes(i) \cap In(r) # {}
<1> DEFINE P == PAGE_SIZE
           lo == i * P
           end == r.base + r.len
<1>1. P \in Nat \ {0} /\ i \in Nat /\ end \in Nat
    BY PmmAssumption DEF Page
<1>2. PICK d \in Nat : Down(r.base) = d * P /\ d * P <= r.base /\ r.base < d * P + P
    BY DownRounds, Zenon
<1>3. PICK u \in Nat : Up(end) = u * P /\ end <= u * P /\ u * P < end + P
    BY <1>1, UpRounds, Zenon
<1>4. /\ lo \in Nat /\ (i + 1) * P = lo + P /\ u * P \in Nat /\ d * P \in Nat
      /\ (lo < u * P => lo + P <= u * P) /\ (lo < d * P => lo + P <= d * P)
      /\ (d * P < lo => d * P + P <= lo) /\ (u * P < lo => u * P + P <= lo)
      /\ (d * P < u * P => d * P + P <= u * P)
    BY <1>1, PagesStep, Zenon
<1>5. Bytes(i) = lo .. lo + P - 1 /\ In(r) = r.base .. end - 1
  <2>1. Bytes(i) = lo .. (i + 1) * P - 1
      BY Zenon DEF Bytes
  <2>2. In(r) = r.base .. r.base + r.len - 1
      BY Zenon DEF In
  <2>3. (i + 1) * P - 1 = lo + P - 1 /\ r.base + r.len - 1 = end - 1
      BY <1>1, <1>4
  <2> QED BY <2>1, <2>2, <2>3, Zenon
<1>6. i \in ReserveRegion(r) <=> d * P <= lo /\ lo < u * P
    BY <1>2, <1>3, Zenon DEF ReserveRegion, PagesFrom
<1>0. r.len = 0 => r.base = d * P
    BY <1>2, DownExact, Zenon
<1> HIDE DEF lo, end
<1>7. Bytes(i) \cap In(r) # {} <=> r.base < lo + P /\ lo < end /\ r.base < end
  <2>1. ASSUME Bytes(i) \cap In(r) # {} PROVE r.base < lo + P /\ lo < end /\ r.base < end
    <3>1. PICK b : b \in lo .. lo + P - 1 /\ b \in r.base .. end - 1
        BY <1>5, <2>1, Zenon
    <3> QED BY <1>1, <1>4, <3>1
  <2>2. ASSUME r.base < lo + P, lo < end, r.base < end PROVE Bytes(i) \cap In(r) # {}
    <3>1. CASE r.base <= lo
      <4>1. lo \in Bytes(i) /\ lo \in In(r)
          BY <1>1, <1>4, <1>5, <2>2, <3>1
      <4> QED BY <4>1, Zenon
    <3>2. CASE lo < r.base
      <4>1. r.base \in Bytes(i) /\ r.base \in In(r)
          BY <1>1, <1>4, <1>5, <2>2, <3>2
      <4> QED BY <4>1, Zenon
    <3> QED BY <1>4, <3>1, <3>2
  <2> QED BY <2>1, <2>2, Zenon
<1>8. d * P <= lo <=> r.base < lo + P
    BY <1>1, <1>2, <1>4
<1>9. lo < u * P <=> lo < end
    BY <1>1, <1>3, <1>4
<1>10. r.len # 0 => r.base < end
    BY <1>1 DEF end
<1>11. r.len = 0 => ~(d * P <= lo /\ lo < u * P)
  <2>1. r.len = 0 => end = d * P
      BY <1>0, <1>1 DEF end
  <2> QED BY <1>1, <1>3, <1>4, <1>9, <2>1
<1>12. r.len = 0 => ~(r.base < end)
    BY <1>1 DEF end
<1> QED BY <1>6, <1>7, <1>8, <1>9, <1>10, <1>11, <1>12, Zenon

\* pmm_init hands out exactly the whole pages of usable memory that no
\* reserved byte touches, and nothing changes that afterwards.
THEOREM BootMap == PmmSpec => []BootMapExact
<1>1. PmmInit => BootMapExact
  <2> SUFFICES ASSUME PmmInit, NEW i \in Page
               PROVE  i \notin reserved <=>
                        /\ \E r \in boot.usable : Bytes(i) \subseteq In(r)
                        /\ \A r \in boot.reserved : Bytes(i) \cap In(r) = {}
      BY Zenon DEF BootMapExact
  <2>1. boot.usable \in Usable /\ boot.reserved \in Reserved
      BY Zenon DEF PmmInit
  <2>2. \A r \in boot.usable : r.base \in Nat /\ r.len \in Nat
      BY <2>1, PmmAssumption, Zenon
  <2>3. \A r \in boot.reserved : r.base \in Nat /\ r.len \in Nat /\ (r.len = 0 => r.base % PAGE_SIZE = 0)
      BY <2>1, PmmAssumption, Zenon
  <2>4. \A r \in boot.usable : i \in FreeRegion(r) <=> Bytes(i) \subseteq In(r)
      BY <2>2, FreesWhole, Zenon
  <2>5. \A r \in boot.reserved : i \in ReserveRegion(r) <=> Bytes(i) \cap In(r) # {}
      BY <2>3, ReservesTouched, Zenon
  <2>6. reserved = (Page \ UNION {FreeRegion(r) : r \in boot.usable})
                     \cup UNION {ReserveRegion(r) : r \in boot.reserved}
      BY Zenon DEF PmmInit, BootBitmap
  <2>7. i \notin reserved <=> /\ \E r \in boot.usable : i \in FreeRegion(r)
                              /\ \A r \in boot.reserved : i \notin ReserveRegion(r)
      BY <2>6, Zenon
  <2> QED BY <2>4, <2>5, <2>7, Zenon
<1>2. BootMapExact /\ [PmmNext]_pmmVars => BootMapExact'
  <2> SUFFICES ASSUME BootMapExact, [PmmNext]_pmmVars PROVE BootMapExact'
      BY Zenon
  <2>1. UNCHANGED <<boot, reserved>>
      BY Zenon DEF PmmNext, Alloc, OutOfMemory, RefPage, FreePage, pmmVars
  <2> QED BY <2>1, Zenon DEF BootMapExact, Bytes, In
<1> QED BY <1>1, <1>2, PTL DEF PmmSpec

(* ── Kernel virtual addresses ──────────────────────────────────────────── *)

KvaIInv == KvaTypeOK /\ NoOverlap

\* Removing entry i leaves the other entries, each once.
LEMMA DropAtKeeps ==
  ASSUME NEW l \in Seq(Range), NEW i \in DOMAIN l
  PROVE  /\ DropAt(l, i) \in Seq(Range)
         /\ Len(DropAt(l, i)) = Len(l) - 1
         /\ DOMAIN DropAt(l, i) = 1..Len(l) - 1
         /\ \A k \in 1..Len(l) - 1 :
              DropAt(l, i)[k] = l[IF k = i THEN Len(l) ELSE k]
<1>1. Len(l) \in Nat /\ DOMAIN l = 1..Len(l) /\ i \in 1..Len(l)
    OBVIOUS
<1>2. \A k \in 1..Len(l) - 1 : l[IF k = i THEN Len(l) ELSE k] \in Range
    BY <1>1
<1>3. DropAt(l, i) \in [1..Len(l) - 1 -> Range]
    BY <1>1, <1>2, Zenon DEF DropAt
<1>4. Len(l) - 1 \in Nat
    BY <1>1
<1> QED BY <1>1, <1>3, <1>4 DEF DropAt

\* What the entries of a list are apart from, after one is dropped.
LEMMA DropAtApart ==
  ASSUME NEW l \in Seq(Range), NEW i \in DOMAIN l,
         \A j, k \in DOMAIN l \ {i} : j # k => Apart(l[j], l[k])
  PROVE  \A j, k \in DOMAIN DropAt(l, i) : j # k => Apart(DropAt(l, i)[j], DropAt(l, i)[k])
<1> SUFFICES ASSUME NEW j \in 1..Len(l) - 1, NEW k \in 1..Len(l) - 1, j # k
             PROVE  Apart(DropAt(l, i)[j], DropAt(l, i)[k])
    BY Zenon, DropAtKeeps
<1> DEFINE src(x) == IF x = i THEN Len(l) ELSE x
<1>1. src(j) \in DOMAIN l \ {i} /\ src(k) \in DOMAIN l \ {i} /\ src(j) # src(k)
    OBVIOUS
<1>2. DropAt(l, i)[j] = l[src(j)] /\ DropAt(l, i)[k] = l[src(k)]
    BY DropAtKeeps, Zenon
<1> QED BY <1>1, <1>2, Zenon

\* Every entry that is left was an entry other than i.
LEMMA DropAtFrom ==
  ASSUME NEW l \in Seq(Range), NEW i \in DOMAIN l, NEW k \in DOMAIN DropAt(l, i)
  PROVE  \E j \in DOMAIN l \ {i} : DropAt(l, i)[k] = l[j]
<1>1. k \in 1..Len(l) - 1
    BY DropAtKeeps, Zenon
<1>2. DropAt(l, i)[k] = l[IF k = i THEN Len(l) ELSE k]
    BY Zenon, <1>1, DropAtKeeps
<1>3. CASE k = i
    BY <1>1, <1>2, <1>3
<1>4. CASE k # i
    BY <1>1, <1>2, <1>4
<1> QED BY <1>3, <1>4, Zenon

\* kva_init.
LEMMA KvaInitIInv == KvaInit => KvaIInv
<1> SUFFICES ASSUME KvaInit PROVE KvaIInv
    BY Zenon
<1>1. s_free = <<>> /\ live = {} /\ lost = {}
    BY Zenon DEF KvaInit
<1>2. s_kva_next \in Nat /\ KVA_FREE_MAX \in Nat
    BY KvaAssumption, Zenon DEF KvaInit
<1>3. kva_panicked \in BOOLEAN
    BY Zenon DEF KvaInit
<1>4. s_free \in Seq(Range) /\ Len(s_free) = 0 /\ DOMAIN s_free = {}
    BY <1>1
<1>5. KvaTypeOK
    BY <1>1, <1>2, <1>3, <1>4 DEF KvaTypeOK
<1>6. NoOverlap
    BY <1>1, <1>4, Zenon DEF NoOverlap
<1> QED BY <1>5, <1>6, Zenon DEF KvaIInv

\* What is apart from a range is apart from every range inside it.
LEMMA InnerApart ==
  ASSUME NEW a \in Range, NEW b \in Range, a.va <= b.va, End(b) = End(a),
         NEW q \in Range, Apart(a, q)
  PROVE  Apart(b, q) /\ Apart(q, b)
<1>1. /\ a.va \in Nat /\ a.n \in Nat \ {0} /\ b.va \in Nat /\ b.n \in Nat \ {0}
      /\ q.va \in Nat /\ q.n \in Nat \ {0}
    BY Zenon DEF Range
<1>2. a.va + a.n <= q.va \/ q.va + q.n <= a.va
    BY Zenon DEF Apart, End
<1>3. b.va + b.n = a.va + a.n
    BY Zenon DEF End
<1> QED BY <1>1, <1>2, <1>3 DEF Apart, End

\* Taking n pages from entry i: what is taken and what is left lay in entry i.
LEMMA TakeKeeps ==
  ASSUME KvaIInv, NEW i \in DOMAIN s_free, NEW n \in Nat \ {0}, s_free[i].n >= n,
         s_free' = TakeAt(s_free, i, n),
         live' = live \cup {[va |-> s_free[i].va, n |-> n]},
         UNCHANGED <<s_kva_next, lost>>, kva_panicked' \in BOOLEAN
  PROVE  KvaIInv'
<1> DEFINE new == [va |-> s_free[i].va, n |-> n]
<1> USE DEF KvaIInv
<1>0. s_free \in Seq(Range) /\ s_free[i] \in Range /\ i \in 1..Len(s_free)
    BY DEF KvaTypeOK
<1>1. new \in Range /\ End(new) <= End(s_free[i]) /\ End(new) <= s_kva_next
    BY <1>0 DEF KvaTypeOK, NoOverlap, Range, End
<1>2. \A r \in live : Apart(new, r)
    BY <1>0, <1>1 DEF KvaTypeOK, NoOverlap, Range, Apart, End
<1>3. \A j \in DOMAIN s_free \ {i} : Apart(new, s_free[j])
  <2> TAKE j \in DOMAIN s_free \ {i}
  <2>1. s_free[j] \in Range /\ Apart(s_free[i], s_free[j])
      BY <1>0 DEF NoOverlap
  <2> QED BY <1>0, <1>1, <2>1 DEF Range, Apart, End
<1>4. \A r, q \in live' : r # q => Apart(r, q)
    BY <1>2, Zenon DEF NoOverlap, Apart
<1>5. \A r \in live' : End(r) <= s_kva_next'
    BY <1>1, Zenon DEF NoOverlap
<1>6. CASE s_free[i].n = n
  <2>1. s_free' = DropAt(s_free, i)
      BY <1>6, Zenon DEF TakeAt
  <2>2. KvaTypeOK'
    <3>1. s_free' \in Seq(Range) /\ Len(s_free') = Len(s_free) - 1
        BY <1>0, <2>1, DropAtKeeps, Zenon
    <3>2. Len(s_free') <= KVA_FREE_MAX
        BY <1>0, <3>1, KvaAssumption DEF KvaTypeOK
    <3> QED BY <1>1, <3>1, <3>2, Zenon DEF KvaTypeOK
  <2>3. \A j, k \in DOMAIN s_free' : j # k => Apart(s_free'[j], s_free'[k])
    <3>1. \A j, k \in DOMAIN s_free \ {i} : j # k => Apart(s_free[j], s_free[k])
        BY Zenon DEF NoOverlap
    <3>2. \A j, k \in DOMAIN DropAt(s_free, i) :
            j # k => Apart(DropAt(s_free, i)[j], DropAt(s_free, i)[k])
        BY <1>0, <3>1, DropAtApart, Zenon
    <3> QED BY <2>1, <3>2, Zenon
  <2>4. \A k \in DOMAIN s_free' : \E j \in DOMAIN s_free \ {i} : s_free'[k] = s_free[j]
      BY <1>0, <2>1, DropAtFrom
  <2>5. \A k \in DOMAIN s_free', r \in live' : Apart(s_free'[k], r)
      BY <1>3, <2>4, Zenon DEF NoOverlap, Apart
  <2>6. \A k \in DOMAIN s_free' : End(s_free'[k]) <= s_kva_next'
      BY <2>4, Zenon DEF NoOverlap
  <2> QED BY <1>4, <1>5, <2>2, <2>3, <2>5, <2>6, Zenon DEF NoOverlap
<1>7. CASE s_free[i].n # n
  <2> DEFINE rest == [va |-> s_free[i].va + n, n |-> s_free[i].n - n]
  <2>1. s_free' = [s_free EXCEPT ![i] = rest]
      BY <1>7, Zenon DEF TakeAt
  <2>2. rest \in Range /\ End(rest) = End(s_free[i]) /\ Apart(rest, new)
      BY <1>0, <1>7 DEF Range, End, Apart
  <2>3. s_free' \in Seq(Range) /\ Len(s_free') = Len(s_free) /\ DOMAIN s_free' = DOMAIN s_free
      BY <1>0, <2>1, <2>2
  <2>4. KvaTypeOK'
      BY <1>1, <2>3, Zenon DEF KvaTypeOK
  <2>5. \A q \in Range : Apart(s_free[i], q) => Apart(rest, q) /\ Apart(q, rest)
    <3>1. s_free[i] \in Range /\ s_free[i].va <= rest.va
        BY <1>0 DEF Range
    <3> QED BY <2>2, <3>1, InnerApart, Zenon
  <2>6. s_free'[i] = rest /\ \A k \in DOMAIN s_free \ {i} : s_free'[k] = s_free[k]
      BY <1>0, <2>1, Zenon
  <2>7. \A k \in DOMAIN s_free : s_free[k] \in Range
      BY <1>0
  <2>8. \A j, k \in DOMAIN s_free' : j # k => Apart(s_free'[j], s_free'[k])
    <3> SUFFICES ASSUME NEW j \in DOMAIN s_free, NEW k \in DOMAIN s_free, j # k
                 PROVE  Apart(s_free'[j], s_free'[k])
        BY <2>3, Zenon
    <3>1. Apart(s_free[j], s_free[k]) /\ Apart(s_free[k], s_free[j])
        BY Zenon DEF NoOverlap
    <3> QED BY <2>5, <2>6, <2>7, <3>1, Zenon
  <2>9. \A k \in DOMAIN s_free', r \in live' : Apart(s_free'[k], r)
    <3> SUFFICES ASSUME NEW k \in DOMAIN s_free, NEW r \in live'
                 PROVE  Apart(s_free'[k], r)
        BY <2>3, Zenon
    <3>1. CASE r = new
        BY <1>3, <2>2, <2>6, <3>1, Zenon DEF Apart
    <3>2. CASE r \in live
        BY <2>5, <2>6, <3>2, Zenon DEF NoOverlap, KvaTypeOK
    <3> QED BY <3>1, <3>2, Zenon
  <2>10. \A k \in DOMAIN s_free' : End(s_free'[k]) <= s_kva_next'
      BY <2>2, <2>3, <2>6, Zenon DEF NoOverlap
  <2> QED BY <1>4, <1>5, <2>4, <2>8, <2>9, <2>10, Zenon DEF NoOverlap
<1> QED BY <1>6, <1>7, Zenon

Join(a, b) == [va |-> a.va, n |-> a.n + b.n]
PairwiseApart(l) == \A j, k \in DOMAIN l : j # k => Apart(l[j], l[k])

\* Joining two ranges that touch covers just the two.
LEMMA JoinCovers ==
  ASSUME NEW a \in Range, NEW b \in Range, End(a) = b.va
  PROVE  /\ Join(a, b) \in Range
         /\ End(Join(a, b)) = End(b)
         /\ \A q \in Range : Apart(a, q) /\ Apart(b, q) =>
              Apart(Join(a, b), q) /\ Apart(q, Join(a, b))
BY DEF Join, Range, End, Apart

\* Growing one entry into space that no other entry holds.
LEMMA GrowKeeps ==
  ASSUME NEW l \in Seq(Range), PairwiseApart(l), NEW i \in DOMAIN l, NEW x \in Range,
         \A k \in DOMAIN l \ {i} : Apart(x, l[k])
  PROVE  LET m == [l EXCEPT ![i] = x] IN
         /\ m \in Seq(Range) /\ Len(m) = Len(l) /\ DOMAIN m = DOMAIN l
         /\ m[i] = x /\ \A k \in DOMAIN l \ {i} : m[k] = l[k]
         /\ PairwiseApart(m)
<1> DEFINE m == [l EXCEPT ![i] = x]
<1>1. m \in Seq(Range) /\ Len(m) = Len(l) /\ DOMAIN m = DOMAIN l
    OBVIOUS
<1>2. m[i] = x /\ \A k \in DOMAIN l \ {i} : m[k] = l[k]
    BY Zenon
<1>3. PairwiseApart(m)
    BY <1>1, <1>2, Zenon DEF PairwiseApart, Apart
<1> QED BY <1>1, <1>2, <1>3, Zenon

\* What freelist_insert may do to the list: it stays a list of ranges that are
\* apart, and what was apart from r and from every entry still is.
Inserted(l, m, r) ==
  /\ m \in Seq(Range) /\ PairwiseApart(m)
  /\ \A k \in DOMAIN m :
       /\ \A q \in Range : Apart(r, q) /\ (\A j \in DOMAIN l : Apart(l[j], q)) => Apart(m[k], q)
       /\ End(m[k]) = End(r) \/ \E j \in DOMAIN l : End(m[k]) = End(l[j])

\* A range that touches no entry.
LEMMA AppendInserts ==
  ASSUME NEW l \in Seq(Range), PairwiseApart(l), NEW r \in Range,
         \A k \in DOMAIN l : Apart(l[k], r)
  PROVE  Inserted(l, Append(l, r), r)
<1> DEFINE m == Append(l, r)
<1>1. m \in Seq(Range) /\ DOMAIN m = 1..Len(l) + 1 /\ DOMAIN l = 1..Len(l) /\ Len(l) \in Nat
    OBVIOUS
<1>2. m[Len(l) + 1] = r /\ \A k \in DOMAIN l : m[k] = l[k]
    OBVIOUS
<1>3. \A k \in DOMAIN m : k = Len(l) + 1 \/ k \in DOMAIN l
    BY <1>1
<1>4. PairwiseApart(m)
    BY <1>2, <1>3, Zenon DEF PairwiseApart, Apart
<1> QED BY <1>1, <1>2, <1>3, <1>4, Zenon DEF Inserted

\* A range that entry i continues.
LEMMA MergeBeforeInserts ==
  ASSUME NEW l \in Seq(Range), PairwiseApart(l), NEW r \in Range, NEW i \in DOMAIN l,
         \A k \in DOMAIN l : Apart(l[k], r), End(r) = l[i].va
  PROVE  Inserted(l, MergeBefore(l, i, r), r) /\ Len(MergeBefore(l, i, r)) = Len(l)
<1> DEFINE x == Join(r, l[i])
           m == [l EXCEPT ![i] = x]
<1>0. l[i] \in Range /\ \A k \in DOMAIN l : l[k] \in Range
    OBVIOUS
<1>1. MergeBefore(l, i, r) = m
  <2>1. x = [va |-> r.va, n |-> l[i].n + r.n]
      BY <1>0 DEF Join, Range
  <2> QED BY <2>1, Zenon DEF MergeBefore
<1>2. x \in Range /\ End(x) = End(l[i])
    BY <1>0, JoinCovers, Zenon
<1>3. \A q \in Range : Apart(r, q) /\ Apart(l[i], q) => Apart(x, q)
    BY <1>0, JoinCovers, Zenon
<1>4. \A k \in DOMAIN l \ {i} : Apart(x, l[k])
    BY <1>0, <1>3, Zenon DEF PairwiseApart, Apart
<1> HIDE DEF x
<1>5. /\ m \in Seq(Range) /\ Len(m) = Len(l) /\ DOMAIN m = DOMAIN l
      /\ m[i] = x /\ \A k \in DOMAIN l \ {i} : m[k] = l[k]
      /\ PairwiseApart(m)
    BY <1>2, <1>4, GrowKeeps, Zenon
<1> QED BY <1>1, <1>2, <1>3, <1>5, Zenon DEF Inserted

\* At most one entry begins at a given address.
LEMMA OneFollows ==
  ASSUME NEW l \in Seq(Range), PairwiseApart(l), NEW J, J \subseteq DOMAIN l, J # {},
         \A c, d \in J : l[c].va = l[d].va
  PROVE  First(J) \in J
<1>1. PICK c \in J : TRUE
    BY Zenon
<1>2. \A d \in J : d = c
  <2> SUFFICES ASSUME NEW d \in J, d # c PROVE FALSE
      BY Zenon
  <2>1. c \in DOMAIN l /\ d \in DOMAIN l /\ l[c].va = l[d].va
      BY Zenon
  <2>2. Apart(l[c], l[d]) /\ l[c] \in Range /\ l[d] \in Range
      BY <2>1 DEF PairwiseApart
  <2> QED BY <2>1, <2>2 DEF Apart, Range, End
<1>3. c \in Nat
    OBVIOUS
<1>4. IsFirst(J, c)
    BY <1>1, <1>2, <1>3 DEF IsFirst
<1> QED BY <1>4, Zenon DEF First, IsFirst

\* A range that continues entry i: the one entry that follows, if there is
\* one, is joined as well and dropped.
LEMMA MergeAfterInserts ==
  ASSUME NEW l \in Seq(Range), PairwiseApart(l), NEW r \in Range, NEW i \in DOMAIN l,
         \A k \in DOMAIN l : Apart(l[k], r), End(l[i]) = r.va
  PROVE  Inserted(l, MergeAfter(l, i, r), r) /\ Len(MergeAfter(l, i, r)) <= Len(l)
<1> DEFINE x == Join(l[i], r)
           m == [l EXCEPT ![i] = x]
           J == {j \in DOMAIN l \ {i} : l[j].va = End(m[i])}
<1>0. l[i] \in Range /\ \A k \in DOMAIN l : l[k] \in Range
    OBVIOUS
<1>2. x \in Range /\ End(x) = End(r)
    BY <1>0, JoinCovers, Zenon
<1>3. \A q \in Range : Apart(r, q) /\ Apart(l[i], q) => Apart(x, q)
    BY <1>0, JoinCovers, Zenon
<1>4. \A k \in DOMAIN l \ {i} : Apart(x, l[k])
    BY <1>0, <1>3, Zenon DEF PairwiseApart, Apart
<1>m. m = [l EXCEPT ![i] = [va |-> l[i].va, n |-> l[i].n + r.n]]
    BY Zenon DEF Join
<1> HIDE DEF x
<1>5. /\ m \in Seq(Range) /\ Len(m) = Len(l) /\ DOMAIN m = DOMAIN l
      /\ m[i] = x /\ \A k \in DOMAIN l \ {i} : m[k] = l[k]
      /\ PairwiseApart(m)
    BY <1>2, <1>4, GrowKeeps, Zenon
<1> HIDE DEF m
<1>6. CASE J = {}
  <2>1. MergeAfter(l, i, r) = m
      BY <1>6, <1>m, Zenon DEF MergeAfter
  <2> QED BY <1>2, <1>3, <1>5, <2>1 DEF Inserted
<1>7. CASE J # {}
  <2> DEFINE j == First(J)
             y == Join(x, l[j])
             m2 == [m EXCEPT ![i] = y]
  <2>4. j \in J
    <3>1. J \subseteq DOMAIN l /\ \A c, d \in J : l[c].va = l[d].va
        BY Zenon
    <3> HIDE DEF J
    <3> QED BY <1>7, <3>1, OneFollows, Zenon
  <2> HIDE DEF j
  <2>5. j \in DOMAIN l \ {i} /\ l[j] \in Range /\ l[j].va = End(x)
      BY <1>0, <1>5, <2>4, Zenon
  <2>6. y \in Range /\ End(y) = End(l[j])
      BY <1>2, <2>5, JoinCovers, Zenon
  <2>7. \A q \in Range : Apart(x, q) /\ Apart(l[j], q) => Apart(y, q) /\ Apart(q, y)
      BY <1>2, <2>5, JoinCovers, Zenon
  <2>y. y = [va |-> m[i].va, n |-> m[i].n + m[j].n]
      BY <1>5, <2>5, Zenon DEF Join
  <2> HIDE DEF y
  <2>8. MergeAfter(l, i, r) = DropAt(m2, j)
      BY Zenon, <1>7, <1>m, <2>y DEF MergeAfter, m, j
  <2>9. m2 \in Seq(Range) /\ Len(m2) = Len(l) /\ DOMAIN m2 = DOMAIN l
      BY <1>5, <2>6
  <2>10. m2[i] = y /\ \A k \in DOMAIN l \ {i} : m2[k] = l[k]
      BY <1>5, Zenon
  <2> HIDE DEF m2
  <2>11. \A k \in DOMAIN l \ {i, j} : Apart(y, l[k]) /\ Apart(l[k], y)
      BY <1>0, <1>4, <2>5, <2>7, Zenon DEF PairwiseApart
  <2>12. \A k, h \in DOMAIN m2 \ {j} : k # h => Apart(m2[k], m2[h])
      BY <2>9, <2>10, <2>11, Zenon DEF PairwiseApart
  <2>13. PairwiseApart(DropAt(m2, j))
      BY Zenon, <2>5, <2>9, <2>12, DropAtApart DEF PairwiseApart
  <2>14. DropAt(m2, j) \in Seq(Range) /\ Len(DropAt(m2, j)) = Len(l) - 1
      BY Zenon, <2>5, <2>9, DropAtKeeps
  <2>15. \A k \in DOMAIN DropAt(m2, j) : \E h \in DOMAIN l \ {j} : DropAt(m2, j)[k] = m2[h]
      BY <2>5, <2>9, DropAtFrom
  <2>16. \A h \in DOMAIN l : \A q \in Range :
           Apart(r, q) /\ (\A d \in DOMAIN l : Apart(l[d], q)) => Apart(m2[h], q)
      BY <1>3, <2>5, <2>7, <2>10, Zenon
  <2>17. \A h \in DOMAIN l : \E d \in DOMAIN l : End(m2[h]) = End(l[d])
      BY <2>5, <2>6, <2>10, Zenon
  <2> DEFINE f == DropAt(m2, j)
  <2>18. \A k \in DOMAIN f : \A q \in Range :
           Apart(r, q) /\ (\A d \in DOMAIN l : Apart(l[d], q)) => Apart(f[k], q)
      BY <2>15, <2>16, Zenon
  <2>19. \A k \in DOMAIN f : \E d \in DOMAIN l : End(f[k]) = End(l[d])
    <3> TAKE k \in DOMAIN f
    <3>1. PICK h \in DOMAIN l : f[k] = m2[h]
        BY <2>15, Zenon
    <3>2. PICK d \in DOMAIN l : End(m2[h]) = End(l[d])
        BY <2>17, Zenon
    <3> QED BY <3>1, <3>2, Zenon
  <2> HIDE DEF f
  <2>20. Len(f) <= Len(l)
    <3>1. Len(l) \in Nat /\ Len(f) = Len(l) - 1
        BY <2>14 DEF f
    <3> QED BY <3>1
  <2>21. f \in Seq(Range) /\ PairwiseApart(f)
      BY <2>13, <2>14, Zenon DEF f
  <2>22. Inserted(l, f, r)
      BY <2>18, <2>19, <2>21, Zenon DEF Inserted
  <2> QED BY <2>8, <2>20, <2>22, Zenon DEF f
<1> QED BY <1>6, <1>7, Zenon

\* Page p lies in an entry of the list.
Holds(l, p) == \E k \in DOMAIN l : p \in PagesOf(l[k])

\* Dropping entry i gives up its pages and no others.
LEMMA DropAtHolds ==
  ASSUME NEW l \in Seq(Range), NEW i \in DOMAIN l, NEW p
  PROVE  Holds(DropAt(l, i), p) <=> \E j \in DOMAIN l \ {i} : p \in PagesOf(l[j])
<1> DEFINE f == DropAt(l, i)
<1>1. /\ DOMAIN f = 1..Len(l) - 1 /\ Len(l) \in Nat /\ DOMAIN l = 1..Len(l)
      /\ \A k \in 1..Len(l) - 1 : f[k] = l[IF k = i THEN Len(l) ELSE k]
    BY DropAtKeeps
<1>2. ASSUME Holds(f, p) PROVE \E j \in DOMAIN l \ {i} : p \in PagesOf(l[j])
  <2>1. PICK k \in DOMAIN f : p \in PagesOf(f[k])
      BY <1>2, Zenon DEF Holds
  <2>2. PICK j \in DOMAIN l \ {i} : f[k] = l[j]
      BY <2>1, DropAtFrom
  <2> QED BY <2>1, <2>2, Zenon
<1>3. ASSUME NEW j \in DOMAIN l \ {i}, p \in PagesOf(l[j]) PROVE Holds(f, p)
  <2> DEFINE k == IF j = Len(l) THEN i ELSE j
  <2>1. k \in 1..Len(l) - 1 /\ (IF k = i THEN Len(l) ELSE k) = j
      BY <1>1
  <2>2. k \in DOMAIN f /\ f[k] = l[j]
      BY <1>1, <2>1, Zenon
  <2> QED BY <1>3, <2>2, Zenon DEF Holds
<1> QED BY <1>2, <1>3, Zenon

\* Writing entry i gives its pages up for those of the new range.
LEMMA PutHolds ==
  ASSUME NEW l \in Seq(Range), NEW i \in DOMAIN l, NEW x \in Range, NEW p
  PROVE  Holds([l EXCEPT ![i] = x], p) <=>
           p \in PagesOf(x) \/ \E j \in DOMAIN l \ {i} : p \in PagesOf(l[j])
<1> DEFINE f == [l EXCEPT ![i] = x]
<1>1. DOMAIN f = DOMAIN l /\ f[i] = x /\ \A j \in DOMAIN l \ {i} : f[j] = l[j]
    BY Zenon
<1> HIDE DEF f
<1> QED BY <1>1, Zenon DEF Holds, f

\* Appending a range adds its pages.
LEMMA AppendHolds ==
  ASSUME NEW l \in Seq(Range), NEW r \in Range, NEW p
  PROVE  Holds(Append(l, r), p) <=> Holds(l, p) \/ p \in PagesOf(r)
<1> DEFINE m == Append(l, r)
<1>1. DOMAIN m = 1..Len(l) + 1 /\ DOMAIN l = 1..Len(l) /\ Len(l) \in Nat
    OBVIOUS
<1>2. m[Len(l) + 1] = r /\ \A k \in DOMAIN l : m[k] = l[k]
    OBVIOUS
<1>3. Len(l) + 1 \in DOMAIN m /\ DOMAIN l \subseteq DOMAIN m
    BY <1>1
<1>4. \A k \in DOMAIN m : k = Len(l) + 1 \/ k \in DOMAIN l
    BY <1>1
<1> HIDE DEF m
<1> QED BY <1>2, <1>3, <1>4, Zenon DEF Holds, m

\* Two ranges of which the second continues the first hold what their join
\* holds.
LEMMA JoinHolds ==
  ASSUME NEW a \in Range, NEW b \in Range, End(a) = b.va, NEW p
  PROVE  p \in PagesOf(Join(a, b)) <=> p \in PagesOf(a) \/ p \in PagesOf(b)
<1>1. a.va \in Nat /\ a.n \in Nat /\ b.va \in Nat /\ b.n \in Nat /\ b.va = a.va + a.n
    BY Zenon DEF Range, End
<1>2. /\ PagesOf(a) = a.va .. (a.va + a.n) - 1 /\ PagesOf(b) = b.va .. (b.va + b.n) - 1
      /\ PagesOf(Join(a, b)) = a.va .. (a.va + (a.n + b.n)) - 1
  <2>1. Join(a, b).va = a.va /\ Join(a, b).n = a.n + b.n
      BY Zenon DEF Join
  <2> QED BY <2>1, Zenon DEF PagesOf, End
<1>3. CASE p \in Int
  <2>1. p \in PagesOf(a) <=> a.va <= p /\ p < a.va + a.n
      BY <1>1, <1>2, <1>3
  <2>2. p \in PagesOf(b) <=> b.va <= p /\ p < b.va + b.n
      BY <1>1, <1>2, <1>3
  <2>3. p \in PagesOf(Join(a, b)) <=> a.va <= p /\ p < a.va + a.n + b.n
      BY <1>1, <1>2, <1>3
  <2> QED BY <1>1, <1>3, <2>1, <2>2, <2>3
<1>4. CASE p \notin Int
  <2>1. \A c, d \in Int : p \notin c..d
      BY <1>4
  <2>2. (a.va + a.n) - 1 \in Int /\ (b.va + b.n) - 1 \in Int /\ (a.va + (a.n + b.n)) - 1 \in Int /\ a.va \in Int /\ b.va \in Int
      BY <1>1
  <2> QED BY <1>2, <2>1, <2>2, Zenon
<1> QED BY <1>3, <1>4, Zenon

\* kva_alloc_pages moves pages from the list to the caller.
LEMMA TakeHolds ==
  ASSUME NEW l \in Seq(Range), NEW i \in DOMAIN l, NEW n \in Nat \ {0}, l[i].n >= n, NEW p
  PROVE  Holds(l, p) <=> Holds(TakeAt(l, i, n), p) \/ p \in PagesOf([va |-> l[i].va, n |-> n])
<1> DEFINE new == [va |-> l[i].va, n |-> n]
           rest == [va |-> l[i].va + n, n |-> l[i].n - n]
           others == \E j \in DOMAIN l \ {i} : p \in PagesOf(l[j])
<1>1. l[i] \in Range /\ l[i].va \in Nat /\ l[i].n \in Nat /\ l[i] = [va |-> l[i].va, n |-> l[i].n]
  <2>1. l[i] \in Range
      OBVIOUS
  <2>2. \A q \in Range : q.va \in Nat /\ q.n \in Nat /\ q = [va |-> q.va, n |-> q.n]
      BY DEF Range
  <2> QED BY <2>1, <2>2, Zenon
<1>2. Holds(l, p) <=> p \in PagesOf(l[i]) \/ others
    BY Zenon DEF Holds
<1>3. CASE l[i].n = n
  <2>1. TakeAt(l, i, n) = DropAt(l, i) /\ new = l[i]
      BY <1>1, <1>3, Zenon DEF TakeAt
  <2>2. Holds(DropAt(l, i), p) <=> others
      BY DropAtHolds, Zenon
  <2> HIDE DEF others, new
  <2> QED BY <1>2, <2>1, <2>2, Zenon DEF new
<1>4. CASE l[i].n # n
  <2>1. TakeAt(l, i, n) = [l EXCEPT ![i] = rest]
      BY <1>4, Zenon DEF TakeAt
  <2>2. rest \in Range /\ new \in Range /\ End(new) = rest.va /\ Join(new, rest) = l[i]
      BY <1>1, <1>4 DEF Range, End, Join
  <2> HIDE DEF new, rest
  <2>3. p \in PagesOf(Join(new, rest)) <=> p \in PagesOf(new) \/ p \in PagesOf(rest)
      BY <2>2, JoinHolds, Zenon
  <2>4. Holds([l EXCEPT ![i] = rest], p) <=> p \in PagesOf(rest) \/ others
      BY <2>2, PutHolds, Zenon
  <2> DEFINE f == [l EXCEPT ![i] = rest]
  <2> HIDE DEF others, f
  <2>5. TakeAt(l, i, n) = f /\ (Holds(f, p) <=> p \in PagesOf(rest) \/ others)
      BY <2>1, <2>4, Zenon DEF f
  <2> QED BY <1>2, <2>2, <2>3, <2>5, Zenon DEF new
<1> QED BY <1>3, <1>4, Zenon

\* kva_free_pages takes up the pages of a range that entry i continues.
LEMMA MergeBeforeHolds ==
  ASSUME NEW l \in Seq(Range), NEW r \in Range, NEW i \in DOMAIN l, End(r) = l[i].va, NEW p
  PROVE  Holds(MergeBefore(l, i, r), p) <=> Holds(l, p) \/ p \in PagesOf(r)
<1> DEFINE x == Join(r, l[i])
           others == \E j \in DOMAIN l \ {i} : p \in PagesOf(l[j])
<1>0. l[i] \in Range
    OBVIOUS
<1>1. MergeBefore(l, i, r) = [l EXCEPT ![i] = x]
  <2>1. x = [va |-> r.va, n |-> l[i].n + r.n]
      BY <1>0 DEF Join, Range
  <2> QED BY <2>1, Zenon DEF MergeBefore
<1>2. x \in Range
    BY <1>0, JoinCovers, Zenon
<1>3. p \in PagesOf(x) <=> p \in PagesOf(r) \/ p \in PagesOf(l[i])
    BY <1>0, JoinHolds, Zenon
<1> HIDE DEF x
<1>4. Holds(MergeBefore(l, i, r), p) <=> p \in PagesOf(x) \/ others
  <2> DEFINE m == [l EXCEPT ![i] = x]
  <2>1. Holds(m, p) <=> p \in PagesOf(x) \/ others
      BY <1>2, PutHolds, Zenon
  <2>2. MergeBefore(l, i, r) = m
      BY <1>1, Zenon
  <2> HIDE DEF m, others
  <2> QED BY <2>1, <2>2, Zenon
<1>5. Holds(l, p) <=> p \in PagesOf(l[i]) \/ others
    BY Zenon DEF Holds
<1> QED BY <1>3, <1>4, <1>5, Zenon

\* ... or of a range that continues entry i; the entry that is dropped has
\* been joined before.
LEMMA MergeAfterHolds ==
  ASSUME NEW l \in Seq(Range), PairwiseApart(l), NEW r \in Range, NEW i \in DOMAIN l,
         End(l[i]) = r.va, NEW p
  PROVE  Holds(MergeAfter(l, i, r), p) <=> Holds(l, p) \/ p \in PagesOf(r)
<1> DEFINE x == Join(l[i], r)
           m == [l EXCEPT ![i] = x]
           J == {j \in DOMAIN l \ {i} : l[j].va = End(m[i])}
           others == \E j \in DOMAIN l \ {i} : p \in PagesOf(l[j])
<1>0. l[i] \in Range /\ \A k \in DOMAIN l : l[k] \in Range
    OBVIOUS
<1>1. x \in Range
    BY <1>0, JoinCovers, Zenon
<1>2. p \in PagesOf(x) <=> p \in PagesOf(l[i]) \/ p \in PagesOf(r)
    BY <1>0, JoinHolds, Zenon
<1>3. Holds(l, p) <=> p \in PagesOf(l[i]) \/ others
    BY Zenon DEF Holds
<1>m. m = [l EXCEPT ![i] = [va |-> l[i].va, n |-> l[i].n + r.n]]
    BY Zenon DEF Join
<1> HIDE DEF x
<1>4. /\ m \in Seq(Range) /\ DOMAIN m = DOMAIN l /\ m[i] = x
      /\ \A k \in DOMAIN l \ {i} : m[k] = l[k]
    BY <1>1
<1>5. Holds(m, p) <=> p \in PagesOf(x) \/ others
    BY <1>1, PutHolds, Zenon
<1> HIDE DEF m
<1>6. CASE J = {}
  <2>1. MergeAfter(l, i, r) = m
      BY <1>6, <1>m, Zenon DEF MergeAfter
  <2> QED BY <1>2, <1>3, <1>5, <2>1, Zenon
<1>7. CASE J # {}
  <2> DEFINE j == First(J)
             y == Join(x, l[j])
             m2 == [m EXCEPT ![i] = y]
  <2>1. j \in J
    <3>1. J \subseteq DOMAIN l /\ \A c, d \in J : l[c].va = l[d].va
        BY Zenon
    <3> HIDE DEF J
    <3> QED BY <1>7, <3>1, OneFollows, Zenon
  <2> HIDE DEF j
  <2>2. j \in DOMAIN l \ {i} /\ l[j] \in Range /\ l[j].va = End(x)
      BY <1>0, <1>4, <2>1, Zenon
  <2>3. y \in Range
      BY <1>1, <2>2, JoinCovers, Zenon
  <2>4. p \in PagesOf(y) <=> p \in PagesOf(x) \/ p \in PagesOf(l[j])
      BY <1>1, <2>2, JoinHolds, Zenon
  <2>y. y = [va |-> m[i].va, n |-> m[i].n + m[j].n]
      BY <1>4, <2>2, Zenon DEF Join
  <2> HIDE DEF y
  <2>5. MergeAfter(l, i, r) = DropAt(m2, j)
      BY Zenon, <1>7, <1>m, <2>y DEF MergeAfter, m, j
  <2>6. /\ m2 \in Seq(Range) /\ DOMAIN m2 = DOMAIN l /\ m2[i] = y
        /\ \A k \in DOMAIN l \ {i} : m2[k] = l[k]
      BY <1>4, <2>3
  <2> HIDE DEF m2
  <2>7. Holds(DropAt(m2, j), p) <=> \E k \in DOMAIN l \ {j} : p \in PagesOf(m2[k])
      BY <2>2, <2>6, DropAtHolds, Zenon
  <2>8. (\E k \in DOMAIN l \ {j} : p \in PagesOf(m2[k])) <=>
          p \in PagesOf(y) \/ \E k \in DOMAIN l \ {i, j} : p \in PagesOf(l[k])
      BY <2>2, <2>6, Zenon
  <2>9. others <=> p \in PagesOf(l[j]) \/ \E k \in DOMAIN l \ {i, j} : p \in PagesOf(l[k])
      BY <2>2, Zenon
  <2> HIDE DEF others
  <2> QED BY <1>2, <1>3, <2>4, <2>5, <2>7, <2>8, <2>9, Zenon
<1> QED BY <1>6, <1>7, Zenon

\* Returning a range that is held.
LEMMA FreeKeeps ==
  ASSUME KvaIInv, NEW r \in live, live' = live \ {r}, Inserted(s_free, s_free', r),
         Len(s_free') <= KVA_FREE_MAX, lost' \subseteq Range,
         UNCHANGED <<s_kva_next, kva_panicked>>
  PROVE  KvaIInv'
<1> USE DEF KvaIInv
<1>1. KvaTypeOK'
    BY Zenon DEF KvaTypeOK, Inserted
<1>2. \A j, k \in DOMAIN s_free' : j # k => Apart(s_free'[j], s_free'[k])
    BY Zenon DEF Inserted, PairwiseApart
<1>3. \A q \in live' : q \in Range /\ Apart(r, q) /\ \A j \in DOMAIN s_free : Apart(s_free[j], q)
    BY Zenon DEF NoOverlap, KvaTypeOK
<1>4. \A k \in DOMAIN s_free', q \in live' : Apart(s_free'[k], q)
    BY <1>3, Zenon DEF Inserted
<1>5. \A k \in DOMAIN s_free' : End(s_free'[k]) <= s_kva_next'
    BY Zenon DEF Inserted, NoOverlap
<1>6. \A q, u \in live' : q # u => Apart(q, u)
    BY Zenon DEF NoOverlap
<1>7. \A q \in live' : End(q) <= s_kva_next'
    BY Zenon DEF NoOverlap
<1> QED BY <1>1, <1>2, <1>4, <1>5, <1>6, <1>7, Zenon DEF NoOverlap

\* Every step of the allocator keeps the ranges apart.
LEMMA KvaNextIInv == KvaIInv /\ [KvaNext]_kvaVars => KvaIInv'
<1> SUFFICES ASSUME KvaIInv, [KvaNext]_kvaVars PROVE KvaIInv'
    BY Zenon
<1>1. ASSUME NEW n \in 1..MaxAlloc, AllocFree(n) PROVE KvaIInv'
  <2>1. PICK i \in DOMAIN s_free :
          /\ IsBest(s_free, n, i)
          /\ s_free' = TakeAt(s_free, i, n)
          /\ live' = live \cup {[va |-> s_free[i].va, n |-> n]}
      BY <1>1, Zenon DEF AllocFree
  <2>2. s_free[i].n >= n /\ n \in Nat \ {0}
      BY <2>1, KvaAssumption DEF IsBest, Fits
  <2>3. kva_panicked' \in BOOLEAN /\ UNCHANGED <<s_kva_next, lost>>
      BY <1>1, Zenon DEF AllocFree
  <2> QED BY <2>1, <2>2, <2>3, TakeKeeps, Zenon
<1>2. ASSUME NEW n \in 1..MaxAlloc, Bump(n), kva_panicked' \in BOOLEAN PROVE KvaIInv'
  <2> DEFINE new == [va |-> s_kva_next, n |-> n]
  <2>1. n \in Nat \ {0} /\ s_kva_next \in Nat
      BY KvaAssumption DEF KvaIInv, KvaTypeOK
  <2>2. new \in Range /\ End(new) = s_kva_next' /\ s_kva_next' \in Nat /\ s_kva_next' > s_kva_next
      BY <1>2, <2>1 DEF Bump, Range, End
  <2>3. live' = live \cup {new} /\ UNCHANGED <<s_free, lost>>
      BY <1>2, Zenon DEF Bump
  <2>4. KvaTypeOK'
      BY <1>2, <2>2, <2>3, Zenon DEF KvaIInv, KvaTypeOK
  <2>5. \A r \in Range : End(r) <= s_kva_next =>
          Apart(r, new) /\ Apart(new, r) /\ End(r) <= s_kva_next'
      BY <2>1, <2>2 DEF Apart, Range, End
  <2>6. (\A i \in DOMAIN s_free : s_free[i] \in Range) /\ live \subseteq Range
      BY DEF KvaIInv, KvaTypeOK
  <2>7. NoOverlap'
    <3> USE DEF KvaIInv, NoOverlap
    <3>1. \A i \in DOMAIN s_free, r \in live' : Apart(s_free[i], r)
        BY <2>3, <2>5, <2>6, Zenon
    <3>2. \A r, q \in live' : r # q => Apart(r, q)
        BY <2>3, <2>5, <2>6, Zenon
    <3>3. \A i \in DOMAIN s_free : End(s_free[i]) <= s_kva_next'
        BY <2>5, <2>6, Zenon
    <3>4. \A r \in live' : End(r) <= s_kva_next'
        BY <2>1, <2>2, <2>3, <2>5, <2>6
    <3> QED BY <2>3, <3>1, <3>2, <3>3, <3>4, Zenon
  <2> QED BY <2>4, <2>7, Zenon DEF KvaIInv
<1>3. ASSUME NEW r \in live, FreeRange(r) PROVE KvaIInv'
  <2>1. s_free \in Seq(Range) /\ r \in Range /\ Len(s_free) <= KVA_FREE_MAX
      BY Zenon DEF KvaIInv, KvaTypeOK
  <2>2. PairwiseApart(s_free) /\ \A k \in DOMAIN s_free : Apart(s_free[k], r)
      BY Zenon DEF KvaIInv, NoOverlap, PairwiseApart
  <2>3. live' = live \ {r} /\ UNCHANGED <<s_kva_next, kva_panicked>>
      BY <1>3, Zenon DEF FreeRange
  <2>4. CASE /\ s_free' = AddNew(s_free, r, KVA_FREE_MAX)
             /\ lost' = IF Len(s_free) < KVA_FREE_MAX THEN lost ELSE lost \cup {r}
    <3>1. lost' \subseteq Range
        BY <2>1, <2>4, Zenon DEF KvaIInv, KvaTypeOK
    <3>2. Inserted(s_free, s_free', r)
      <4>1. Inserted(s_free, Append(s_free, r), r)
          BY <2>1, <2>2, AppendInserts, Zenon
      <4>2. Inserted(s_free, s_free, r)
          BY <2>1, <2>2, Zenon DEF Inserted
      <4> QED BY <2>4, <4>1, <4>2, Zenon DEF AddNew
    <3>3. Len(s_free') <= KVA_FREE_MAX
        BY <2>1, <2>4, KvaAssumption DEF AddNew
    <3> QED BY <2>3, <3>1, <3>2, <3>3, FreeKeeps, Zenon
  <2>5. CASE /\ \E i \in DOMAIN s_free :
                  IsFirst(Touching(s_free, r), i) /\ s_free' = Merge(s_free, i, r)
             /\ UNCHANGED lost
    <3>1. PICK i \in DOMAIN s_free : i \in Touching(s_free, r) /\ s_free' = Merge(s_free, i, r)
        BY <2>5, Zenon DEF IsFirst
    <3>2. Inserted(s_free, s_free', r) /\ Len(s_free') <= Len(s_free)
      <4>1. CASE End(s_free[i]) = r.va
          BY <2>1, <2>2, <3>1, <4>1, MergeAfterInserts, Zenon DEF Merge
      <4>2. CASE End(s_free[i]) # r.va
        <5>1. End(r) = s_free[i].va
            BY <3>1, <4>2, Zenon DEF Touching
        <5> QED BY <2>1, <2>2, <3>1, <4>2, <5>1, MergeBeforeInserts DEF Merge
      <4> QED BY <4>1, <4>2, Zenon
    <3>3. s_free' \in Seq(Range)
        BY <3>2, Zenon DEF Inserted
    <3>4. Len(s_free') <= KVA_FREE_MAX
        BY <2>1, <3>2, <3>3, KvaAssumption
    <3>5. lost' \subseteq Range
        BY <2>5, Zenon DEF KvaIInv, KvaTypeOK
    <3> QED BY <2>3, <3>2, <3>4, <3>5, FreeKeeps, Zenon
  <2> QED BY <1>3, <2>4, <2>5, Zenon DEF FreeRange
<1>4. CASE UNCHANGED kvaVars
    BY <1>4, Zenon DEF kvaVars, KvaIInv, KvaTypeOK, NoOverlap
<1>5. kva_panicked \in BOOLEAN
    BY Zenon DEF KvaIInv, KvaTypeOK
<1>6. ASSUME NEW n \in 1..MaxAlloc, AllocBump(n) \/ MapPhys(n) PROVE KvaIInv'
  <2>1. Bump(n) /\ kva_panicked' \in BOOLEAN
      BY <1>5, <1>6, Zenon DEF AllocBump, MapPhys
  <2> QED BY <1>2, <2>1, Zenon
<1> QED BY <1>1, <1>3, <1>4, <1>6, Zenon DEF KvaNext

\* The state variables keep their types, for every base, list length and
\* sequence of calls.
THEOREM KvaTypeCorrect == KvaSpec => []KvaTypeOK
<1>1. KvaIInv => KvaTypeOK
    BY Zenon DEF KvaIInv
<1> QED BY <1>1, KvaInitIInv, KvaNextIInv, PTL DEF KvaSpec

\* kva_alloc_pages and kva_map_phys_pages never hand out an address that is
\* already held, whatever kva_free_pages merged or dropped before.
THEOREM KvaNoOverlap == KvaSpec => []NoOverlap
<1>1. KvaIInv => NoOverlap
    BY Zenon DEF KvaIInv
<1> QED BY <1>1, KvaInitIInv, KvaNextIInv, PTL DEF KvaSpec

\* A page is held by a caller, was dropped, or is in the free list; and the
\* pages below the bump pointer are those.
KvaHeld(p) == (\E r \in live \cup lost : p \in PagesOf(r)) \/ Holds(s_free, p)
Remembered == \A p \in Int : KvaHeld(p) <=> KVA_BASE <= p /\ p < s_kva_next

\* NothingForgotten, a page at a time.
LEMMA RememberedAll ==
  ASSUME KvaTypeOK
  PROVE  NothingForgotten <=> Remembered
<1> DEFINE U == UNION {PagesOf(r) : r \in live \cup lost \cup {s_free[i] : i \in DOMAIN s_free}}
<1>1. s_kva_next \in Nat /\ KVA_BASE \in Nat
    BY KvaAssumption, Zenon DEF KvaTypeOK
<1>2. \A p : p \in U <=> KvaHeld(p)
    BY Zenon DEF KvaHeld, Holds
<1>3. \A p \in U : p \in Int
  <2>1. \A r \in live \cup lost \cup {s_free[i] : i \in DOMAIN s_free} : r \in Range
      BY DEF KvaTypeOK
  <2>2. \A r \in Range : PagesOf(r) \subseteq Int
      BY DEF PagesOf, Range, End
  <2> QED BY <2>1, <2>2, Zenon
<1> HIDE DEF U
<1>4. \A p \in Int : p \in KVA_BASE .. s_kva_next - 1 <=> KVA_BASE <= p /\ p < s_kva_next
    BY <1>1
<1>5. ASSUME NothingForgotten PROVE Remembered
    BY <1>2, <1>4, <1>5, Zenon DEF NothingForgotten, Remembered, U
<1>6. ASSUME Remembered PROVE NothingForgotten
  <2>1. \A p \in Int : p \in U <=> p \in KVA_BASE .. s_kva_next - 1
      BY <1>2, <1>4, <1>6, Zenon DEF Remembered
  <2>2. \A p \in KVA_BASE .. s_kva_next - 1 : p \in Int
      BY <1>1
  <2>3. U = KVA_BASE .. s_kva_next - 1
      BY <1>3, <2>1, <2>2, Zenon
  <2> QED BY <2>3, Zenon DEF NothingForgotten, U
<1> QED BY <1>5, <1>6, Zenon

\* The bump pointer never falls below the base.
KvaAbove == KVA_BASE <= s_kva_next

\* Only the bump pointer's own additions move it.
LEMMA NextAbove == KvaIInv /\ KvaAbove /\ [KvaNext]_kvaVars => KvaAbove'
<1> SUFFICES ASSUME KvaIInv, KvaAbove, [KvaNext]_kvaVars PROVE KvaAbove'
    BY Zenon
<1>1. s_kva_next \in Nat /\ KVA_BASE \in Nat /\ MaxAlloc \in Nat
    BY KvaAssumption, Zenon DEF KvaIInv, KvaTypeOK
<1>2. s_kva_next' = s_kva_next \/ \E n \in 1..MaxAlloc : s_kva_next' = s_kva_next + n
    BY Zenon DEF KvaNext, AllocFree, AllocBump, MapPhys, Bump, FreeRange, kvaVars
<1> QED BY <1>1, <1>2 DEF KvaAbove

\* Every step of the allocator accounts for the pages it moves.
LEMMA NextRemembered == KvaIInv /\ KvaAbove /\ Remembered /\ [KvaNext]_kvaVars => Remembered'
<1> SUFFICES ASSUME KvaIInv, KvaAbove, Remembered, [KvaNext]_kvaVars PROVE Remembered'
    BY Zenon
<1>0. /\ s_free \in Seq(Range) /\ live \subseteq Range /\ s_kva_next \in Nat /\ KVA_BASE \in Nat
      /\ PairwiseApart(s_free)
    BY KvaAssumption, Zenon DEF KvaIInv, KvaTypeOK, NoOverlap, PairwiseApart
<1>1. ASSUME NEW n \in 1..MaxAlloc, AllocFree(n) PROVE Remembered'
  <2>1. PICK i \in DOMAIN s_free :
          /\ IsBest(s_free, n, i)
          /\ s_free' = TakeAt(s_free, i, n)
          /\ live' = live \cup {[va |-> s_free[i].va, n |-> n]}
      BY <1>1, Zenon DEF AllocFree
  <2>2. s_free[i].n >= n /\ n \in Nat \ {0}
      BY <2>1, KvaAssumption DEF IsBest, Fits
  <2>3. s_kva_next' = s_kva_next /\ lost' = lost
      BY <1>1, Zenon DEF AllocFree
  <2>4. \A p : Holds(s_free, p) <=> Holds(s_free', p) \/ p \in PagesOf([va |-> s_free[i].va, n |-> n])
      BY <1>0, <2>1, <2>2, TakeHolds, Zenon
  <2>5. \A p : KvaHeld(p)' <=> KvaHeld(p)
      BY <2>1, <2>3, <2>4, Zenon DEF KvaHeld
  <2> QED BY <2>3, <2>5, Zenon DEF Remembered
<1>2. ASSUME NEW n \in 1..MaxAlloc, Bump(n) PROVE Remembered'
  <2> DEFINE new == [va |-> s_kva_next, n |-> n]
  <2>1. n \in Nat \ {0}
      BY KvaAssumption
  <2>2. s_kva_next' = s_kva_next + n /\ live' = live \cup {new} /\ s_free' = s_free /\ lost' = lost
      BY <1>2, Zenon DEF Bump
  <2>3. \A p \in Int : p \in PagesOf(new) <=> s_kva_next <= p /\ p < s_kva_next + n
      BY <1>0, <2>1 DEF PagesOf, End
  <2>4. \A p : KvaHeld(p)' <=> KvaHeld(p) \/ p \in PagesOf(new)
      BY <2>2, Zenon DEF KvaHeld
  <2>5. KVA_BASE <= s_kva_next
      BY Zenon DEF KvaAbove
  <2>6. \A p \in Int : (KVA_BASE <= p /\ p < s_kva_next + n) <=>
          (KVA_BASE <= p /\ p < s_kva_next) \/ (s_kva_next <= p /\ p < s_kva_next + n)
      BY <1>0, <2>1, <2>5
  <2> QED BY <2>2, <2>3, <2>4, <2>6, Zenon DEF Remembered
<1>3. ASSUME NEW r \in live, FreeRange(r) PROVE Remembered'
  <2>1. r \in Range /\ live' = live \ {r} /\ s_kva_next' = s_kva_next
      BY <1>0, <1>3, Zenon DEF FreeRange
  <2>2. CASE /\ s_free' = AddNew(s_free, r, KVA_FREE_MAX)
             /\ lost' = IF Len(s_free) < KVA_FREE_MAX THEN lost ELSE lost \cup {r}
    <3>1. CASE Len(s_free) < KVA_FREE_MAX
      <4>1. s_free' = Append(s_free, r) /\ lost' = lost
          BY <2>2, <3>1, Zenon DEF AddNew
      <4>2. \A p : Holds(s_free', p) <=> Holds(s_free, p) \/ p \in PagesOf(r)
          BY <1>0, <2>1, <4>1, AppendHolds, Zenon
      <4>3. \A p : KvaHeld(p)' <=> KvaHeld(p)
          BY <2>1, <4>1, <4>2, Zenon DEF KvaHeld
      <4> QED BY <2>1, <4>3, Zenon DEF Remembered
    <3>2. CASE ~(Len(s_free) < KVA_FREE_MAX)
      <4>1. s_free' = s_free /\ lost' = lost \cup {r}
          BY <2>2, <3>2, Zenon DEF AddNew
      <4>2. \A p : KvaHeld(p)' <=> KvaHeld(p)
          BY <2>1, <4>1, Zenon DEF KvaHeld
      <4> QED BY <2>1, <4>2, Zenon DEF Remembered
    <3> QED BY <3>1, <3>2, Zenon
  <2>3. CASE /\ \E i \in DOMAIN s_free :
                  IsFirst(Touching(s_free, r), i) /\ s_free' = Merge(s_free, i, r)
             /\ UNCHANGED lost
    <3>1. PICK i \in DOMAIN s_free : i \in Touching(s_free, r) /\ s_free' = Merge(s_free, i, r)
        BY <2>3, Zenon DEF IsFirst
    <3>2. \A p : Holds(s_free', p) <=> Holds(s_free, p) \/ p \in PagesOf(r)
      <4>1. CASE End(s_free[i]) = r.va
        <5>1. s_free' = MergeAfter(s_free, i, r)
            BY <3>1, <4>1, Zenon DEF Merge
        <5> QED BY <1>0, <2>1, <4>1, <5>1, MergeAfterHolds, Zenon
      <4>2. CASE End(s_free[i]) # r.va
        <5>1. End(r) = s_free[i].va
            BY <3>1, <4>2, Zenon DEF Touching
        <5>2. s_free' = MergeBefore(s_free, i, r)
            BY <3>1, <4>2, Zenon DEF Merge
        <5> QED BY <1>0, <2>1, <5>1, <5>2, MergeBeforeHolds, Zenon
      <4> QED BY <4>1, <4>2, Zenon
    <3>3. lost' = lost
        BY <2>3, Zenon
    <3>4. \A p : KvaHeld(p)' <=> KvaHeld(p)
        BY <2>1, <3>2, <3>3, Zenon DEF KvaHeld
    <3> QED BY <2>1, <3>4, Zenon DEF Remembered
  <2> QED BY <1>3, <2>2, <2>3, Zenon DEF FreeRange
<1>4. CASE UNCHANGED kvaVars
    BY <1>4, Zenon DEF kvaVars, Remembered, KvaHeld, Holds
<1>5. ASSUME NEW n \in 1..MaxAlloc, AllocBump(n) \/ MapPhys(n) PROVE Remembered'
    BY <1>2, <1>5, Zenon DEF AllocBump, MapPhys
<1> QED BY <1>1, <1>3, <1>4, <1>5, Zenon DEF KvaNext

\* No kernel address is forgotten: what was handed out is held by a caller,
\* free, or was dropped when the free list was full.
THEOREM KvaNothingForgotten == KvaSpec => []NothingForgotten
<1>1. KvaInit => KvaIInv /\ KvaAbove /\ Remembered
  <2> SUFFICES ASSUME KvaInit PROVE KvaIInv /\ KvaAbove /\ Remembered
      BY Zenon
  <2>1. s_free = <<>> /\ live = {} /\ lost = {} /\ s_kva_next = KVA_BASE /\ KVA_BASE \in Nat
      BY KvaAssumption, Zenon DEF KvaInit
  <2>2. \A p : ~KvaHeld(p)
      BY <2>1 DEF KvaHeld, Holds
  <2>3. \A p \in Int : ~(KVA_BASE <= p /\ p < s_kva_next)
      BY <2>1
  <2> QED BY KvaInitIInv, <2>1, <2>2, <2>3 DEF Remembered, KvaAbove
<1>2. KvaIInv /\ KvaAbove /\ Remembered /\ [KvaNext]_kvaVars => KvaIInv' /\ KvaAbove' /\ Remembered'
    BY KvaNextIInv, NextAbove, NextRemembered, Zenon
<1>3. KvaIInv /\ Remembered => NothingForgotten
    BY RememberedAll, Zenon DEF KvaIInv
<1> QED BY <1>1, <1>2, <1>3, PTL DEF KvaSpec
=============================================================================
