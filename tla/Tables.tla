------------------------------- MODULE Tables ------------------------------
(***************************************************************************)
(* The page tables themselves, kernel/mm/vmm.c: trees of TLevels levels    *)
(* (four in the code) in physical frames, walked, extended, copied, shared *)
(* and torn down, with memory running out.  Memory.tla takes an address    *)
(* space to be a function from pages to frames; here it is shown to be     *)
(* one.                                                                    *)
(*                                                                         *)
(* A page is named by its indexes, one per level.  Index THigh of a root   *)
(* is the half of the kernel, whose tables every root shares.  The frame   *)
(* load.frames + 1 is device memory, which the page allocator does not     *)
(* own.                                                                    *)
(* A page holds a value; val is what the process last put there.           *)
(***************************************************************************)
EXTENDS Workload, Integers, FiniteSets, Sequences, SequencesExt

CONSTANTS TLevels,  \* levels of a tree
          TWidth,   \* indexes of a table, the last one THigh in a root
          TProcs,   \* processes
          TVas,     \* pages of a process used, in increasing order
          TKvas,    \* pages of the kernel used, in increasing order
          TSteps    \* bound: calls in a behaviour

VARIABLES tm,  \* the frames
          tp,  \* the processes
          tk   \* the kernel

tvars == <<tm, tp, tk>>

THigh == TWidth
TOn(call) ==
  /\ load.part = "tables" /\ tk.st = "up" /\ call \in load.calls /\ ~tk.torn
  /\ tk.steps < TSteps
TDevice == load.frames + 1

TNone == [a |-> 0, p |-> FALSE, w |-> FALSE, u |-> FALSE, cow |-> FALSE, wc |-> FALSE, ps |-> FALSE]
TEntry(f, w, u) == [TNone EXCEPT !.a = f, !.p = TRUE, !.w = w, !.u = u]
TEmpty == [i \in 1..TWidth |-> TNone]
TFreeFrame == [kind |-> "free", ents |-> <<>>, val |-> 0, refs |-> 0]
TTable == [TFreeFrame EXCEPT !.kind = "table", !.ents = TEmpty, !.refs = 1]
TPage == [TFreeFrame EXCEPT !.kind = "page", !.refs = 1]

TFree(m) == {f \in DOMAIN m : m[f].kind = "free"}
TPut(m, t, i, e) == [m EXCEPT ![t].ents[i] = e]

\* A frame goes when its last reference goes; device memory is not counted.
pmm_free_page(m, f) ==
  IF f \notin DOMAIN m \/ m[f].refs = 0 THEN m
  ELSE IF m[f].refs = 1 THEN [m EXCEPT ![f] = TFreeFrame] ELSE [m EXCEPT ![f].refs = @ - 1]

(********************************* walking *********************************)

\* The table of the last level on the way to va, or 0.
TLeaf(m, root, va) ==
  LET at[l \in 1..TLevels] ==
        IF l = 1 THEN root
        ELSE LET t == at[l - 1] IN
             IF t = 0 THEN 0
             ELSE LET e == m[t].ents[va[l - 1]] IN IF e.p /\ ~e.ps THEN e.a ELSE 0
  IN at[TLevels]

TPte(m, root, va) ==
  LET t == TLeaf(m, root, va) IN IF t = 0 THEN TNone ELSE m[t].ents[va[TLevels]]

vmm_phys_of_user(m, root, va) == LET e == TPte(m, root, va) IN IF e.p THEN e.a ELSE 0
vmm_phys_of(m, va) == TPte(m, 1, va).a
vmm_phys_of_user_raw(m, root, va) == TPte(m, root, va).a

\* A table below t at index i, made if there is none; 0 if there is no frame
\* for it.
ensure_table_phys(m, t, i, user) ==
  IF m[t].ents[i].p THEN [m |-> m, t |-> m[t].ents[i].a]
  ELSE IF TFree(m) = {} THEN [m |-> m, t |-> 0]
  ELSE LET f == Min(TFree(m))
       IN [m |-> TPut([m EXCEPT ![f] = TTable], t, i, TEntry(f, TRUE, user)), t |-> f]

\* The tables on the way to va; those made before memory ran out stay.
TReach(m, root, va, user) ==
  FoldLeft(LAMBDA r, l : IF r.t = 0 THEN r ELSE ensure_table_phys(r.m, r.t, va[l], user),
           [m |-> m, t |-> root], [l \in 1..(TLevels - 1) |-> l])

vmm_map_user_page(m, root, va, e) ==
  LET r == TReach(m, root, va, TRUE)
  IN IF r.t = 0 THEN [m |-> r.m, res |-> "oom"]
     ELSE IF r.m[r.t].ents[va[TLevels]].p THEN [m |-> r.m, res |-> "double"]
     ELSE [m |-> TPut(r.m, r.t, va[TLevels], e), res |-> "ok"]

vmm_map_page(m, va, f) ==
  LET r == TReach(m, 1, va, FALSE)
  IN IF r.t = 0 THEN [m |-> r.m, res |-> "oom"]
     ELSE IF r.m[r.t].ents[va[TLevels]].p THEN [m |-> r.m, res |-> "double"]
     ELSE [m |-> TPut(r.m, r.t, va[TLevels], TEntry(f, TRUE, FALSE)), res |-> "ok"]

vmm_unmap_page(m, va) ==
  IF TPte(m, 1, va).p THEN [m |-> TPut(m, TLeaf(m, 1, va), va[TLevels], TNone), res |-> "ok"]
  ELSE [m |-> m, res |-> "absent"]

(****************************** whole spaces *******************************)

vmm_create_user_pml4(m) ==
  LET f == Min(TFree(m))
  IN [m EXCEPT ![f] = [TTable EXCEPT !.ents = [TEmpty EXCEPT ![THigh] = m[1].ents[THigh]]]]

\* The leaf tables and the tables above them of the user half.
TTablesOf(m, root) ==
  LET below(S) == {m[t].ents[i].a : <<t, i>> \in {x \in S \X (1..TWidth) : m[x[1]].ents[x[2]].p}}
      at[l \in 1..TLevels] ==
        CASE l = 1 -> {root}
          [] l = 2 -> {m[root].ents[i].a : i \in {j \in 1..(TWidth - 1) : m[root].ents[j].p}}
          [] OTHER -> below(at[l - 1])
  IN [leaf |-> at[TLevels], all |-> UNION {at[l] : l \in 1..TLevels}]

\* Every entry that is not zero, present or not, gives its frame back.
TLeavesFreed(m, root) ==
  FoldLeft(LAMBDA n, va : pmm_free_page(n, vmm_phys_of_user_raw(m, root, va)), m, TVas)

vmm_free_user_pml4(m, root) ==
  LET tables == TTablesOf(m, root).all
      n == TLeavesFreed(m, root)
  IN [f \in DOMAIN m |-> IF f \in tables THEN TFreeFrame ELSE n[f]]

vmm_free_user_pages(m, root) ==
  LET leaf == TTablesOf(m, root).leaf
      n == TLeavesFreed(m, root)
  IN [f \in DOMAIN m |-> IF f \in leaf THEN [n[f] EXCEPT !.ents = TEmpty] ELSE n[f]]

\* The pages of src that fork hands on: present, of the user, not a device.
TShared(e) == e.p /\ e.u /\ ~e.wc

\* One page copied, and one page shared: a page that could be written is
\* protected and marked in both trees.
TCopyPage(r, src, dst, va) ==
  LET e == TPte(r.m, src, va)
      f == Min(TFree(r.m))
      n == vmm_map_user_page([r.m EXCEPT ![f] = [TPage EXCEPT !.val = r.m[e.a].val]], dst, va, [e EXCEPT !.a = f])
  IN IF ~r.ok \/ ~TShared(e) THEN r
     ELSE IF TFree(r.m) = {} THEN [r EXCEPT !.ok = FALSE]
     ELSE IF n.res = "ok" THEN [r EXCEPT !.m = n.m]
     ELSE [m |-> pmm_free_page(n.m, f), ok |-> FALSE]

TCowPage(r, src, dst, va) ==
  LET e == TPte(r.m, src, va)
      c == IF e.w THEN [e EXCEPT !.w = FALSE, !.cow = TRUE] ELSE e
      n == vmm_map_user_page(TPut(r.m, TLeaf(r.m, src, va), va[TLevels], c), dst, va, c)
  IN IF ~r.ok \/ ~TShared(e) THEN r
     ELSE IF n.res = "ok" THEN [r EXCEPT !.m = [n.m EXCEPT ![e.a].refs = @ + 1]]
     ELSE [m |-> n.m, ok |-> FALSE]

vmm_copy_user_pages(m, src, dst) ==
  FoldLeft(LAMBDA r, va : TCopyPage(r, src, dst, va), [m |-> m, ok |-> TRUE], TVas)
vmm_cow_user_pages(m, src, dst) ==
  FoldLeft(LAMBDA r, va : TCowPage(r, src, dst, va), [m |-> m, ok |-> TRUE], TVas)

(***************************** what processes do ***************************)

TNoVals == [i \in DOMAIN TVas |-> -1]
TLive(p) == tp[p].root # 0
TPanic(why) == tk' = [tk EXCEPT !.st = why] /\ UNCHANGED <<tm, tp>>
TCount == tk' = [tk EXCEPT !.steps = @ + 1]
TSee(p, i, v) == tp' = [tp EXCEPT ![p].val[i] = v]

\* A page of a new mapping: a zeroed frame, or the device's.
TMap(p, i) ==
  /\ TOn("map") /\ TLive(p) /\ tp[p].val[i] = -1
  /\ TFree(tm) # {}
  /\ LET f == Min(TFree(tm))
         r == vmm_map_user_page([tm EXCEPT ![f] = TPage], tp[p].root, TVas[i], TEntry(f, TRUE, TRUE))
     IN IF r.res # "ok" THEN TPanic(r.res)
        ELSE tm' = r.m /\ TSee(p, i, 0) /\ TCount

TMapDevice(p, i) ==
  /\ TOn("device") /\ TLive(p) /\ tp[p].val[i] = -1
  /\ LET r == vmm_map_user_page(tm, tp[p].root, TVas[i], [TEntry(TDevice, TRUE, TRUE) EXCEPT !.wc = TRUE])
     IN IF r.res # "ok" THEN TPanic(r.res)
        ELSE tm' = r.m /\ TSee(p, i, 0) /\ TCount

\* sys_munmap of a page: an entry that is not present keeps the frame that was
\* given back; torn is a ghost that says so.
TUnmap(p, i) ==
  /\ TOn("unmap") /\ TLive(p) /\ tp[p].val[i] # -1
  /\ LET e == TPte(tm, tp[p].root, TVas[i])
         t == TLeaf(tm, tp[p].root, TVas[i])
     IN /\ tm' = pmm_free_page(IF e.p THEN TPut(tm, t, TVas[i][TLevels], TNone) ELSE tm, e.a)
        /\ tk' = [tk EXCEPT !.steps = @ + 1, !.torn = @ \/ ~e.p]
  /\ TSee(p, i, -1)

\* vmm_set_user_prot; PROT_NONE keeps the frame in an entry not present.
TProtect(p, i, prot) ==
  /\ TOn("protect") /\ TLive(p) /\ TPte(tm, tp[p].root, TVas[i]).p
  /\ LET e == TPte(tm, tp[p].root, TVas[i])
         new == IF prot = "none" THEN [TNone EXCEPT !.a = e.a] ELSE TEntry(e.a, prot = "write", TRUE)
     IN /\ tm' = TPut(tm, TLeaf(tm, tp[p].root, TVas[i]), TVas[i][TLevels], new)
        /\ tk' = [tk EXCEPT !.steps = @ + 1, !.torn = @ \/ e.cow]
  /\ UNCHANGED tp

\* A store of the process; a page shared by fork is copied first
\* (vmm_cow_fault_handle).
TStore(p, i, v) ==
  /\ TOn("store") /\ TLive(p)
  /\ LET e == TPte(tm, tp[p].root, TVas[i])
         t == TLeaf(tm, tp[p].root, TVas[i])
         f == Min(TFree(tm))
         copied == TPut([tm EXCEPT ![f] = [TPage EXCEPT !.val = v]], t, TVas[i][TLevels],
                        [e EXCEPT !.a = f, !.cow = FALSE, !.w = TRUE])
     IN /\ e.p /\ e.a # TDevice
        /\ \/ e.w /\ tm' = [tm EXCEPT ![e.a].val = v]
           \/ ~e.w /\ e.cow /\ TFree(tm) # {} /\ tm' = pmm_free_page(copied, e.a)
  /\ TSee(p, i, v) /\ TCount

\* vmm_write_user_bytes over two pages: what is mapped before the first page
\* that is not is written, whatever its protection.
TPoke(p, v) ==
  /\ TOn("poke") /\ TLive(p)
  /\ LET f1 == vmm_phys_of_user(tm, tp[p].root, TVas[1])
         f2 == vmm_phys_of_user(tm, tp[p].root, TVas[2])
         to == IF f1 = 0 THEN {} ELSE IF f2 = 0 THEN {1} ELSE {1, 2}
     IN /\ TDevice \notin {f1, f2}
        /\ tm' = [f \in DOMAIN tm |-> IF \E i \in to : f = vmm_phys_of_user(tm, tp[p].root, TVas[i])
                                      THEN [tm[f] EXCEPT !.val = v] ELSE tm[f]]
        /\ tp' = [tp EXCEPT ![p].val = [i \in DOMAIN TVas |-> IF i \in to THEN v ELSE @[i]]]
        /\ tk' = [tk EXCEPT !.steps = @ + 1, !.torn = @ \/ \E i \in to : TPte(tm, tp[p].root, TVas[i]).cow]

\* fork, with the pages copied or shared; on failure the new tree is freed.
TForked(p, c, made, r) ==
  /\ tm' = IF r.ok THEN r.m ELSE vmm_free_user_pml4(r.m, made)
  /\ tp' = IF r.ok
           THEN [tp EXCEPT ![c] = [root |-> made,
                                   val |-> [i \in DOMAIN TVas |-> IF TShared(TPte(tm, tp[p].root, TVas[i]))
                                                                  THEN tp[p].val[i] ELSE -1]]]
           ELSE tp
  /\ TCount

TFork(p, c) ==
  /\ TOn("fork") /\ TLive(p) /\ ~TLive(c) /\ TFree(tm) # {}
  /\ LET f == Min(TFree(tm))
     IN \E r \in {vmm_copy_user_pages(vmm_create_user_pml4(tm), tp[p].root, f)} : TForked(p, c, f, r)

TForkCow(p, c) ==
  /\ TOn("cow") /\ TLive(p) /\ ~TLive(c) /\ TFree(tm) # {}
  /\ LET f == Min(TFree(tm))
     IN \E r \in {vmm_cow_user_pages(vmm_create_user_pml4(tm), tp[p].root, f)} : TForked(p, c, f, r)

\* execve empties the tree and keeps its tables; reap frees all of it.
TExec(p) ==
  /\ TOn("exec") /\ TLive(p)
  /\ tm' = vmm_free_user_pages(tm, tp[p].root)
  /\ tp' = [tp EXCEPT ![p].val = TNoVals]
  /\ TCount

TReap(p) ==
  /\ TOn("reap") /\ TLive(p)
  /\ tm' = vmm_free_user_pml4(tm, tp[p].root)
  /\ tp' = [tp EXCEPT ![p] = [root |-> 0, val |-> TNoVals]]
  /\ TCount

(******************************** the kernel *******************************)

\* kva_alloc_pages and kva_free_pages of one page.
TKmap(i) ==
  /\ TOn("kernel") /\ i \notin tk.kmapped
  /\ LET f == Min(TFree(tm))
         r == vmm_map_page([tm EXCEPT ![f] = TPage], TKvas[i], f)
     IN IF TFree(tm) = {} THEN TPanic("oom")
        ELSE IF r.res # "ok" THEN TPanic(r.res)
        ELSE /\ tm' = r.m
             /\ tk' = [tk EXCEPT !.steps = @ + 1, !.kmapped = @ \cup {i}]
             /\ UNCHANGED tp

TKunmap(i) ==
  /\ TOn("kernel") /\ i \in tk.kmapped
  /\ LET r == vmm_unmap_page(tm, TKvas[i])
     IN IF r.res # "ok" THEN TPanic(r.res)
        ELSE /\ tm' = pmm_free_page(r.m, vmm_phys_of(tm, TKvas[i]))
             /\ tk' = [tk EXCEPT !.steps = @ + 1, !.kmapped = @ \ {i}]
             /\ UNCHANGED tp

\* vmm_init: the root, a table for the identity map of low memory and one for
\* the kernel, both of huge pages; vmm_teardown_identity forgets the first.
TBoot ==
  /\ load.part = "tables" /\ tk.st = "init"
  /\ LET huge == [TEntry(0, TRUE, FALSE) EXCEPT !.ps = TRUE]
         root == [TTable EXCEPT !.ents = [TEmpty EXCEPT ![1] = TEntry(2, TRUE, FALSE), ![THigh] = TEntry(3, TRUE, FALSE)]]
         low == [TTable EXCEPT !.ents = [TEmpty EXCEPT ![1] = huge]]
     IN tm' = [tm EXCEPT ![1] = root, ![2] = low, ![3] = low]
  /\ tk' = [tk EXCEPT !.st = "identity"]
  /\ UNCHANGED tp

TTeardown ==
  /\ load.part = "tables" /\ tk.st = "identity"
  /\ tm' = TPut(tm, 1, 1, TNone)
  /\ tk' = [tk EXCEPT !.st = "up"]
  /\ UNCHANGED tp

TSpawn(p) ==
  /\ TOn("spawn") /\ ~TLive(p) /\ TFree(tm) # {}
  /\ tm' = vmm_create_user_pml4(tm)
  /\ tp' = [tp EXCEPT ![p].root = Min(TFree(tm))]
  /\ TCount

TablesInit ==
  /\ tm = [f \in 1..(IF load.part = "tables" THEN load.frames ELSE 0) |-> TFreeFrame]
  /\ tp = [p \in TProcs |-> [root |-> 0, val |-> TNoVals]]
  /\ tk = [st |-> "init", kmapped |-> {}, torn |-> FALSE, steps |-> 0]

TablesNext ==
  \/ TBoot \/ TTeardown
  \/ \E p \in TProcs : TSpawn(p)
  \/ \E p \in TProcs : TExec(p)
  \/ \E p \in TProcs : TReap(p)
  \/ \E p, c \in TProcs : TFork(p, c)
  \/ \E p, c \in TProcs : TForkCow(p, c)
  \/ \E p \in TProcs, i \in DOMAIN TVas : TMap(p, i)
  \/ \E p \in TProcs, i \in DOMAIN TVas : TMapDevice(p, i)
  \/ \E p \in TProcs, i \in DOMAIN TVas : TUnmap(p, i)
  \/ \E p \in TProcs, i \in DOMAIN TVas, prot \in {"none", "read", "write"} : TProtect(p, i, prot)
  \/ \E p \in TProcs, i \in DOMAIN TVas, v \in 1..2 : TStore(p, i, v)
  \/ \E p \in TProcs : TPoke(p, 2)
  \/ \E i \in DOMAIN TKvas : TKmap(i)
  \/ \E i \in DOMAIN TKvas : TKunmap(i)

(***************************** what must hold ******************************)

\* Nothing more is said once munmap has met a PROT_NONE page, whose entry it
\* leaves behind with its frame freed (vmm.c:744), or mprotect or a write of
\* the kernel a page that is shared copy-on-write, which they take for one of
\* its own (vmm_cow_user_pages has no caller): torn.
TRoots == {1} \cup ({tp[p].root : p \in TProcs} \ {0})
TUp == load.part = "tables" /\ tk.st \notin {"init", "identity"} /\ ~tk.torn

\* A page that is mapped holds what its own process put there last, whatever
\* the others did after a fork (vmm.c:824-1108).
TOwnValues ==
  TUp => \A p \in TProcs : TLive(p) => \A i \in DOMAIN TVas :
    LET e == TPte(tm, tp[p].root, TVas[i])
    IN tp[p].val[i] # -1 /\ e.p /\ e.a # TDevice => tm[e.a].kind = "page" /\ tm[e.a].val = tp[p].val[i]

\* Trees share nothing but the kernel's half and the pages counted as shared:
\* every table below a root has one entry that points to it, every page as many
\* as its count, and a free frame none; nothing in use is out of reach but the
\* table of the identity map (vmm.c:182-199, 560-622, 717-757, 1160-1214).
TEntriesTo(f) ==
  LET user == {x \in (DOMAIN tm) \X (1..TWidth) : tm[x[1]].kind = "table" /\ tm[x[1]].ents[x[2]].a = f}
  IN Cardinality({x \in user : x[1] \in TRoots \ {1} => x[2] # THigh})
TFramesOwned ==
  TUp => \A f \in DOMAIN tm :
    CASE tm[f].kind = "free"  -> TEntriesTo(f) = 0
      [] tm[f].kind = "page"  -> TEntriesTo(f) = tm[f].refs
      [] tm[f].kind = "table" -> TEntriesTo(f) = IF f \in TRoots \cup {2} THEN 0 ELSE 1

\* The kernel's pages are the same in every space, those mapped after the space
\* was made included, and no process can reach them (vmm.c:456-488, 266-309).
TKernelShared ==
  TUp => \A i \in DOMAIN TKvas : \A r \in TRoots :
    /\ (TPte(tm, r, TKvas[i]).p) = (i \in tk.kmapped)
    /\ TPte(tm, r, TKvas[i]) = TPte(tm, 1, TKvas[i])
    /\ ~TPte(tm, r, TKvas[i]).u

\* No page is mapped over another and the kernel unmaps only what it mapped:
\* out of memory is the only panic of vmm.c that comes (vmm.c:299-378, 508-512).
TOnlyMemoryEnds == tk.st \notin {"double", "absent"}

TablesIntact == TOnlyMemoryEnds /\ TOwnValues /\ TFramesOwned /\ TKernelShared
=============================================================================
