------------------------------- MODULE Memory -------------------------------
(***************************************************************************)
(* User memory: physical frames (pmm.c), page tables (vmm.c), the mapping  *)
(* tables (vma.c), the brk and mmap areas (sys_memory.c) and shared memory *)
(* files (memfd.c), through brk, mmap, munmap, mprotect, fork, clone,      *)
(* execve, spawn, exit and waitpid.  Every call runs to its end before     *)
(* another task runs, so each is one action.  Frames that hold page tables *)
(* are left out.  Addresses are page numbers: the program at ELF_VA, the   *)
(* stack at STACK_VA, the heap from HEAP_BASE, the mmap area from          *)
(* MMAP_BASE to USER_ADDR_MAX.                                             *)
(***************************************************************************)
EXTENDS RangeList, FiniteSets

CONSTANTS
  Tasks,            \* the tasks; the first runs from the start and never exits
  MMAP_FREE_MAX, VMA_CAPACITY, Memfds, MEMFD_PAGES_MAX,
  Loads             \* the workloads, of which a behaviour has one

VARIABLES
  load,
  used,             \* the frames pmm_bitmap marks allocated
  pte,              \* leaf page table entries, per address space
  slots,            \* the mapping tables; <<>> is not allocated
  task,
  memfd,
  panicked,         \* "no", "double-map" or "oom"
  odd               \* ghost: the calls that have broken an invariant, after which no call is made

vars == <<load, used, pte, slots, task, memfd, panicked, odd>>

\* A workload is the system calls made and the bounds on them.
Calls == load.calls
MaxFrame == load.frames       \* frames 1..MaxFrame
HEAP_MAX == load.heap         \* the heap ends below this page
MaxGrow == load.grow          \* pages one brk call adds
MmapPages == load.area        \* pages of the mmap area
MaxLen == load.len            \* pages of one mapping
MaxTables == load.tables      \* mapping tables that can be allocated
MaxRef == 3                   \* a table's reference count
Mappers == load.mappers       \* the tasks that call mmap

ELF_VA == 1
STACK_VA == 2
HEAP_BASE == 3
MMAP_BASE == HEAP_MAX
USER_ADDR_MAX == MMAP_BASE + MmapPages

ASSUME MemoryAssumption ==
  /\ 1 \in Tasks /\ Tasks \subseteq Nat
  /\ \A l \in Loads : l.heap >= HEAP_BASE /\ l.frames >= 2 /\ l.mappers \subseteq Tasks

Frames == 1..MaxFrame
Va == 1..USER_ADDR_MAX - 1
Tables == 1..MaxTables
MmapRanges == {r \in [va : MMAP_BASE..USER_ADDR_MAX - 1, n : 1..MaxLen] : End(r) <= USER_ADDR_MAX}

\* shared is not in the entry: it records the start of the MAP_SHARED mapping
\* that the page belongs to, or 0.
NoPte == [f |-> 0, present |-> FALSE, shared |-> 0]
Pte(f) == [f |-> f, present |-> TRUE, shared |-> 0]
EmptySpace == [v \in Va |-> NoPte]
NoTask == [st |-> "none", vm |-> 0, mmap_base |-> 0, free |-> <<>>, brk |-> 0,
           tbl |-> 0, n |-> 0, ref |-> 0, fds |-> {}]
NoMemfd == [use |-> FALSE, ref |-> 0, count |-> 0, pg |-> [i \in 1..MEMFD_PAGES_MAX |-> 0]]
NoSlots == <<>>

NewTask(p, t) ==
  [NoTask EXCEPT !.st = "live", !.vm = p, !.mmap_base = MMAP_BASE, !.brk = HEAP_BASE,
                 !.tbl = t, !.ref = 1]
Image == <<[va |-> ELF_VA, n |-> 1, prot |-> 5, type |-> "elf"],
           [va |-> STACK_VA, n |-> 1, prot |-> 3, type |-> "stack"]>>

\* The first task has just called execve.
Init ==
  LET t == vma_insert(vma_insert(EmptyTable(VMA_CAPACITY), Image[1]), Image[2]) IN
  /\ load \in Loads
  /\ used = {1, 2}
  /\ pte = [p \in Tasks |-> IF p = 1 THEN [EmptySpace EXCEPT ![ELF_VA] = Pte(1), ![STACK_VA] = Pte(2)]
                            ELSE EmptySpace]
  /\ slots = [i \in Tables |-> IF i = 1 THEN t.slot ELSE NoSlots]
  /\ task = [p \in Tasks |-> IF p = 1 THEN [NewTask(1, 1) EXCEPT !.n = t.n] ELSE NoTask]
  /\ memfd = [m \in Memfds |-> NoMemfd]
  /\ panicked = "no" /\ odd = {}

-----------------------------------------------------------------------------
\* pmm_alloc_page takes the lowest free frame.
Free(u) == Cardinality(Frames \ u)
NthFree(u, i) == CHOOSE f \in Frames \ u : Cardinality({g \in Frames \ u : g < f}) = i - 1
Allocated(u, n) == {NthFree(u, i) : i \in 1..n}

\* The range with new frames, and without the entries that are present
\* (vmm_unmap_user_page leaves one that is not).
Mapped(u, pt, r) ==
  [v \in Va |-> IF v \in PagesOf(r) THEN Pte(NthFree(u, v - r.va + 1)) ELSE pt[v]]
Unmapped(pt, r) == [v \in Va |-> IF v \in PagesOf(r) /\ pt[v].present THEN NoPte ELSE pt[v]]

\* The frames of the range: vmm_phys_of_user, vmm_phys_of_user_raw.
PresentFrames(pt, r) == {pt[v].f : v \in {w \in PagesOf(r) : pt[w].present}}
RawFrames(pt, r) == {pt[v].f : v \in PagesOf(r)} \ {0}

\* Mapping the range page by page meets an entry that is present before
\* frames run out.
DoubleMaps(u, pt, r) == \E v \in PagesOf(r) : pt[v].present /\ v - r.va < Free(u)

Panic(why) == panicked' = why /\ UNCHANGED <<used, pte, slots, task, memfd>>
\* The call is one of those named in W.
Odd(W) == odd' = odd \cup W
If(cond, what) == IF cond THEN {what} ELSE {}

View(p) == [slot |-> slots[task[p].tbl], n |-> task[p].n]
\* Task p becomes tk with mapping table t.
SetTask(p, tk, t) ==
  /\ task' = [task EXCEPT ![p] = [tk EXCEPT !.n = t.n]]
  /\ slots' = [slots EXCEPT ![tk.tbl] = t.slot]

Running(p, call) == panicked = "no" /\ odd = {} /\ call \in Calls /\ task[p].st = "live"
Space(p) == pte[task[p].vm]
SetSpace(p, pt) == pte' = [pte EXCEPT ![task[p].vm] = pt]
NoShared(p) == \A v \in Va : Space(p)[v].shared = 0
None(p, r) == \E v \in PagesOf(r) : Space(p)[v].f # 0 /\ ~Space(p)[v].present

-----------------------------------------------------------------------------
\* mmap_free_insert.
mmap_free_insert(l, r) ==
  LET T == Touching(l, r)
      i == First(T)
  IN  IF T = {} THEN AddNew(l, r, MMAP_FREE_MAX)
      ELSE IF End(l[i]) = r.va THEN MergeAfter(l, i, r) ELSE MergeBoth(l, i, r)

\* The address of a mapping of n pages and the task that has taken it: from
\* the free list, or at mmap_base.
Places(p, n) ==
  LET tk == task[p] IN
  IF Fits(tk.free, n) # {}
  THEN {[va |-> tk.free[i].va, tk |-> [tk EXCEPT !.free = TakeAt(@, i, n)]] :
          i \in {j \in Fits(tk.free, n) : IsBest(tk.free, n, j)}}
  ELSE {[va |-> tk.mmap_base, tk |-> tk]}

\* The call fails after it took an address off the free list.
Refused(p, tk) == SetTask(p, tk, View(p)) /\ UNCHANGED <<used, pte, memfd, panicked>>

\* base >= mmap_base: the bump allocator was used.
Mut_Advance(tk, r) == [tk EXCEPT !.mmap_base = IF r.va > @ THEN End(r) ELSE @]
Advance(tk, r) == [tk EXCEPT !.mmap_base = IF r.va >= @ THEN End(r) ELSE @]

\* The page loop of sys_mmap and what follows it: a page that is mapped is a
\* panic; without a frame the pages mapped so far are unmapped again.
Populate(p, tk, done, t, u, pt, r) ==
  IF DoubleMaps(u, pt, r) THEN Panic("double-map")
  ELSE /\ IF Free(u) < r.n
          THEN /\ used' = u
               /\ SetSpace(p, [v \in Va |-> IF v \in PagesOf(r) /\ v - r.va < Free(u) THEN NoPte ELSE pt[v]])
               /\ SetTask(p, tk, t)
          ELSE /\ used' = u \cup Allocated(u, r.n)
               /\ SetSpace(p, Mapped(u, pt, r))
               /\ SetTask(p, done, vma_insert(t, [va |-> r.va, n |-> r.n, prot |-> 3, type |-> "mmap"]))
       /\ UNCHANGED <<memfd, panicked>>

Mmap(p, n) ==
  /\ Running(p, "mmap") /\ p \in Mappers
  /\ Odd({})
  /\ \E pl \in Places(p, n) :
       LET r == [va |-> pl.va, n |-> n] IN
       IF End(r) > USER_ADDR_MAX THEN Refused(p, pl.tk)
       ELSE Populate(p, pl.tk, Advance(pl.tk, r), View(p), used, Space(p), r)

\* MAP_FIXED: the pages that are present are unmapped and freed first, also
\* those of a memfd, while the frame of a PROT_NONE page is forgotten.  The
\* range is taken neither off the free list nor from above mmap_base.
MapFixed(p, r) ==
  /\ Running(p, "fixed")
  /\ Odd(If(None(p, r), "fixed none")
         \cup If(\E v \in PagesOf(r) : Space(p)[v].shared # 0, "fixed shared")
         \cup If(\E v \in PagesOf(r) : Space(p)[v].f = 0, "fixed free"))
  /\ Populate(p, task[p], task[p], vma_remove(View(p), r),
              used \ PresentFrames(Space(p), r), Unmapped(Space(p), r), r)

\* MAP_SHARED of a memfd, if it is large enough, maps its frames.
MmapShared(p, m, n) ==
  /\ Running(p, "shared") /\ m \in task[p].fds
  /\ Odd({})
  /\ \E pl \in Places(p, n) :
       LET r == [va |-> pl.va, n |-> n]
           frame(v) == memfd[m].pg[v - r.va + 1]
       IN
       IF End(r) > USER_ADDR_MAX \/ n > memfd[m].count THEN Refused(p, pl.tk)
       ELSE IF \E v \in PagesOf(r) : Space(p)[v].present THEN Panic("double-map")
       ELSE /\ SetSpace(p, [v \in Va |-> IF v \in PagesOf(r) THEN [Pte(frame(v)) EXCEPT !.shared = r.va]
                                         ELSE Space(p)[v]])
            /\ SetTask(p, Advance(pl.tk, r),
                       vma_insert(View(p), [va |-> r.va, n |-> n, prot |-> 3, type |-> "shared"]))
            /\ UNCHANGED <<used, memfd, panicked>>

\* sys_munmap frees the frames unless a shared mapping starts at the address.
\* Whatever was mapped there, the range goes to the free list.
Munmap(p, r) ==
  LET isShared == \E e \in Entries(View(p)) : e.va = r.va /\ e.type = "shared" IN
  /\ Running(p, "munmap")
  /\ Odd(If(None(p, r), "unmap none")
         \cup If(\E v \in PagesOf(r) : Space(p)[v].f = 0, "unmap free")
         \cup If(~isShared /\ \E v \in PagesOf(r) : Space(p)[v].shared # 0, "unmap inside")
         \cup If(isShared /\ \E v \in PagesOf(r) : Space(p)[v].f # 0 /\ Space(p)[v].shared = 0, "unmap past"))
  /\ used' = IF isShared THEN used ELSE used \ RawFrames(Space(p), r)
  /\ SetSpace(p, Unmapped(Space(p), r))
  /\ SetTask(p, [task[p] EXCEPT !.free = mmap_free_insert(@, r)], vma_remove(View(p), r))
  /\ UNCHANGED <<memfd, panicked>>

\* sys_mprotect.  PROT_NONE (0) keeps the frame in an entry that is not
\* present; vmm_set_user_prot changes no entry that is not present.
Mprotect(p, r, prot) ==
  /\ Running(p, IF prot = 0 THEN "mprotect none" ELSE "mprotect") /\ Odd({})
  /\ SetSpace(p, [v \in Va |-> IF v \in PagesOf(r) /\ Space(p)[v].present
                               THEN [Space(p)[v] EXCEPT !.present = (prot # 0)] ELSE Space(p)[v]])
  /\ SetTask(p, task[p], vma_update_prot(View(p), r, prot))
  /\ UNCHANGED <<used, memfd, panicked>>

-----------------------------------------------------------------------------
\* The heap's entry is the first of its type.
HeapSlots(t) == {k \in 1..t.n : t.slot[k].type = "heap"}
Mut_HeapTo(t, top) ==
  LET k == First(HeapSlots(t)) IN Put(t, k, [t.slot[k] EXCEPT !.n = @ + 1])
HeapTo(t, top) ==
  LET k == First(HeapSlots(t)) IN Put(t, k, [t.slot[k] EXCEPT !.n = top - t.slot[k].va])

BrkTo(tk, top) == [tk EXCEPT !.brk = top]

\* sys_brk upwards: when frames run out the pages mapped so far stay mapped
\* and the break stays where it was.
BrkGrow(p, top) ==
  LET r == [va |-> task[p].brk, n |-> top - task[p].brk]
      some == [r EXCEPT !.n = Free(used)]
      t == View(p)
  IN
  /\ Running(p, "brk") /\ top > task[p].brk /\ top <= task[p].brk + MaxGrow
  /\ Odd(If(Free(used) \in 1..r.n - 1, "brk short"))
  /\ IF DoubleMaps(used, Space(p), r) THEN Panic("double-map")
     ELSE /\ IF Free(used) < r.n
             THEN /\ used' = Frames /\ SetSpace(p, Mapped(used, Space(p), some))
                  /\ UNCHANGED <<task, slots>>
             ELSE /\ used' = used \cup Allocated(used, r.n)
                  /\ SetSpace(p, Mapped(used, Space(p), r))
                  /\ SetTask(p, BrkTo(task[p], top),
                             IF HeapSlots(t) # {} THEN HeapTo(t, top)
                             ELSE vma_insert(t, [va |-> r.va, n |-> r.n, prot |-> 3, type |-> "heap"]))
          /\ UNCHANGED <<memfd, panicked>>

BrkShrink(p, top) ==
  LET r == [va |-> top, n |-> task[p].brk - top]
      t == View(p)
      h == t.slot[First(HeapSlots(t))]
  IN
  /\ Running(p, "brk") /\ top < task[p].brk /\ Odd({})
  /\ used' = used \ PresentFrames(Space(p), r)
  /\ SetSpace(p, Unmapped(Space(p), r))
  /\ SetTask(p, BrkTo(task[p], top),
             IF HeapSlots(t) = {} THEN t ELSE IF top <= h.va THEN vma_remove(t, h) ELSE HeapTo(t, top))
  /\ UNCHANGED <<memfd, panicked>>

-----------------------------------------------------------------------------
\* memfd_vfs_close, for one descriptor of each of the memfds in M.
Closed(mf, M) ==
  [m \in Memfds |-> IF m \notin M THEN mf[m]
                   ELSE IF mf[m].ref > 1 THEN [mf[m] EXCEPT !.ref = @ - 1] ELSE NoMemfd]
Mut_ClosedFramesEarly(mf, M) ==
  UNION {{mf[m].pg[i] : i \in 1..mf[m].count} : m \in M}
ClosedFrames(mf, M) ==
  UNION {{mf[m].pg[i] : i \in 1..mf[m].count} : m \in {k \in M : mf[k].ref = 1}}
Duped(mf, M) == [m \in Memfds |-> IF m \in M THEN [mf[m] EXCEPT !.ref = @ + 1] ELSE mf[m]]

SpaceFrames(pt) == {pt[v].f : v \in Va} \ {0}

\* No page of memfd m is mapped anywhere.
NotMapped(m) ==
  \A q \in Tasks, v \in Va : pte[q][v].shared # 0 => \A i \in DOMAIN memfd[m].pg : pte[q][v].f # memfd[m].pg[i]

\* The last descriptor of a memfd in M is closed while somebody has it mapped.
ClosesMapped(M) == If(\E m \in M : memfd[m].ref = 1 /\ ~NotMapped(m), "close mapped")

\* sched_exit closes the descriptors; the address space stays for waitpid.
Exited(p, tk, u) ==
  /\ task' = [task EXCEPT ![p] = [tk EXCEPT !.st = "zombie", !.fds = {}]]
  /\ memfd' = Closed(memfd, tk.fds)
  /\ used' = u \ ClosedFrames(memfd, tk.fds)

Exit(p) ==
  /\ Running(p, "exit") /\ p # 1
  /\ Odd(If(~NoShared(p), "exit shared") \cup ClosesMapped(task[p].fds))
  /\ Exited(p, task[p], used)
  /\ UNCHANGED <<pte, slots, panicked>>

\* The image of execve and spawn: the program's frame from kva_alloc_pages,
\* which panics without memory, then the stack's.
ImageSpace(u) ==
  [EmptySpace EXCEPT ![ELF_VA] = Pte(NthFree(u, 1)), ![STACK_VA] = Pte(NthFree(u, 2))]

Exec(p) ==
  LET u == used \ SpaceFrames(Space(p))
      tk == [NewTask(task[p].vm, task[p].tbl) EXCEPT !.ref = task[p].ref, !.fds = task[p].fds]
      elf == vma_insert(vma_clear(View(p)), Image[1])
  IN
  /\ Running(p, "exec")
  /\ Odd(If(~NoShared(p), "exec shared") \cup (IF Free(u) = 1 THEN ClosesMapped(task[p].fds) ELSE {}))
  /\ IF Free(u) = 0 THEN Panic("oom")
     ELSE /\ IF Free(u) = 1
             THEN /\ Exited(p, [tk EXCEPT !.n = elf.n], u \cup Allocated(u, 1))
                  /\ SetSpace(p, [EmptySpace EXCEPT ![ELF_VA] = Pte(NthFree(u, 1))])
                  /\ slots' = [slots EXCEPT ![tk.tbl] = elf.slot]
             ELSE /\ used' = u \cup Allocated(u, 2)
                  /\ SetSpace(p, ImageSpace(u))
                  /\ SetTask(p, tk, vma_insert(elf, Image[2]))
                  /\ UNCHANGED memfd
          /\ UNCHANGED panicked

\* A mapping table from kva_alloc_pages.
NewTables == {i \in Tables : slots[i] = NoSlots}
NewTable == First(NewTables)
Startable(p, c, call) == Running(p, call) /\ task[c].st = "none" /\ NewTables # {}

\* sys_spawn.  elf_load records the program's mapping for the current task,
\* the parent; the child's table gets its stack.  No descriptor is passed.
Spawn(p, c) ==
  LET t == vma_insert(View(p), Image[1])
      ct == vma_insert(EmptyTable(VMA_CAPACITY), Image[2])
  IN
  /\ Startable(p, c, "spawn") /\ Odd({})
  /\ IF Free(used) = 0 THEN Panic("oom")
     ELSE /\ IF Free(used) = 1
             THEN SetTask(p, task[p], t) /\ UNCHANGED <<used, pte>>
             ELSE /\ used' = used \cup Allocated(used, 2)
                  /\ pte' = [pte EXCEPT ![c] = ImageSpace(used)]
                  /\ task' = [task EXCEPT ![p].n = t.n, ![c] = [NewTask(c, NewTable) EXCEPT !.n = ct.n]]
                  /\ slots' = [slots EXCEPT ![task[p].tbl] = t.slot, ![NewTable] = ct.slot]
          /\ UNCHANGED <<memfd, panicked>>

\* sys_fork copies the pages that are present into new frames.  Without
\* enough of them it takes back the pages, but neither the mapping table nor
\* the references of the copied descriptors.
Fork(p, c) ==
  LET V == {v \in Va : Space(p)[v].present}
      copy == [v \in Va |-> IF v \in V THEN Pte(NthFree(used, Cardinality({w \in V : w <= v}))) ELSE NoPte]
  IN
  /\ Startable(p, c, "fork")
  /\ Odd(If(~NoShared(p), "fork shared") \cup If(Free(used) < Cardinality(V), "fork short"))
  /\ memfd' = Duped(memfd, task[p].fds)
  /\ slots' = [slots EXCEPT ![NewTable] = [k \in 1..VMA_CAPACITY |->
                                            IF k <= task[p].n THEN View(p).slot[k] ELSE NoEntry]]
  /\ IF Free(used) < Cardinality(V) THEN UNCHANGED <<used, pte, task>>
     ELSE /\ used' = used \cup Allocated(used, Cardinality(V))
          /\ pte' = [pte EXCEPT ![c] = copy]
          /\ task' = [task EXCEPT ![c] = [task[p] EXCEPT !.vm = c, !.tbl = NewTable, !.ref = 1]]
  /\ UNCHANGED panicked

\* sys_clone with CLONE_VM and CLONE_THREAD: the thread uses the same page
\* table and mapping table, and a copy of everything else.
Clone(p, c) ==
  /\ Running(p, "clone") /\ task[c].st = "none" /\ task[p].ref < MaxRef /\ Odd({})
  /\ LET tk == [task[p] EXCEPT !.ref = @ + 1] IN task' = [task EXCEPT ![p] = tk, ![c] = tk]
  /\ memfd' = Duped(memfd, task[p].fds)
  /\ UNCHANGED <<used, pte, slots, panicked>>

\* sys_waitpid frees the address space of a group leader, and the mapping
\* table when the task's own count says so.
Mut_FreesSpace(p) == TRUE
FreesSpace(p) == task[p].vm = p
Mut_FreesTable(tk) == FALSE
FreesTable(tk) == tk.ref = 1

Reap(p) ==
  LET tk == task[p] IN
  /\ panicked = "no" /\ tk.st = "zombie" /\ Odd({})
  /\ task' = [task EXCEPT ![p] = NoTask]
  /\ slots' = IF FreesTable(tk) THEN [slots EXCEPT ![tk.tbl] = NoSlots] ELSE slots
  /\ IF FreesSpace(p)
     THEN used' = used \ SpaceFrames(Space(p)) /\ SetSpace(p, EmptySpace)
     ELSE UNCHANGED <<used, pte>>
  /\ UNCHANGED <<memfd, panicked>>

-----------------------------------------------------------------------------
\* memfd_alloc takes the first unused memfd.
MemfdCreate(p, m) ==
  /\ Running(p, "memfd") /\ IsFirst({k \in Memfds : ~memfd[k].use}, m) /\ Odd({})
  /\ memfd' = [memfd EXCEPT ![m] = [NoMemfd EXCEPT !.use = TRUE, !.ref = 1]]
  /\ task' = [task EXCEPT ![p].fds = @ \cup {m}]
  /\ UNCHANGED <<used, pte, slots, panicked>>

\* memfd_truncate upwards: page_count is set only when every frame was found.
Grow(p, m, k) ==
  LET old == memfd[m].count
      got == IF Free(used) < k - old THEN Free(used) ELSE k - old
      pages == [i \in 1..MEMFD_PAGES_MAX |->
                  IF i > old /\ i <= old + got THEN NthFree(used, i - old) ELSE memfd[m].pg[i]]
  IN
  /\ Running(p, "truncate") /\ m \in task[p].fds /\ k > old
  /\ Odd(If(got \in 1..k - old - 1, "truncate short"))
  /\ used' = used \cup Allocated(used, got)
  /\ memfd' = [memfd EXCEPT ![m].pg = pages, ![m].count = IF got = k - old THEN k ELSE @]
  /\ UNCHANGED <<pte, slots, task, panicked>>

Shrink(p, m, k) ==
  LET cut == k + 1..memfd[m].count IN
  /\ Running(p, "truncate") /\ m \in task[p].fds /\ k < memfd[m].count
  /\ Odd(If(~NotMapped(m), "shrink mapped"))
  /\ used' = used \ {memfd[m].pg[i] : i \in cut}
  /\ memfd' = [memfd EXCEPT ![m].count = k,
                            ![m].pg = [i \in DOMAIN @ |-> IF i \in cut THEN 0 ELSE @[i]]]
  /\ UNCHANGED <<pte, slots, task, panicked>>

Close(p, m) ==
  /\ Running(p, "memfd") /\ m \in task[p].fds
  /\ Odd(ClosesMapped({m}))
  /\ memfd' = Closed(memfd, {m})
  /\ used' = used \ ClosedFrames(memfd, {m})
  /\ task' = [task EXCEPT ![p].fds = @ \ {m}]
  /\ UNCHANGED <<pte, slots, panicked>>

-----------------------------------------------------------------------------
Next ==
  /\ UNCHANGED load
  /\ \E p \in Tasks :
       \/ \E n \in 1..MaxLen : Mmap(p, n) \/ \E m \in Memfds : MmapShared(p, m, n)
       \/ \E r \in MmapRanges :
            MapFixed(p, r) \/ Munmap(p, r) \/ \E prot \in {0, 1, 3} : Mprotect(p, r, prot)
       \/ \E top \in HEAP_BASE..HEAP_MAX : BrkGrow(p, top) \/ BrkShrink(p, top)
       \/ \E c \in Tasks : Spawn(p, c) \/ Fork(p, c) \/ Clone(p, c)
       \/ Exec(p) \/ Exit(p) \/ Reap(p)
       \/ \E m \in Memfds :
            \/ MemfdCreate(p, m) \/ Close(p, m)
            \/ \E k \in 0..MEMFD_PAGES_MAX : Grow(p, m, k) \/ Shrink(p, m, k)

Spec == Init /\ [][Next]_vars

-----------------------------------------------------------------------------
TypeOK ==
  /\ used \subseteq Frames
  /\ \A p \in Tasks : \A v \in Va : pte[p][v].f \in 0..MaxFrame /\ pte[p][v].present \in BOOLEAN
  /\ \A i \in Tables : Len(slots[i]) \in {0, VMA_CAPACITY}
  /\ \A p \in Tasks : task[p].st # "none" =>
       /\ task[p].n \in 0..VMA_CAPACITY /\ Len(task[p].free) <= MMAP_FREE_MAX
       /\ task[p].mmap_base \in MMAP_BASE..USER_ADDR_MAX /\ task[p].brk \in HEAP_BASE..HEAP_MAX
  /\ \A m \in Memfds : memfd[m].count \in 0..MEMFD_PAGES_MAX
  /\ panicked \in {"no", "double-map", "oom"}

\* What owns a frame: a page of an address space that is not a shared
\* mapping, or a page of a memfd.
Owners(f) ==
  {o \in Tasks \X Va : pte[o[1]][o[2]].f = f /\ pte[o[1]][o[2]].shared = 0} \cup
  {o \in {"memfd"} \X Memfds \X (1..MEMFD_PAGES_MAX) :
     memfd[o[2]].use /\ o[3] <= memfd[o[2]].count /\ memfd[o[2]].pg[o[3]] = f}

\* Every allocated frame has an owner, so every frame is freed some time, no
\* frame has two owners, none is mapped after it was freed, and a shared
\* mapping shows only pages of a memfd - until one of these calls, which do
\* what other comments of the code exclude:
\* a frame is forgotten when MAP_FIXED covers a PROT_NONE page
\* (sys_memory.c:248), when munmap starts at a shared mapping and goes past it,
\* and when ftruncate runs out of memory (memfd.c:202);
\* a frame is freed that is still in use when munmap meets a PROT_NONE page
\* (vmm.c:744) or shared pages that no entry of the mapping table starts with,
\* as the second of two adjacent mappings (sys_memory.c:409), when MAP_FIXED covers a shared page, when a process that
\* has one mapped calls execve or exits (vmm.c:1160), and when the last
\* descriptor of a memfd is closed (memfd.c:97), by exit as well, or the memfd is
\* truncated, while it is mapped.
Forgets == {"fixed none", "unmap past", "truncate short"}
FreesInUse == {"unmap none", "unmap inside", "fixed shared", "exec shared", "exit shared", "close mapped", "shrink mapped"}
OwnedOnce ==
  /\ odd \cap Forgets = {} => \A f \in used : Owners(f) # {}
  /\ odd \cap FreesInUse = {} =>
       /\ \A f \in Frames : Owners(f) # {} => f \in used /\ Cardinality(Owners(f)) = 1
       /\ \A p \in Tasks, v \in Va : pte[p][v].shared # 0 =>
            \E m \in Memfds : memfd[m].use /\ \E i \in 1..memfd[m].count : memfd[m].pg[i] = pte[p][v].f

\* The addresses mmap may hand out next, the free list and all from
\* mmap_base up, are not mapped and no address is there twice, until MAP_FIXED
\* covers an address that was free, or munmap one that was free or PROT_NONE.
FreeIsUnmapped ==
  odd \cap {"fixed free", "unmap free", "unmap none"} = {} =>
  \A p \in Mappers : task[p].st = "live" =>
    LET tk == task[p] IN
    /\ \A i \in DOMAIN tk.free :
         /\ End(tk.free[i]) <= tk.mmap_base
         /\ \A v \in PagesOf(tk.free[i]) : Space(p)[v].f = 0
         /\ \A j \in DOMAIN tk.free : i # j => Apart(tk.free[i], tk.free[j])
    /\ \A v \in tk.mmap_base..USER_ADDR_MAX - 1 : Space(p)[v].f = 0

\* The heap is mapped exactly up to the break, until brk finds memory for a
\* part of the pages only, and keeps them (sys_memory.c:55).
HeapIsBrk ==
  "brk short" \notin odd =>
  \A p \in Tasks : task[p].st = "live" =>
    \A v \in HEAP_BASE..HEAP_MAX - 1 : (Space(p)[v].f # 0) <=> (v < task[p].brk)

\* What a task's TCB says of its address space is true: types, the addresses
\* mmap may take, and the break (sys_mmap, sys_munmap, sys_brk, sys_execve),
\* with the exceptions named above.
SpaceMatchesTask == TypeOK /\ FreeIsUnmapped /\ HeapIsBrk

\* The kernel does not stop over a page that is mapped twice
\* (vmm_map_user_page_nolock's panic).
NoDoubleMap == panicked # "double-map"

\* A running task keeps its program and its stack: reaping a thread does not
\* "destroy the address space of all sibling threads still running"
\* (sys_waitpid).
ImageStays ==
  \A p \in Tasks : task[p].st = "live" => Space(p)[ELF_VA].f # 0 /\ Space(p)[STACK_VA].f # 0

\* A task's mapping table shows each of its pages once, and as shared if it
\* is, and shows no page that is not mapped (without PROT_NONE pages at a
\* fork, threads and spawn, which copy or fill the table otherwise; until a
\* process with a shared mapping forks, whose pages are copied while the table
\* calls them shared, or brk fails half-way).
TableShowsPages ==
  Calls \cap {"mprotect none", "clone", "spawn"} = {} /\ odd \cap {"fork shared", "brk short"} = {} =>
    \A p \in Tasks : task[p].st = "live" => \A v \in Va :
      LET E == {k \in 1..task[p].n : v \in PagesOf(View(p).slot[k])} IN
      /\ Cardinality(E) = IF Space(p)[v].f = 0 THEN 0 ELSE 1
      /\ \A k \in E : (View(p).slot[k].type = "shared") <=> (Space(p)[v].shared # 0)

\* The mapping table of a task is allocated as long as the task is there.  A
\* table that nobody uses is freed, unless threads shared it, whose counts are
\* copies (vma.c:307): it is kept for ever, against vma.h:58; and a fork that
\* finds no memory for the pages keeps the child's table.
TablesHeld ==
  LET Used(i) == \E p \in Tasks : task[p].st # "none" /\ task[p].tbl = i
  IN  \A i \in Tables : /\ Used(i) => slots[i] # NoSlots
                        /\ "clone" \notin Calls /\ "fork short" \notin odd /\ slots[i] # NoSlots => Used(i)

\* A memfd lives as long as somebody has it open, unless such a fork kept the
\* references of the child's descriptors.
RefsCountDescriptors ==
  "fork short" \notin odd => \A m \in Memfds : memfd[m].ref = Cardinality({p \in Tasks : m \in task[p].fds})

\* Through fork, spawn, clone, execve, exit, reap and close nothing is freed
\* early, and nothing is kept but the tables of threads and what a failing fork
\* leaves behind.
RefsExact == TablesHeld /\ RefsCountDescriptors
=============================================================================
