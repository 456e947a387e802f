-------------------------------- MODULE Exec --------------------------------
(***************************************************************************)
(* Program start and authority: execve and spawn with their points of      *)
(* failure (sys_exec.c), the first process (proc.c), capability tables     *)
(* (cap/src/lib.rs), the policy files that fill them (cap_policy.c), the   *)
(* capability calls (sys_cap.c) and identities, groups and sessions        *)
(* (sys_identity.c).                                                       *)
(*                                                                         *)
(* Kernel memory is counted in objects: a process owns its control block   *)
(* "pcb", page table "pml4", mapped "image" and "stack", kernel stack      *)
(* "kstack", "vma" table and "fds"; a call holds its argument buffer       *)
(* "abuf", the file it read "buf", the interpreter "ibuf", and the slots   *)
(* of the ext2 pool that opening both took, "slot" and "islot".  The ghost *)
(* xk.lost counts what calls held at their end and no process owns.        *)
(* Capability kinds and rights keep their names; rights are sets.  A call  *)
(* runs to its end before another process runs.                            *)
(***************************************************************************)
EXTENDS Workload, Integers, Sequences, SequencesExt, FiniteSets, FiniteSetsExt

CONSTANTS XMaxPids,    \* process numbers (bound)
          XMaxProcs,   \* MAX_PROCESSES: processes that fork and spawn ever make
          XSlots,      \* CAP_TABLE_SIZE
          XPolicyCaps, \* CAP_POLICY_MAX_CAPS
          XPolicyText, \* what is read of a policy file: 511 bytes
          XEntries,    \* CAP_POLICY_MAX_ENTRIES
          XPoolMax     \* EXT2_FD_POOL

VARIABLES xproc,       \* the processes by pid
          xk           \* kernel: objects in use, ext2 pool, policy, ghosts

xvars == <<xproc, xk>>

XPids == 1 .. XMaxPids
XAll == {"r", "w", "x"}

(***************************************************************************)
(* Capability tables.  A slot is only ever emptied with all the others, so *)
(* the filled slots come first: a table is the sequence of them.           *)
(***************************************************************************)
XNoCaps == <<>>
XFull(tab) == Len(tab) >= XSlots
\* The first empty slot takes the capability, whatever the others hold.
XGrant(tab, c) ==
  IF XFull(tab) THEN tab ELSE Append(tab, [kind |-> c.kind, rights |-> c.rights])
XCheck(tab, kind, rights) ==
  \E i \in 1..Len(tab) : tab[i].kind = kind /\ rights \subseteq tab[i].rights

XCap(kind, rights) == [kind |-> kind, rights |-> rights]
XBaseline == << XCap("VFS_OPEN", {"r"}), XCap("VFS_WRITE", {"w"}),
                XCap("VFS_READ", {"r"}), XCap("IPC", {"r"}),
                XCap("PROC_READ", {"r"}), XCap("THREAD_CREATE", {"r"}) >>
\* What init starts with.
XInitCaps == << XCap("VFS_OPEN", {"r"}), XCap("VFS_WRITE", {"w"}),
                XCap("VFS_READ", {"r"}), XCap("IPC", {"r"}),
                XCap("PROC_READ", {"r", "w"}), XCap("THREAD_CREATE", {"r"}),
                XCap("POWER", {"r"}) >>
XGrantAll(tab, cs) == FoldLeft(XGrant, tab, cs)

(***************************************************************************)
(* Policy files.  A text is a sequence of words and of the separators " "  *)
(* and "nl"; a word is a token that is neither, or a run of them.          *)
(***************************************************************************)
XTiers == {"service", "admin"}
XKinds == {"VFS_OPEN", "VFS_WRITE", "VFS_READ", "AUTH", "CAP_GRANT", "SETUID",
           "NET_SOCKET", "NET_ADMIN", "THREAD_CREATE", "PROC_READ",
           "DISK_ADMIN", "FB", "CAP_DELEGATE", "CAP_QUERY", "IPC", "POWER"}
\* Where the run of tokens outside S that starts at pos ends.
RECURSIVE XRun(_, _, _)
XRun(t, pos, S) == IF pos > Len(t) \/ t[pos] \in S THEN pos
                   ELSE XRun(t, pos + 1, S)
\* Where the run of separators S that starts at pos ends.
RECURSIVE XSkip(_, _, _)
XSkip(t, pos, S) == IF pos > Len(t) \/ t[pos] \notin S THEN pos
                    ELSE XSkip(t, pos + 1, S)
XWordAt(t, pos) == LET e == XRun(t, pos, {" ", "nl"})
                   IN IF e = pos + 1 THEN t[pos] ELSE "joined"

\* The capability names on the rest of a line; pos stops at the line's end.
RECURSIVE XNames(_, _, _, _)
XNames(t, pos, tier, out) ==
  LET q == XSkip(t, pos, {" "})
      e == XRun(t, q, {" ", "nl"})
      w == XWordAt(t, q)
  IN IF q > Len(t) \/ t[q] = "nl" THEN [pos |-> q, out |-> out]
     ELSE XNames(t, e, tier,
            IF w \in XKinds /\ Len(out) < XPolicyCaps
            THEN Append(out, [kind |-> w, rights |-> XAll, tier |-> tier])
            ELSE out)

RECURSIVE XParseFrom(_, _, _)
XParseFrom(t, pos, out) ==
  LET q == XSkip(t, pos, {" ", "nl"})
      e == XRun(t, q, {" ", "nl"})
      w == XWordAt(t, q)
  IN IF q > Len(t) \/ Len(out) >= XPolicyCaps THEN out
     ELSE IF t[q] = "#" THEN XParseFrom(t, XRun(t, q, {"nl"}), out)
     ELSE IF w \notin XTiers THEN XParseFrom(t, e, out)
     ELSE LET n == XNames(t, e, w, out) IN XParseFrom(t, n.pos, n.out)
parse_policy(t) == XParseFrom(t, 1, <<>>)

\* What is read of a file: a word that the end of the buffer cuts is no name.
XRead(t) ==
  IF Len(t) <= XPolicyText THEN t
  ELSE [i \in 1..XPolicyText |-> IF i < XPolicyText \/ t[i] \in {" ", "nl"} THEN t[i] ELSE "part"]

\* One directory entry after another; an entry without capabilities is
\* forgotten, and the table ends at its limit.
XLoadEntry(es, f) ==
  LET caps == parse_policy(XRead(f.text))
  IN IF ~f.reg \/ Len(es) >= XEntries \/ ~f.opens \/ caps = <<>> THEN es
     ELSE Append(es, [name |-> f.name, caps |-> caps])
cap_policy_load(dir) == FoldLeft(XLoadEntry, <<>>, dir)

\* The entry named as the last component of the path.
cap_policy_lookup(es, path) ==
  LET base == Last(path)
      I == {i \in 1..Len(es) : es[i].name = base}
  IN IF base = "" \/ I = {} THEN <<>> ELSE es[Min(I)].caps

XTierCaps(pol, auth) ==
  SelectSeq(pol, LAMBDA c : c.tier = "service" \/ (c.tier = "admin" /\ auth))
\* Both execve and spawn: empty, the baseline, then the policy's tiers.
XExecCaps(es, path, auth) ==
  XGrantAll(XGrantAll(XNoCaps, XBaseline),
            XTierCaps(cap_policy_lookup(es, path), auth))

(***************************************************************************)
(* Kernel objects.                                                         *)
(***************************************************************************)
XWhole == {"pcb", "pml4", "image", "stack", "kstack", "vma", "fds"}
XFrames == {"pml4", "image", "stack"}      \* from pmm_alloc_page, the others from kva_alloc_pages
XSlotKinds == {"slot", "islot"}
XObjects == XWhole \cup {"abuf", "buf", "ibuf"} \cup XSlotKinds
XNoMask == [m |-> "none", caps |-> <<>>]
XNobody == [st |-> "none", own |-> {}, ppid |-> 0, uid |-> 0, gid |-> 0,
            pgid |-> 0, sid |-> 0, auth |-> FALSE, caps |-> XNoCaps,
            exe |-> <<"">>, handlers |-> FALSE, mask |-> XNoMask, got |-> {},
            entry |-> "none", left |-> 0]

\* A call in progress: the kernel state, what the call holds, its result.
XCall(k) == [k |-> k, held |-> {}, r |-> "ok"]
XFail(s, e) == [s EXCEPT !.r = e]
\* When memory is out the call fails, or kva_alloc_pages halts the machine.
XTake(s, kind) ==
  IF s.r # "ok" THEN s
  ELSE IF s.k.used = load.mem THEN XFail(s, IF kind \in XFrames THEN "ENOMEM" ELSE "panic")
  ELSE [s EXCEPT !.k.used = @ + 1, !.held = @ \cup {kind}]
XDrop(s, kind) ==
  IF kind \notin s.held THEN s
  ELSE [s EXCEPT !.k.used = @ - 1, !.held = @ \ {kind}]
XUnless(s, bad, e) == IF s.r = "ok" /\ bad THEN XFail(s, e) ELSE s
\* The end of a call, after which a process owns own of what it held.
XEnd(s, own) ==
  [s.k EXCEPT !.lost = [x \in XObjects |-> IF x \in s.held \ own THEN @[x] + 1 ELSE @[x]]]
XPanic == xk' = [xk EXCEPT !.halted = TRUE] /\ UNCHANGED xproc

\* Opening a file that is not in the initrd for loading takes a slot of the
\* ext2 pool, and nothing closes it again.
XOpenExt(s, ok, kind) ==
  IF s.r # "ok" THEN s
  ELSE IF ~ok \/ s.k.pool = XPoolMax THEN XFail(s, "ENOENT")
  ELSE [s EXCEPT !.k.pool = @ + 1, !.held = @ \cup {kind}]

(***************************************************************************)
(* Finding the program: the initrd without any check, then ext2 with the   *)
(* execute permission, its size, and a buffer for the whole file.          *)
(***************************************************************************)
XLookup(s, b) ==
  IF b.src = "initrd" THEN s
  ELSE LET s1 == XUnless(s, b.src = "ext2" /\ ~b.x, "EACCES")
           s2 == XUnless(XOpenExt(s1, b.src = "ext2", "slot"), b.empty, "ENOEXEC")
       IN XUnless(XTake(s2, "buf"), ~b.reads, "EIO")

\* elf_load maps the image or fails on a bad file or on memory.
XLoadElf(s, b) == XUnless(XTake(s, "image"), ~b.elf, "ENOEXEC")

\* The interpreter named by the program; its pages join the image.
XLoadInterp(s, b) ==
  IF b.interp \in {"none", "initrd"} THEN s
  ELSE LET s1 == XTake(XOpenExt(s, b.interp # "missing", "islot"), "ibuf")
           s2 == XUnless(s1, b.interp = "bad", "ENOEXEC")
       IN XDrop(s2, "ibuf")

(***************************************************************************)
(* execve.  Until the old image is gone a failure gives back what the call *)
(* holds and leaves the process as it was; after that it ends the process, *)
(* with the argument buffer (and the file's buffer) still taken.           *)
(***************************************************************************)
XBefore(k, b, args) ==
  XLookup(XUnless(XTake(XCall(k), "abuf"), args = "badptr", "EFAULT"), b)
XAfter(s, b, args) ==
  LET s0 == [s EXCEPT !.k.used = @ - 2]            \* vmm_free_user_pages
      l  == XLoadElf(s0, b)
      s1 == IF l.r = "ok" THEN XDrop(l, "buf") ELSE l
  IN XUnless(XTake(XLoadInterp(s1, b), "stack"), args = "big", "E2BIG")

XReset(pr, k, path) ==
  [pr EXCEPT !.exe = path, !.handlers = FALSE, !.got = {}, !.mask = XNoMask,
             !.caps = XExecCaps(k.policy, path, pr.auth)]

\* sched_exit: the descriptor table goes at once, the rest when reaped.
XDie(pr) == [pr EXCEPT !.st = "zombie", !.own = @ \ {"fds"}]
XFdsGone(k) == [k EXCEPT !.used = @ - 1]

XSpend(pr) == [pr EXCEPT !.left = @ - 1]
\* The workload: the calls init, and every other process, makes when it has
\* so many calls left.
XCan(p, call) ==
  LET n == xproc[p].left
  IN /\ xproc[p].st = "run" /\ n > 0 /\ ~xk.halted
     /\ call \in (IF p = 1 THEN load.init[n] ELSE load.rest[n])

sys_execve(p, b, args) ==
  LET pr == XSpend(xproc[p])
      s  == XBefore(xk, b, args)
      a  == XAfter(s, b, args)
      new == XReset(pr, xk, b.path)
      u  == XDrop(XDrop(s, "buf"), "abuf")
  IN /\ XCan(p, "exec")
     /\ \/ (s.r = "panic" \/ (s.r = "ok" /\ a.r = "panic")) /\ XPanic
        \/ /\ s.r \notin {"ok", "panic"}
           /\ xk' = XEnd(u, {})
           /\ xproc' = [xproc EXCEPT ![p] = pr]
        \/ /\ s.r = "ok" /\ a.r \notin {"ok", "panic"}
           /\ xk' = [XFdsGone(XEnd(a, XWhole)) EXCEPT !.fatal = TRUE]
           /\ xproc' = [xproc EXCEPT ![p] =
                 [XDie(new) EXCEPT !.own = (@ \ {"image", "stack"})
                                           \cup (a.held \cap {"image", "stack"})]]
        \/ /\ s.r = "ok" /\ a.r = "ok"
           /\ xk' = XEnd(XDrop(a, "abuf"), XWhole)
           /\ xproc' = [xproc EXCEPT ![p] = [new EXCEPT !.entry =
                 IF b.interp = "none" THEN "program" ELSE "interp"]]
     /\ UNCHANGED load

(***************************************************************************)
(* spawn.  A mask restricts the capabilities computed for the program to   *)
(* those it names, which the caller must hold.                             *)
(***************************************************************************)
XMaskOne(parent, computed, acc, c) ==
  IF acc.r # "ok" \/ c.kind = "NULL" THEN acc
  ELSE IF c.kind = "BIG" THEN [acc EXCEPT !.r = "EINVAL"]
  ELSE IF ~XCheck(parent, c.kind, c.rights) THEN [acc EXCEPT !.r = "ENOCAP"]
  ELSE IF XCheck(computed, c.kind, c.rights)
       THEN [acc EXCEPT !.tab = XGrant(@, c)]
       ELSE acc
XMasked(parent, computed, m) ==
  IF m.m = "none" THEN [tab |-> computed, r |-> "ok"]
  ELSE IF ~XCheck(parent, "CAP_DELEGATE", {"r"})
       THEN [tab |-> computed, r |-> "ENOCAP"]
  ELSE IF m.m = "badptr" THEN [tab |-> computed, r |-> "EFAULT"]
  ELSE FoldLeft(LAMBDA acc, c : XMaskOne(parent, computed, acc, c),
                [tab |-> XNoCaps, r |-> "ok"], m.caps)

\* The process up to its kernel stack; strings too long for the stack are
\* not noticed.
XBuild(k, b, args) ==
  LET s  == XTake(XTake(XBefore(k, b, args), "pcb"), "pml4")
      l  == XLoadElf(s, b)
      s1 == IF l.r = "ok" THEN XDrop(l, "buf") ELSE l
  IN XTake(XTake(XLoadInterp(s1, b), "stack"), "kstack")
\* fail_child and fail_early, and the failures of fork: everything but the
\* VMA table and the slots is given back (vma_clear keeps the table).
XKept == {"vma"} \cup XSlotKinds
XUndo(s) ==
  XEnd([s EXCEPT !.k.used = @ - Cardinality(s.held \ XKept), !.held = @ \cap XKept,
                 !.k.late = @ \/ "vma" \in s.held], {})

\* A session and a group of its own, the parent's identity.
XChild(pr, p, c, b, m) ==
  [XNobody EXCEPT !.st = "run", !.ppid = p, !.uid = pr.uid, !.gid = pr.gid,
     !.pgid = c, !.sid = c, !.auth = pr.auth, !.exe = b.path, !.mask = m,
     !.left = Len(load.rest),
     !.entry = IF b.interp = "none" THEN "program" ELSE "interp"]

sys_spawn(p, b, args, m) ==
  LET pr == XSpend(xproc[p])
      s  == XBuild(xk, b, args)
      c  == xk.next
      ks == IF s.r = "ok" THEN [s EXCEPT !.k.next = @ + 1] ELSE s
      cm == XMasked(pr.caps, XExecCaps(xk.policy, b.path, pr.auth), m)
      f  == XTake(XUnless(XTake(ks, "vma"), cm.r # "ok", cm.r), "fds")
  IN /\ XCan(p, "spawn") /\ c \in XPids
     /\ IF xk.count >= XMaxProcs THEN xk' = xk /\ xproc' = [xproc EXCEPT ![p] = pr]
        ELSE IF f.r = "panic" THEN XPanic
        ELSE IF f.r # "ok" THEN xk' = XUndo(f) /\ xproc' = [xproc EXCEPT ![p] = pr]
        ELSE /\ xk' = [XEnd(XDrop(f, "abuf"), XWhole) EXCEPT !.count = @ + 1]
             /\ xproc' = [xproc EXCEPT ![p] = pr, ![c] =
                  [XChild(pr, p, c, b, m) EXCEPT !.own = f.held \cap XWhole,
                                                 !.caps = cm.tab]]
     /\ UNCHANGED load

(***************************************************************************)
(* fork copies authority and identity; exit and wait as in Proc, with what *)
(* they give back.                                                         *)
(***************************************************************************)
sys_fork(p) ==
  LET pr == XSpend(xproc[p])
      c  == xk.next
      s  == XTake(XTake(XTake(XCall(xk), "pcb"), "fds"), "vma")
      n  == IF s.r = "ok" THEN [s EXCEPT !.k.next = @ + 1] ELSE s
      f  == XTake(XTake(XTake(XTake(n, "pml4"), "image"), "stack"), "kstack")
  IN /\ XCan(p, "fork") /\ c \in XPids
     /\ IF xk.count >= XMaxProcs THEN xk' = xk /\ xproc' = [xproc EXCEPT ![p] = pr]
        ELSE IF f.r = "panic" THEN XPanic
        ELSE IF f.r # "ok" THEN xk' = XUndo(f) /\ xproc' = [xproc EXCEPT ![p] = pr]
        ELSE /\ xk' = [XEnd(f, XWhole) EXCEPT !.count = @ + 1]
             /\ xproc' = [xproc EXCEPT ![p] = pr, ![c] =
                  [pr EXCEPT !.own = XWhole, !.ppid = p, !.left = Len(load.rest)]]
     /\ UNCHANGED load

XExit(p) ==
  /\ XCan(p, "exit") /\ p # 1
  /\ xproc' = [xproc EXCEPT ![p] = XDie(@)]
  /\ xk' = XFdsGone(xk)
  /\ UNCHANGED load

XReap(p, q) ==
  /\ XCan(p, "wait") /\ xproc[q].st = "zombie" /\ xproc[q].ppid = p
  /\ xk' = [xk EXCEPT !.used = @ - Cardinality(xproc[q].own)]
  /\ xproc' = [xproc EXCEPT ![p] = XSpend(@), ![q] = XNobody]
  /\ UNCHANGED load

(***************************************************************************)
(* The calls on capabilities and identity.                                 *)
(***************************************************************************)
XStep(p, call, new) ==
  /\ XCan(p, call)
  /\ xproc' = [xproc EXCEPT ![p] = XSpend(new)]
  /\ UNCHANGED <<xk, load>>

sys_auth_session(p) ==
  LET pr == xproc[p]
  IN XStep(p, "auth", [pr EXCEPT !.auth = @ \/ XCheck(pr.caps, "AUTH", {"r"})])

XFind(q) == xproc[q].st # "none"      \* proc_find_by_pid sees zombies too

sys_cap_grant_runtime(p, q, c) ==
  LET pr == xproc[p]
      ok == /\ XCheck(pr.caps, "CAP_DELEGATE", {"r"})
            /\ c.kind \notin {"NULL", "BIG"}
            /\ XCheck(pr.caps, c.kind, c.rights)
            /\ XFind(q) /\ ~XFull(xproc[q].caps)
      sp == [xproc EXCEPT ![p] = XSpend(@)]
  IN /\ XCan(p, "grant")
     /\ xproc' = IF ~ok THEN sp
                 ELSE [sp EXCEPT ![q].caps = XGrant(@, c), ![q].got = @ \cup {c.kind}]
     /\ UNCHANGED <<xk, load>>

sys_setuid(p, u) ==
  XStep(p, "setuid", [xproc[p] EXCEPT !.uid =
     IF XCheck(xproc[p].caps, "SETUID", {"w"}) THEN u ELSE @])
sys_setgid(p, g) ==
  XStep(p, "setuid", [xproc[p] EXCEPT !.gid =
     IF XCheck(xproc[p].caps, "SETUID", {"w"}) THEN g ELSE @])

\* Self or a child; to a group of its own, or to one found in its session.
sys_setpgid(p, q, g) ==
  LET to == IF g = 0 THEN q ELSE g
      ok == /\ q = p \/ (XFind(q) /\ xproc[q].ppid = p)
            /\ \/ to = q
               \/ \E x \in XPids : /\ XFind(x) /\ xproc[x].pgid = to
                                   /\ xproc[x].sid = xproc[q].sid
      sp == [xproc EXCEPT ![p] = XSpend(@)]
  IN /\ XCan(p, "setpgid")
     /\ xproc' = IF ok THEN [sp EXCEPT ![q].pgid = to] ELSE sp
     /\ xk' = IF ok /\ xproc[q].pgid = q /\ to # q
              THEN [xk EXCEPT !.moved = TRUE] ELSE xk
     /\ UNCHANGED load

sys_setsid(p) ==
  LET pr == xproc[p]
  IN XStep(p, "setsid", IF pr.pgid = p THEN pr
                        ELSE [pr EXCEPT !.sid = p, !.pgid = p])

\* A signal handler is installed (so that execve has one to reset).
sys_sigaction(p) == XStep(p, "sigaction", [xproc[p] EXCEPT !.handlers = TRUE])

sys_reboot(p) ==
  /\ XCan(p, "reboot")
  /\ xproc' = [xproc EXCEPT ![p] = XSpend(@)]
  /\ xk' = [xk EXCEPT !.halted = XCheck(xproc[p].caps, "POWER", {"r"})]
  /\ UNCHANGED load

(***************************************************************************)
(* The first words of a program's stack, in bytes below its top.  Strings  *)
(* of the environment lie above those of the arguments, below them 16      *)
(* random bytes, and below those the table of pointers.                    *)
(***************************************************************************)
XStackBytes == 16384
\* A vector v of v.n strings of v.len bytes each, the last one uppermost:
\* where string i starts, and where they all end.
XAddr(top, v, i) == top - v.len * (v.n - i + 1)
XLow(top, v) == XAddr(top, v, 1)
XTableWords(argc, envc, interp) == argc + envc + 3 + (IF interp THEN 16 ELSE 12)
\* What spawn, and proc_spawn for init's one argument, reserve.
XSpawnWords(argc, envc, interp) == argc + 2 + envc + 1 + (IF interp THEN 16 ELSE 12)
XInitWords(interp) == 4 + (IF interp THEN 16 ELSE 12)
XRandomAt(argv, envp) == XLow(XLow(XStackBytes, envp), argv) - 16
XSp(argv, envp, interp) ==
  LET rnd == XRandomAt(argv, envp)
      t == (rnd - (rnd % 8)) - 8 * XTableWords(argv.n, envp.n, interp)
  IN IF t % 16 # 8 THEN t - 8 ELSE t
\* execve ends the process when strings, random bytes or table do not fit.
XFits(argv, envp, interp) ==
  /\ XLow(XStackBytes, envp) >= 0
  /\ XRandomAt(argv, envp) >= 0
  /\ XSp(argv, envp, interp) >= 0
\* What is written into the table: the count, the arguments and a null, the
\* environment and a null, and the pairs of the auxiliary vector.
XTable(argv, envp, interp) ==
  LET top == XLow(XStackBytes, envp)
      pairs == {"PHDR", "PHNUM", "PAGESZ", "ENTRY", "RANDOM", "NULL"}
               \cup (IF interp THEN {"BASE", "PHENT"} ELSE {})
  IN <<argv.n>> \o [i \in 1..argv.n |-> XAddr(top, argv, i)] \o <<0>>
     \o [i \in 1..envp.n |-> XAddr(XStackBytes, envp, i)] \o <<0>>
     \o [i \in 1 .. 2 * Cardinality(pairs) |-> 0]

(***************************************************************************)
(* The specification.                                                      *)
(***************************************************************************)
\* proc_spawn: init as it is handed to the scheduler.
XBoot == [XNobody EXCEPT !.st = "run", !.own = XWhole, !.pgid = 1, !.sid = 1,
                         !.caps = XGrantAll(XNoCaps, XInitCaps),
                         !.exe = <<"bin", "init">>, !.entry = "program",
                         !.got = {"POWER", "PROC_READ"}]

ExecInit ==
  LET on == load.part = "exec"
  IN /\ xproc = [p \in XPids |-> IF on /\ p = 1 THEN [XBoot EXCEPT !.left = Len(load.init)]
                                ELSE XNobody]
     /\ xk = [used |-> IF on THEN 7 ELSE 0, pool |-> 0, next |-> 2, count |-> 1,
              policy |-> IF on THEN cap_policy_load(load.dir) ELSE <<>>,
              lost |-> [x \in XObjects |-> 0], fatal |-> FALSE, late |-> FALSE, moved |-> FALSE, halted |-> FALSE]

ExecNext ==
  /\ load.part = "exec"
  /\ \E p \in XPids :
       \/ \E b \in load.bins, a \in load.args : sys_execve(p, b, a)
       \/ \E b \in load.bins, a \in load.args, m \in load.masks : sys_spawn(p, b, a, m)
       \/ sys_fork(p)
       \/ XExit(p)
       \/ \E q \in XPids : XReap(p, q)
       \/ sys_auth_session(p)
       \/ \E q \in XPids, c \in load.grants : sys_cap_grant_runtime(p, q, c)
       \/ \E u \in {0, 1} : sys_setuid(p, u)
       \/ \E g \in {0, 1} : sys_setgid(p, g)
       \/ \E q \in XPids, g \in {0} \cup XPids : sys_setpgid(p, q, g)
       \/ sys_setsid(p)
       \/ sys_sigaction(p)
       \/ sys_reboot(p)

(***************************************************************************)
(* Properties.                                                             *)
(***************************************************************************)
\* Every object in use belongs to a process or is lost, and whichever step of
\* execve, spawn or fork fails, nothing is lost but: the slot of the ext2 pool
\* that opening a program or an interpreter takes (sys_exec.c:170, 283, 661,
\* 717), whether the call fails or not; the argument buffer and the file's
\* buffer of an execve that failed past the point of no return; the VMA table
\* of a spawn that failed after it was made (fail_child) or of a fork that
\* failed after it was copied (sys_process.c:504-547).
XNothingLost ==
  load.part = "exec" =>
    /\ xk.used + xk.pool = MapThenSumSet(LAMBDA p : Cardinality(xproc[p].own), XPids)
                            + MapThenSumSet(LAMBDA x : xk.lost[x], XObjects)
    /\ \A x \in XObjects : xk.lost[x] > 0 =>
         \/ x \in XSlotKinds
         \/ x \in {"abuf", "buf"} /\ xk.fatal
         \/ x = "vma" /\ xk.late

\* A process that can run has its page table, image, stack, kernel stack, VMA
\* table and descriptors: no failure of execve returns to a program whose
\* memory is gone.
XRunnable ==
  \A p \in XPids : xproc[p].st = "run" => XWhole \subseteq xproc[p].own

\* A capability of a process is in the baseline, in the policy of the program
\* it runs (the admin tier only in an authenticated session), or was granted
\* by a process that held it; and a spawn mask leaves nothing it does not name.
XCapsSound ==
  \A p \in XPids : xproc[p].st = "run" =>
    \A i \in 1..Len(xproc[p].caps) : LET pr == xproc[p]
                             c  == pr.caps[i]
      IN c.kind \in pr.got
         \/ /\ \/ \E b \in ToSet(XBaseline) : b.kind = c.kind /\ b.rights = c.rights
               \/ \E e \in ToSet(cap_policy_lookup(xk.policy, pr.exe)) :
                    e.kind = c.kind /\ (e.tier = "service" \/ pr.auth)
               \/ pr.mask.m # "none"
            /\ pr.mask.m # "none" => \E b \in ToSet(pr.mask.caps) : b.kind = c.kind

\* A process group lies in one session as long as no group leader has moved
\* to another group (setpgid, setsid, fork and spawn together).
XGroupsSound ==
  load.part = "exec" /\ ~xk.moved =>
    \A p, q \in XPids : /\ xproc[p].st # "none" /\ xproc[q].st # "none"
                        /\ xproc[p].pgid = xproc[q].pgid
                        => xproc[p].sid = xproc[q].sid

\* Reading a policy text word by word gives what its lines say: a line whose
\* first word is a tier gives its known capabilities that tier, other lines
\* give nothing.  Texts with a tier word further along such a line are left
\* out: the scan takes up again at the next word.
XLines(t) ==
  LET ends == {i \in 1..Len(t) : t[i] = "nl"} \cup {Len(t) + 1}
      line(e) == SubSeq(t, Max({0} \cup {i \in ends : i < e}) + 1, e - 1)
  IN [n \in 1..Cardinality(ends) |->
        line(CHOOSE e \in ends : Cardinality({i \in ends : i < e}) = n - 1)]
XWords(l) == LET starts == {i \in 1..Len(l) : l[i] # " " /\ (i = 1 \/ l[i-1] = " ")}
             IN [n \in 1..Cardinality(starts) |->
                   LET s == CHOOSE i \in starts : Cardinality({j \in starts : j < i}) = n - 1
                   IN [w |-> XWordAt(l, s), first |-> l[s]]]
XLineCaps(l) ==
  LET ws == XWords(l)
  IN IF ws = <<>> \/ ws[1].w \notin XTiers THEN <<>>
     ELSE LET ks == SelectSeq(Tail(ws), LAMBDA w : w.w \in XKinds)
          IN [i \in 1..Len(ks) |-> [kind |-> ks[i].w, rights |-> XAll, tier |-> ws[1].w]]
XPlainLine(l) == LET ws == XWords(l)
  IN ws # <<>> /\ ws[1].w \notin XTiers /\ ws[1].first # "#"
       => \A i \in 1..Len(ws) : ws[i].w \notin XTiers
XPolicyAgrees ==
  load.part = "policy" /\ (\A i \in 1..Len(XLines(load.text)) : XPlainLine(XLines(load.text)[i])) =>
    LET all == FlattenSeq([i \in 1..Len(XLines(load.text)) |-> XLineCaps(XLines(load.text)[i])])
    IN parse_policy(load.text) = SubSeq(all, 1, Min({XPolicyCaps, Len(all)}))

\* A program starts on a stack it can read: what execve writes has exactly
\* the room reserved for it, stays clear of the random bytes and of the
\* strings, every pointer points at a string, and the stack pointer is 8 past
\* a multiple of 16; spawn and the start of init reserve the same room.
XStackSound ==
  load.part = "stack" /\ XFits(load.argv, load.envp, load.interp) =>
    LET sp == XSp(load.argv, load.envp, load.interp)
        t  == XTable(load.argv, load.envp, load.interp)
    IN /\ sp % 16 = 8
       /\ Len(t) = XTableWords(load.argv.n, load.envp.n, load.interp)
       /\ Len(t) = XSpawnWords(load.argv.n, load.envp.n, load.interp)
       /\ load.argv.n = 1 /\ load.envp.n = 0 => Len(t) = XInitWords(load.interp)
       /\ sp + 8 * Len(t) <= XRandomAt(load.argv, load.envp)
       /\ \A i \in 2 .. load.argv.n + 1 :
            t[i] >= XRandomAt(load.argv, load.envp) + 16 /\ t[i] < XStackBytes

ExecIntact == /\ XNothingLost /\ XRunnable /\ XCapsSound /\ XGroupsSound
              /\ XPolicyAgrees /\ XStackSound
=============================================================================
