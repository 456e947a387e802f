-------------------------------- MODULE Files -------------------------------
(***************************************************************************)
(* Descriptors and the small file systems behind them: the descriptor      *)
(* table of a process and its sharing (fd_table.c), the calls on           *)
(* descriptors and paths (sys_file.c, sys_io.c, sys_dir.c, sys_meta.c),    *)
(* the dispatch by path (vfs.c), /proc with its page-backed descriptors    *)
(* (procfs.c), the RAM file systems (ramfs.c), the boot files (initrd.c),  *)
(* and the permission side of ext2, whose blocks are the business of Ext2. *)
(*                                                                         *)
(* Kernel memory is a set of pages: a page belongs to a descriptor table,  *)
(* to an open /proc file (its record "fp" and its text "buf"), to an open  *)
(* /proc directory, or to the data of a RAM file.  A call runs to its end  *)
(* before another process runs.                                            *)
(***************************************************************************)
EXTENDS Workload, Integers, Sequences, SequencesExt, FiniteSets, FiniteSetsExt

CONSTANTS FMaxFds,     \* PROC_MAX_FDS
          FPages,      \* pages the kernel has left for these parts
          FRamMax,     \* RAMFS_MAX_FILES
          FPoolMax     \* EXT2_FD_POOL

VARIABLES fproc,       \* the processes: [live, tab, uid, caps, left]
          ftab,        \* the descriptor tables, named by their creator
          fk           \* the state behind the descriptors

fvars == <<fproc, ftab, fk>>

FProcs == {1, 2}
FFds == 0 .. FMaxFds - 1
FNoSlot == [ops |-> "none", priv |-> 0, aux |-> 0, off |-> 0, size |-> 0,
            cloexec |-> FALSE]
FSlot(ops, priv, aux, size) ==
  [ops |-> ops, priv |-> priv, aux |-> aux, off |-> 0, size |-> size,
   cloexec |-> FALSE]

(***************************************************************************)
(* Path names.  A path says which file system its prefix leads to, the     *)
(* process for /proc (0 none, -1 self) and the rest of the name.           *)
(***************************************************************************)
FPath(fs, who, name) == [fs |-> fs, who |-> who, name |-> name]

\* The initrd's directories and files of this instance, and its devices.
FInitrdDirs == {"etc"}
FInitrdFiles == {"motd"}
FDevOpen == {"tty", "urandom", "mouse"}
FDevStat == FDevOpen \cup {"null", "console"}

FChunk == 2     \* the 256-byte staging buffer of sys_write, in units
FProcLen == 2   \* the length of a generated /proc text, in units

(***************************************************************************)
(* Kernel pages.                                                           *)
(***************************************************************************)
FFreePages(k) == {x \in 1..FPages : k.page[x] = "free"}
\* kva_alloc_pages halts the machine when there is none: the callers' checks
\* for a null pointer are never reached.
FGet(k, kind) == IF FFreePages(k) = {} THEN [k |-> [k EXCEPT !.halted = TRUE], x |-> 0]
                 ELSE LET x == Min(FFreePages(k))
                      IN [k |-> [k EXCEPT !.page[x] = kind], x |-> x]
\* Freeing a page that is not of the kind the owner thinks it has.
FPut(k, x, kind) == IF k.page[x] = kind THEN [k EXCEPT !.page[x] = "free"]
                    ELSE [k EXCEPT !.corrupt = TRUE]

(***************************************************************************)
(* The hooks a driver gives to the descriptor layer.                       *)
(***************************************************************************)
FCloseHook(k, s) ==
  CASE s.ops = "pfile" -> FPut(FPut(k, s.aux, "buf"), s.priv, "fp")
    [] s.ops = "pdir"  -> FPut(k, s.priv, "dir")
    [] s.ops = "ext2"  -> [k EXCEPT !.pool[s.priv].refs = IF @ > 0 THEN @ - 1 ELSE @]
    [] OTHER -> k

\* Only ext2 has a dup hook here; a copied /proc descriptor is remembered.
FDupHook(k, s) ==
  CASE s.ops = "ext2" -> [k EXCEPT !.pool[s.priv].refs = @ + 1]
    [] s.ops \in {"pfile", "pdir"} -> [k EXCEPT !.copied = TRUE]
    [] OTHER -> k

FCloseAll(k, fds) == FoldSet(LAMBDA i, acc : FCloseHook(acc, fds[i]), k, DOMAIN fds)
FDupAll(k, fds) == FoldSet(LAMBDA i, acc : FDupHook(acc, fds[i]), k, DOMAIN fds)

(***************************************************************************)
(* /proc.                                                                  *)
(***************************************************************************)
FSees(p, q) == p = q \/ "PROC_READ" \in fproc[p].caps

FOpenText(k) ==
  LET a == FGet(k, "fp")  b == FGet(a.k, "buf")
  IN  IF b.x = 0 THEN [k |-> b.k, s |-> FNoSlot]
      ELSE [k |-> b.k, s |-> FSlot("pfile", a.x, b.x, FProcLen)]
FOpenDir(k, of) ==
  LET a == FGet(k, "dir")
  IN  IF a.x = 0 THEN [k |-> a.k, s |-> FNoSlot]
      ELSE [k |-> a.k, s |-> FSlot("pdir", a.x, of, 0)]
\* Which directory a /proc directory descriptor lists.
FFdDir(pid) == 10 + pid

FProcTexts == {"maps", "status"}
FProcGlobals == {"meminfo", "cmdline"}
FOpenPid(k, p, pid, name) ==
  IF ~FSees(p, pid) \/ ~fproc[pid].live THEN [k |-> k, s |-> FNoSlot]
  ELSE CASE name \in FProcTexts -> FOpenText(k)
         [] name = "" -> FOpenDir(k, pid)
         [] name = "fd" -> FOpenDir(k, FFdDir(pid))
         [] OTHER -> [k |-> k, s |-> FNoSlot]
FProcfsOpen(k, p, path) ==
  CASE path.who = 0 /\ path.name = "" -> FOpenDir(k, 0)
    [] path.who = 0 /\ path.name \in FProcGlobals -> FOpenText(k)
    [] path.who = 0 /\ path.name \notin FProcGlobals \cup {""} -> [k |-> k, s |-> FNoSlot]
    [] OTHER -> FOpenPid(k, p, IF path.who = -1 THEN p ELSE path.who, path.name)

\* procfs_stat asks for no capability, and does not know /proc/cmdline.
FProcfsStat(p, path) ==
  IF path.who = 0 THEN path.name \in {"", "meminfo"}
  ELSE /\ path.who # -1 => fproc[path.who].live
       /\ path.name \in FProcTexts \cup {"", "fd"}

(***************************************************************************)
(* The RAM file systems: slots are never given back.  Of a name of more    *)
(* than 63 bytes, "long", the slot keeps the first 63, "cut", and a name   *)
(* is looked for as a whole.                                               *)
(***************************************************************************)
FRamName(name) == IF name = "long" THEN "cut" ELSE name
FRamFind(k, name) == {i \in 1..Len(k.ram) : k.ram[i].name = name}
FRamOpen(k, name, fl) ==
  LET at == FRamFind(k, name)
  IN  IF at # {} THEN LET i == Min(at)
                      IN [k |-> k, s |-> FSlot("ram", i, 0, Len(k.ram[i].data))]
      ELSE IF ~fl.creat \/ Len(k.ram) = FRamMax THEN [k |-> k, s |-> FNoSlot]
      ELSE [k |-> [k EXCEPT !.ram = Append(@, [name |-> FRamName(name), page |-> 0,
                                               data |-> <<>>, last |-> <<>>,
                                               one |-> TRUE])],
            s |-> FSlot("ram", Len(k.ram) + 1, 0, 0)]

\* One call of ramfs_write_fn: from the start of the file, whatever the
\* descriptor's position, and the size becomes the length written.
FRamPut(k, i, text) ==
  LET g == IF k.ram[i].page = 0 THEN FGet(k, "ram") ELSE [k |-> k, x |-> k.ram[i].page]
  IN  IF g.x = 0 THEN [k |-> g.k, ok |-> FALSE]
      ELSE [k |-> [g.k EXCEPT !.ram[i].page = g.x, !.ram[i].data = text], ok |-> TRUE]

\* sys_write hands the buffer over in pieces of the staging size.
RECURSIVE FRamWrite(_, _, _)
FRamWrite(k, i, text) ==
  IF text = <<>> THEN k
  ELSE LET n == Min({FChunk, Len(text)})
           r == FRamPut(k, i, SubSeq(text, 1, n))
       IN  IF r.ok THEN FRamWrite(r.k, i, SubSeq(text, n + 1, Len(text))) ELSE r.k

(***************************************************************************)
(* The permission side of ext2: one directory, its inodes with owner and   *)
(* three sets of rights, and the pool of open-file records.                *)
(***************************************************************************)
FRoot == 1
FMode(m) == CASE m = 600 -> <<{"r", "w"}, {}>> [] m = 644 -> <<{"r", "w"}, {"r"}>>
              [] m = 755 -> <<{"r", "w", "x"}, {"r", "x"}>>
FCheckPerm(k, ino, uid, want) ==
  want \subseteq FMode(k.ino[ino].mode)[IF k.ino[ino].uid = uid THEN 1 ELSE 2]
\* ext2_open: the inode a name leads to, symbolic links followed (0: none).
\* Links of this instance lead to files that stay; Ext2 has the other cases.
FLookup(k, name) ==
  IF name \notin DOMAIN k.dir THEN 0
  ELSE LET i == k.dir[name]
       IN  IF k.ino[i].kind # "link" THEN i
           ELSE k.dir[k.ino[i].to]
FNewIno(k) == Max(DOMAIN k.ino) + 1
FCreate(k, name, rec) ==
  LET i == FNewIno(k)
  IN  [k EXCEPT !.ino = [x \in DOMAIN k.ino \cup {i} |-> IF x = i THEN rec ELSE k.ino[x]],
                !.dir = [n \in DOMAIN k.dir \cup {name} |-> IF n = name THEN i ELSE k.dir[n]]]
FFile(kind, mode, to) == [kind |-> kind, mode |-> mode, uid |-> 0, to |-> to]

FPoolOpen(k, ino) ==
  LET free == {x \in 1..FPoolMax : k.pool[x].refs = 0}
  IN  IF free = {} THEN [k |-> k, s |-> FNoSlot]
      ELSE [k |-> [k EXCEPT !.pool[Min(free)] = [ino |-> ino, refs |-> 1]],
            s |-> FSlot("ext2", Min(free), 0, 0)]
FWant(fl) == CASE fl.acc = "r" -> {"r"} [] fl.acc = "w" -> {"w"} [] OTHER -> {"r", "w"}

FExt2Open(k, p, name, fl) ==
  LET i == FLookup(k, name)
      no == [k |-> k, s |-> FNoSlot]
  IN  CASE i # 0 /\ ( \/ ~FCheckPerm(k, i, fproc[p].uid, FWant(fl))
                      \/ i = k.shadow /\ "AUTH" \notin fproc[p].caps ) -> no
        [] i # 0 /\ FCheckPerm(k, i, fproc[p].uid, FWant(fl))
                 /\ ~(i = k.shadow /\ "AUTH" \notin fproc[p].caps) -> FPoolOpen(k, i)
        [] i = 0 /\ fl.creat /\ FCheckPerm(k, FRoot, fproc[p].uid, {"w", "x"}) ->
             LET c == FCreate(k, name, FFile("file", 644, ""))
             IN  FPoolOpen(c, c.dir[name])
        [] i = 0 /\ fl.creat /\ ~FCheckPerm(k, FRoot, fproc[p].uid, {"w", "x"}) -> no
        [] OTHER -> IF name \in FInitrdDirs THEN [k |-> k, s |-> FSlot("idir", 0, 0, 0)]
                    ELSE IF name \in FInitrdFiles THEN [k |-> k, s |-> FSlot("ifile", 0, 0, 1)]
                    ELSE no

(***************************************************************************)
(* vfs_open and vfs_stat_path: dispatch on the prefix.                     *)
(***************************************************************************)
FVfsOpen(k, p, path, fl) ==
  CASE path.fs = "proc" -> FProcfsOpen(k, p, path)
    [] path.fs = "dev"  -> [k |-> k, s |-> IF path.name \in FDevOpen
                                             THEN FSlot(path.name, 0, 0, 0)
                                           ELSE IF path.name = "" THEN FSlot("idir", 0, 0, 0)
                                           ELSE FNoSlot]
    [] path.fs = "tmp"  -> IF path.name = "" THEN [k |-> k, s |-> FSlot("ramdir", 0, 0, 0)]
                           ELSE FRamOpen(k, path.name, fl)
    [] OTHER            -> FExt2Open(k, p, path.name, fl)

FVfsStat(k, p, path) ==
  CASE path.fs = "proc" -> FProcfsStat(p, path)
    [] path.fs = "dev"  -> path.name \in FDevStat \cup {""}
    [] path.fs = "tmp"  -> path.name = "" \/ FRamFind(k, path.name) # {}
    [] OTHER            -> FLookup(k, path.name) # 0 \/ path.name \in FInitrdFiles

\* lstat does not follow the last link; access asks ext2 for the rights only
\* where the name is one of its own.
FVfsLstat(k, p, path) ==
  IF path.fs # "ext" THEN FVfsStat(k, p, path)
  ELSE path.name \in DOMAIN k.dir \cup FInitrdFiles
FAccess(k, p, path, want) ==
  /\ FVfsStat(k, p, path)
  /\ path.fs = "ext" /\ FLookup(k, path.name) # 0 =>
       FCheckPerm(k, FLookup(k, path.name), fproc[p].uid, want)

(***************************************************************************)
(* The calls.  FCall(p, call) is the guard every call shares: the process is   *)
(* there, its workload makes this call, and its budget is not used up.     *)
(***************************************************************************)
FCall(p, call) == /\ load.part = "files" /\ ~fk.corrupt /\ ~fk.halted
              /\ fproc[p].live /\ fproc[p].left > 0 /\ call \in load.calls[p]
FTab(p) == fproc[p].tab
FFd(p, i) == ftab[FTab(p)].fds[i]
FHas(p, cap) == cap \in fproc[p].caps
FFree(p) == {i \in FFds : FFd(p, i) = FNoSlot}
FSpend(p) == fproc' = [fproc EXCEPT ![p].left = @ - 1]
FSet(p, i, s) == ftab' = [ftab EXCEPT ![FTab(p)].fds[i] = s]

FOpen(p, path, fl) ==
  /\ FCall(p, "open") /\ FSpend(p)
  /\ LET ok == /\ FHas(p, "VFS_OPEN") /\ FFree(p) # {}
               /\ path.fs = "ext" /\ path.name = "shadow" => FHas(p, "AUTH")
         r == FVfsOpen(fk, p, path, fl)
     IN  IF ~ok THEN UNCHANGED <<ftab, fk>>
         ELSE /\ fk' = r.k
              /\ IF r.s = FNoSlot THEN UNCHANGED ftab
                 ELSE FSet(p, Min(FFree(p)), [r.s EXCEPT !.cloexec = fl.cloexec])

FClose(p, i) ==
  /\ FCall(p, "close") /\ FSpend(p) /\ FFd(p, i) # FNoSlot
  /\ FSet(p, i, FNoSlot)
  /\ fk' = FCloseHook(fk, FFd(p, i))

\* The copy a duplication makes: position and size go along, the
\* close-on-exec mark does not.
FCopy(s) == [s EXCEPT !.cloexec = FALSE]

FDup(p, i) ==
  /\ FCall(p, "dup") /\ FSpend(p) /\ FFd(p, i) # FNoSlot
  /\ IF FFree(p) = {} THEN UNCHANGED <<ftab, fk>>
     ELSE /\ FSet(p, Min(FFree(p)), FCopy(FFd(p, i)))
          /\ fk' = FDupHook(fk, FFd(p, i))

FDup2(p, i, j) ==
  /\ FCall(p, "dup2") /\ FSpend(p) /\ FFd(p, i) # FNoSlot
  /\ IF i = j THEN UNCHANGED <<ftab, fk>>
     ELSE /\ FSet(p, j, FCopy(FFd(p, i)))
          /\ fk' = FDupHook(FCloseHook(fk, FFd(p, j)), FFd(p, i))

FFcntl(p, i, cmd) ==
  /\ FCall(p, "fcntl") /\ FSpend(p) /\ FFd(p, i) # FNoSlot
  /\ \/ /\ cmd \in {"set", "clear"}                          \* F_SETFD
        /\ FSet(p, i, [FFd(p, i) EXCEPT !.cloexec = cmd = "set"])
        /\ UNCHANGED fk
     \/ /\ cmd \in {"dupfd", "dupfd_cloexec"}
        /\ LET from == {j \in FFree(p) : j >= load.from}
           IN  IF from = {} THEN UNCHANGED <<ftab, fk>>
               ELSE /\ FSet(p, Min(from), [FFd(p, i) EXCEPT !.cloexec = cmd = "dupfd_cloexec"])
                    /\ fk' = FDupHook(fk, FFd(p, i))

\* SEEK_SET to the start: refused on what has no size.
FLseek(p, i) ==
  /\ FCall(p, "lseek") /\ FSpend(p) /\ FFd(p, i) # FNoSlot /\ UNCHANGED fk
  /\ IF FFd(p, i).size = 0 THEN UNCHANGED ftab
     ELSE FSet(p, i, [FFd(p, i) EXCEPT !.off = 0])

\* What a descriptor has to read; reading a /proc file uses its pages.
FLen(k, s) == CASE s.ops = "pfile" -> FProcLen [] s.ops = "ram" -> Len(k.ram[s.priv].data)
                [] s.ops = "ifile" -> s.size [] OTHER -> 0
FRead(p, i, n) ==
  /\ FCall(p, "read") /\ FSpend(p) /\ FHas(p, "VFS_READ")
  /\ LET s == FFd(p, i) IN
     /\ s.ops \in {"pfile", "ram", "ifile"}
     /\ fk' = [fk EXCEPT !.corrupt = s.ops = "pfile" /\ fk.page[s.priv] # "fp"]
     /\ IF s.off >= FLen(fk, s) THEN UNCHANGED ftab
        ELSE FSet(p, i, [s EXCEPT !.off = s.off + Min({n, FLen(fk, s) - s.off})])

\* What the file should hold now, and whether it came in one piece.
FNote(k, i, texts) ==
  LET all == FlattenSeq(texts)
  IN  IF k.ram[i].page = 0 \/ all = <<>> THEN k
      ELSE [k EXCEPT !.ram[i].last = all,
                     !.ram[i].one = all \in Range(texts) /\ Len(all) <= FChunk]

FWrite(p, i, text) ==
  /\ FCall(p, "write") /\ FSpend(p) /\ FHas(p, "VFS_WRITE") /\ UNCHANGED ftab
  /\ FFd(p, i).ops = "ram"
  /\ fk' = FNote(FRamWrite(fk, FFd(p, i).priv, text), FFd(p, i).priv, <<text>>)

\* Each buffer of a writev is cut into pieces of its own.
FWritev(p, i, texts) ==
  /\ FCall(p, "writev") /\ FSpend(p) /\ FHas(p, "VFS_WRITE") /\ UNCHANGED ftab
  /\ FFd(p, i).ops = "ram"
  /\ fk' = FNote(FoldLeft(LAMBDA acc, x : FRamWrite(acc, FFd(p, i).priv, x), fk, texts),
                 FFd(p, i).priv, texts)

(***************************************************************************)
(* getdents64 with room for one entry: the position of the descriptor is   *)
(* an index into what the directory holds now.                             *)
(***************************************************************************)
FEntries(s) ==
  CASE s.ops = "ramdir" -> Len(fk.ram)
    [] s.ops = "pdir" /\ s.aux = 0 -> 4 + Cardinality({q \in FProcs : fproc[q].live})
    [] s.ops = "pdir" /\ s.aux \in FProcs -> 6
    [] s.ops = "pdir" /\ s.aux > 10 ->
         IF fproc[s.aux - 10].live
           THEN Cardinality({i \in FFds : FFd(s.aux - 10, i) # FNoSlot}) ELSE 0
    [] OTHER -> 0
FGetdents(p, i) ==
  /\ FCall(p, "getdents") /\ FSpend(p) /\ FFd(p, i).ops \in {"ramdir", "pdir"}
  /\ fk' = [fk EXCEPT !.corrupt = FFd(p, i).ops = "pdir" /\ fk.page[FFd(p, i).priv] # "dir"]
  /\ IF FFd(p, i).off < FEntries(FFd(p, i))
       THEN FSet(p, i, [FFd(p, i) EXCEPT !.off = @ + 1]) ELSE UNCHANGED ftab

(***************************************************************************)
(* Processes: fork copies the table and runs the dup hook of every slot,   *)
(* a thread shares it, spawn gives the child a table whose first three     *)
(* slots are copies of one descriptor, exec closes what is marked, and     *)
(* the last exit closes everything and frees the table's page.             *)
(***************************************************************************)
FBorn(p, q, tab) ==
  fproc' = [fproc EXCEPT ![p].left = @ - 1,
                         ![q] = [fproc[p] EXCEPT !.tab = tab, !.left = load.child]]
FFork(p, q) ==
  /\ FCall(p, "fork") /\ ~fproc[q].live /\ ftab[q].refs = 0
  /\ LET g == FGet(fk, "tab") IN
     IF g.x = 0 THEN FSpend(p) /\ fk' = g.k /\ UNCHANGED ftab
     ELSE /\ ftab' = [ftab EXCEPT ![q] = [refs |-> 1, page |-> g.x,
                                          fds |-> ftab[FTab(p)].fds]]
          /\ fk' = FDupAll(g.k, ftab[FTab(p)].fds)
          /\ FBorn(p, q, q)
\* An address space is not to be had after the table was copied: its page is
\* freed, but its slots are not closed.
FNaming(fds, x) == Cardinality({i \in DOMAIN fds : fds[i].ops = "ext2" /\ fds[i].priv = x})
FForkFails(p) ==
  /\ FCall(p, "forkfails") /\ FSpend(p) /\ UNCHANGED ftab
  /\ LET g == FGet(fk, "tab") IN
     fk' = IF g.x = 0 THEN g.k
           ELSE LET fds == ftab[FTab(p)].fds
                IN  [FPut(FDupAll(g.k, fds), g.x, "tab") EXCEPT
                       !.stuck = [x \in 1..FPoolMax |-> @[x] + FNaming(fds, x)]]
Mut_FClone(p, q) ==                    \* mutant: the shared table is not counted
  /\ FCall(p, "clone") /\ ~fproc[q].live /\ UNCHANGED fk
  /\ UNCHANGED ftab
  /\ FBorn(p, q, FTab(p))
FClone(p, q) ==
  /\ FCall(p, "clone") /\ ~fproc[q].live /\ UNCHANGED fk
  /\ ftab' = [ftab EXCEPT ![FTab(p)].refs = @ + 1]
  /\ FBorn(p, q, FTab(p))
FSpawn(p, q, i) ==
  /\ FCall(p, "spawn") /\ ~fproc[q].live /\ ftab[q].refs = 0
  /\ LET g == FGet(fk, "tab")
         s == FFd(p, i)
         std == {x \in FFds : x < 3 /\ s # FNoSlot}
         fds == [x \in FFds |-> IF x \in std THEN s ELSE FNoSlot]
     IN  IF g.x = 0 THEN FSpend(p) /\ fk' = g.k /\ UNCHANGED ftab
         ELSE /\ ftab' = [ftab EXCEPT ![q] = [refs |-> 1, page |-> g.x, fds |-> fds]]
              /\ fk' = FDupAll(g.k, fds)
              /\ FBorn(p, q, q)

FExec(p) ==
  /\ FCall(p, "exec") /\ FSpend(p)
  /\ LET marked == {i \in FFds : FFd(p, i).cloexec} IN
     /\ ftab' = [ftab EXCEPT ![FTab(p)].fds =
                    [i \in FFds |-> IF i \in marked THEN FNoSlot ELSE @[i]]]
     /\ fk' = FCloseAll(fk, [i \in marked |-> FFd(p, i)])

FExit(p) ==
  /\ FCall(p, "exit")
  /\ fproc' = [fproc EXCEPT ![p].live = FALSE]
  /\ LET t == ftab[FTab(p)] IN
     IF t.refs > 1 THEN ftab' = [ftab EXCEPT ![FTab(p)].refs = @ - 1] /\ UNCHANGED fk
     ELSE /\ ftab' = [ftab EXCEPT ![FTab(p)] = [refs |-> 0, page |-> 0,
                                                fds |-> [i \in FFds |-> FNoSlot]]]
          /\ fk' = FPut(FCloseAll(fk, t.fds), t.page, "tab")

(***************************************************************************)
(* Names and attributes.  A new directory, and a link, are made under a    *)
(* name that is not taken (Ext2 has the other case).                       *)
(***************************************************************************)
FMkdir(p, name) ==
  /\ FCall(p, "mkdir") /\ FSpend(p) /\ UNCHANGED ftab /\ name \notin DOMAIN fk.dir
  /\ fk' = IF FHas(p, "VFS_WRITE") /\ FCheckPerm(fk, FRoot, fproc[p].uid, {"w", "x"})
             THEN FCreate(fk, name, FFile("dir", 755, "")) ELSE fk
FSymlink(p, to, name) ==
  /\ FCall(p, "symlink") /\ FSpend(p) /\ UNCHANGED ftab /\ name \notin DOMAIN fk.dir
  /\ fk' = IF FHas(p, "VFS_WRITE") THEN FCreate(fk, name, FFile("link", 755, to)) ELSE fk
FOwns(p, ino) == fproc[p].uid = 0 \/ fproc[p].uid = fk.ino[ino].uid
FChmod(p, name, mode) ==
  /\ FCall(p, "chmod") /\ FSpend(p) /\ UNCHANGED ftab
  /\ LET i == FLookup(fk, name) IN
     fk' = IF FHas(p, "VFS_WRITE") /\ i # 0 /\ FOwns(p, i)
             THEN [fk EXCEPT !.ino[i].mode = mode] ELSE fk
FFchmod(p, i, mode) ==
  /\ FCall(p, "fchmod") /\ FSpend(p) /\ UNCHANGED ftab /\ FFd(p, i).ops = "ext2"
  /\ LET ino == fk.pool[FFd(p, i).priv].ino IN
     fk' = IF FHas(p, "VFS_WRITE") /\ FOwns(p, ino)
             THEN [fk EXCEPT !.ino[ino].mode = mode] ELSE fk
\* chown and lchown look at the owner of what the name leads to; lchown
\* then changes the link itself.
FChown(p, name, uid, follow) ==
  /\ FCall(p, "chown") /\ FSpend(p) /\ UNCHANGED ftab
  /\ LET i == FLookup(fk, name) IN
     fk' = IF FHas(p, "SETUID") /\ i # 0 /\ FOwns(p, i)
             THEN [fk EXCEPT !.ino[IF follow THEN i ELSE fk.dir[name]].uid = uid] ELSE fk
FFchown(p, i, uid) ==
  /\ FCall(p, "fchown") /\ FSpend(p) /\ UNCHANGED ftab /\ FFd(p, i).ops = "ext2"
  /\ LET ino == fk.pool[FFd(p, i).priv].ino IN
     fk' = IF FHas(p, "SETUID") /\ FOwns(p, ino)
             THEN [fk EXCEPT !.ino[ino].uid = uid] ELSE fk

(***************************************************************************)
(* sys_open's treatment of a path, on characters: a relative path is put   *)
(* behind the working directory, then "//", "." and ".." are worked out    *)
(* in a buffer.                                                            *)
(***************************************************************************)
FResolve(cwd, path) ==
  CASE path # <<>> /\ path[1] = "/" -> path
    [] path = <<".">> -> cwd
    [] OTHER -> cwd \o (IF Last(cwd) = "/" THEN <<>> ELSE <<"/">>) \o path

RECURSIVE FSegs(_, _)
FSegs(path, seg) ==      \* the pieces between slashes, empty ones left out
  LET done == IF seg = <<>> THEN <<>> ELSE <<seg>>
  IN  IF path = <<>> THEN done
      ELSE IF path[1] = "/" THEN done \o FSegs(Tail(path), <<>>)
      ELSE FSegs(Tail(path), Append(seg, path[1]))

FDot == <<".">>
FDotDot == <<".", ".">>
RECURSIVE FBack(_)
FBack(buf) == IF buf = <<>> \/ Last(buf) = "/" THEN buf ELSE FBack(Front(buf))

FNormSeg(buf, seg) ==
  CASE seg = FDot -> buf
    [] seg = FDotDot -> IF Len(buf) > 1 THEN FBack(Front(buf)) ELSE buf
    [] OTHER -> buf \o (IF Len(buf) > 1 THEN <<"/">> ELSE <<>>) \o seg

FNorm(path) ==
  LET abs == path # <<>> /\ path[1] = "/"
      out == FoldLeft(FNormSeg, IF abs THEN <<"/">> ELSE <<>>, FSegs(path, <<>>))
  IN  IF out = <<>> THEN <<"/">> ELSE out

\* What the comment on it promises: the components that remain, joined.
FKept(path) ==
  FoldLeft(LAMBDA kept, seg : CASE seg = FDot -> kept
                                [] seg = FDotDot -> IF kept = <<>> THEN kept ELSE Front(kept)
                                [] OTHER -> Append(kept, seg),
           <<>>, FSegs(path, <<>>))
FCanon(path) ==
  IF FKept(path) = <<>> THEN <<"/">>
  ELSE FoldLeft(LAMBDA out, seg : out \o <<"/">> \o seg, <<>>, FKept(path))

\* ".." takes back one of two or more components that were kept so far.
FDeepBack(path) ==
  LET segs == FSegs(path, <<>>)
  IN  \E i \in 1..Len(segs) :
        /\ segs[i] = FDotDot
        /\ Len(FKept(FoldLeft(LAMBDA out, seg : out \o <<"/">> \o seg, <<>>,
                              SubSeq(segs, 1, i - 1)))) >= 2

-----------------------------------------------------------------------------
FilesInit ==
  /\ fproc = [p \in FProcs |->
        IF load.part = "files"
          THEN [live |-> p = 1, tab |-> 1, uid |-> load.uid, caps |-> load.caps, left |-> load.steps]
          ELSE [live |-> p = 1, tab |-> 1, uid |-> 0, caps |-> {}, left |-> 0]]
  /\ ftab = [p \in FProcs |-> [refs |-> IF p = 1 THEN 1 ELSE 0, page |-> IF p = 1 THEN 1 ELSE 0,
                               fds |-> [i \in FFds |-> FNoSlot]]]
  /\ fk = [page |-> [x \in 1..FPages |-> IF x = 1 THEN "tab" ELSE "free"], ram |-> <<>>,
           pool |-> [x \in 1..FPoolMax |-> [ino |-> 0, refs |-> 0]],
           ino |-> [i \in 1..2 |-> IF i = 1 THEN FFile("dir", 755, "") ELSE FFile("file", 600, "")],
           dir |-> [n \in {"shadow"} |-> 2], shadow |-> 2,
           corrupt |-> FALSE, copied |-> FALSE, halted |-> FALSE,
           stuck |-> [x \in 1..FPoolMax |-> 0]]

FilesNext ==
  /\ load.part = "files" /\ UNCHANGED load
  /\ \E p \in FProcs :
       \/ \E path \in load.paths, fl \in load.flags : FOpen(p, path, fl)
       \/ \E i \in FFds : FClose(p, i) \/ FDup(p, i) \/ FLseek(p, i) \/ FGetdents(p, i)
       \/ \E i, j \in FFds : FDup2(p, i, j)
       \/ \E i \in FFds, cmd \in {"set", "clear", "dupfd", "dupfd_cloexec"} : FFcntl(p, i, cmd)
       \/ \E i \in FFds, n \in {1, 2} : FRead(p, i, n)
       \/ \E i \in FFds, text \in load.texts : FWrite(p, i, text)
       \/ \E i \in FFds, a, b \in load.texts : FWritev(p, i, <<a, b>>)
       \/ \E q \in FProcs : FFork(p, q) \/ FClone(p, q)
       \/ \E q \in FProcs, i \in FFds : FSpawn(p, q, i)
       \/ FForkFails(p) \/ FExec(p) \/ FExit(p)
       \/ \E name \in load.names : FMkdir(p, name)
       \/ \E name \in load.names : FSymlink(p, "shadow", name)
       \/ \E name \in load.names \cup {"shadow"}, mode \in {600, 644} : FChmod(p, name, mode)
       \/ \E name \in load.names \cup {"shadow"}, follow \in BOOLEAN : FChown(p, name, 1, follow)
       \/ \E i \in FFds : FFchmod(p, i, 644) \/ FFchown(p, i, 1)

-----------------------------------------------------------------------------
FOpenSlots == {x \in FProcs \X FFds : ftab[x[1]].refs > 0 /\ ftab[x[1]].fds[x[2]] # FNoSlot}
FAt(x) == ftab[x[1]].fds[x[2]]
FHolders(page) ==
  {x \in FOpenSlots : \/ FAt(x).ops \in {"pfile", "pdir"} /\ FAt(x).priv = page
                      \/ FAt(x).ops = "pfile" /\ FAt(x).aux = page}
  \cup {<<t, -1>> : t \in {u \in FProcs : ftab[u].refs > 0 /\ ftab[u].page = page}}
  \cup {<<i, -2>> : i \in {j \in 1..Len(fk.ram) : fk.ram[j].page = page}}

\* Kernel pages behind descriptors: after any sequence of opens, closes,
\* copies, exec and exit, a page that is taken has exactly one holder, and
\* nothing is freed twice or used after it was freed.  Stated until a /proc
\* descriptor is copied by dup, fork or spawn: it has no dup hook although its
\* close frees (procfs.c:391), so both copies free the same pages.
FPagesHeld ==
  /\ fk.corrupt => fk.copied
  /\ ~fk.copied /\ ~fk.halted => \A x \in 1..FPages :
       Cardinality(FHolders(x)) = IF fk.page[x] = "free" THEN 0 ELSE 1

\* Reference counts: a table counts the processes that share it, an ext2
\* record the descriptors that name it, over fork, threads, spawn, dup, exec
\* and exit; and besides those, for ever, the descriptors that forks copied
\* which failed afterwards (fk.stuck; sys_process.c:504-547 close none).
FCounts ==
  /\ \A t \in FProcs : ftab[t].refs = Cardinality({p \in FProcs : fproc[p].live /\ fproc[p].tab = t})
  /\ \A x \in 1..FPoolMax :
       fk.pool[x].refs = fk.stuck[x] + Cardinality({y \in FOpenSlots : FAt(y).ops = "ext2" /\ FAt(y).priv = x})

\* A RAM file system holds a name of at most 63 bytes once (every opening of a
\* longer one that may create makes another file), and a file holds what the last write
\* gave it if that came in one piece; of a longer write, or of several buffers,
\* it holds the last piece only.
FRamIntact ==
  /\ \A i, j \in 1..Len(fk.ram) :
       fk.ram[i].name = fk.ram[j].name /\ fk.ram[i].name # FRamName("long") => i = j
  /\ \A i \in 1..Len(fk.ram) :
       IF fk.ram[i].one THEN fk.ram[i].data = fk.ram[i].last
       ELSE IsSuffix(fk.ram[i].data, fk.ram[i].last)

\* stat finds a path exactly when an open without the permission questions
\* would, but for the names the two sides list differently.
FStatOnly == {FPath("dev", 0, "null"), FPath("dev", 0, "console")}
FOpenOnly == {FPath("proc", 0, "cmdline"), FPath("ext", 0, "etc")}
FOpens(p, path) ==
  FVfsOpen([fk EXCEPT !.page = [x \in 1..FPages |-> "free"],
                      !.pool = [x \in 1..FPoolMax |-> [ino |-> 0, refs |-> 0]],
                      !.ino = [i \in DOMAIN @ |-> [@[i] EXCEPT !.mode = 644]]],
           p, path, [acc |-> "r", creat |-> FALSE, cloexec |-> FALSE]).s # FNoSlot
FStatAgrees ==
  load.part = "files" /\ "AUTH" \in load.caps /\ "PROC_READ" \in load.caps /\ load.uid = 0 =>
    \A p \in {q \in FProcs : fproc[q].live}, path \in load.paths :
      IF path \in FStatOnly THEN FVfsStat(fk, p, path) /\ ~FOpens(p, path)
      ELSE IF path \in FOpenOnly THEN ~FVfsStat(fk, p, path) /\ FOpens(p, path)
      ELSE FVfsStat(fk, p, path) <=> FOpens(p, path)

\* A path is opened under the name its components give, whatever slashes and
\* dots it is written with, except that a ".." below the second level leaves
\* an extra slash behind (sys_file.c:102), which keeps the components.
FNamesClear ==
  load.part = "norm" =>
    LET full == FResolve(load.cwd, load.path) IN
      /\ ~FDeepBack(full) => FNorm(full) = FCanon(full)
      /\ FSegs(FNorm(full), <<>>) = FKept(full)

\* access and lstat give the same answers as open and stat: a name on ext2
\* that access grants is opened for that, but for the shadow file, whose
\* capability access does not look at.
FAccessAgrees ==
  load.part = "files" /\ FHas(1, "VFS_OPEN") =>
    \A p \in {q \in FProcs : fproc[q].live}, path \in load.paths, acc \in {"r", "w", "rw"} :
      LET fl == [acc |-> acc, creat |-> FALSE, cloexec |-> FALSE]
          free == [fk EXCEPT !.pool = [x \in 1..FPoolMax |-> [ino |-> 0, refs |-> 0]]]
          there == path.fs = "ext" /\ FLookup(fk, path.name) \notin {0, fk.shadow}
      IN  /\ FVfsStat(fk, p, path) => FVfsLstat(fk, p, path)
          /\ there => (FAccess(fk, p, path, FWant(fl)) <=> FVfsOpen(free, p, path, fl).s # FNoSlot)

FilesIntact == FPagesHeld /\ FCounts /\ FRamIntact /\ FStatAgrees /\ FAccessAgrees /\ FNamesClear
=============================================================================
