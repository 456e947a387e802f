-------------------------------- MODULE Ext2 ---------------------------------
(***************************************************************************)
(* The ext2 file system (fs/ext2.c, fs/ext2_dir.c) with its descriptors    *)
(* (fs/ext2_vfs.c, the ext2 part of fs/vfs.c, syscall/sys_file.c,          *)
(* syscall/sys_dir.c).                                                     *)
(*                                                                         *)
(* A call runs to its end with ext2_lock held and interrupts off, so it is *)
(* one action.  It changes blocks in the cache (module Disk); when a       *)
(* changed block reaches the disk is left open, and a crash keeps what     *)
(* did.  There is one block group.  Lengths are in units: of bytes of a    *)
(* file, of multiples of four bytes of a directory.                        *)
(***************************************************************************)
EXTENDS Integers, Sequences, SequencesExt, FiniteSets, FiniteSetsExt

CONSTANTS
  XProc,
  NBlocks, NInodes,        \* s_blocks_count, s_inodes_per_group
  BlockSize,               \* s_block_size
  NDirect,                 \* 12: direct blocks of an inode
  EXT2_FD_POOL,
  SYMLINK_MAX_DEPTH,
  NameLen                  \* the units that an entry with each name needs

\* Block numbers; the bitmaps and the inode table have numbers of their own.
Blk == 1..NBlocks
BBM == -1
IBM == -2
ITAB == -3
Ino == 1..NInodes
ROOT == 1                  \* EXT2_ROOT_INODE
Pool == 1..EXT2_FD_POOL

VARIABLES
  load,
  xfs,       \* what the kernel sees: c[b] the content of block b, dirty blocks, free counts
  xdisk,     \* the blocks on disk
  xpool,     \* s_ext2_pool
  xfd,       \* the descriptors of each process
  xcrash,    \* crashes so far
  xcalls,    \* calls so far, at most load.max
  xtext,     \* ghost: what each file should contain
  xheld,     \* ghost: what each file contained when everything was on disk and it has not been touched since
  xodd       \* ghost: what makes structure or content irregular

ext2Vars == <<xfs, xdisk, xpool, xfd, xcrash, xcalls, xtext, xheld, xodd>>

NoInode == [type |-> "none", size |-> 0, links |-> 0, b |-> [k \in 0..NDirect - 1 |-> 0], target |-> <<>>]
Empty == [k \in 0..BlockSize - 1 |-> 0]
Entry(ino, name, rec) == [ino |-> ino, name |-> name, rec |-> rec]
Data(d) == [dir |-> <<>>, data |-> d]
Dir(s) == [dir |-> s, data |-> Empty]
DotEntries(i, parent) ==
  <<Entry(i, ".", NameLen["."]), Entry(parent, "..", BlockSize - NameLen["."])>>
NoFd == [slot |-> 0]

\* A file system with an empty root directory in block 1.
MadeFs ==
  [b \in Blk |-> IF b = 1 THEN Dir(DotEntries(ROOT, ROOT)) ELSE Data(Empty)]
Formatted ==
  [b \in Blk \cup {BBM, IBM, ITAB} |->
     CASE b = BBM  -> {1}
       [] b = IBM  -> {ROOT}
       [] b = ITAB -> [i \in Ino |-> IF i = ROOT THEN [NoInode EXCEPT !.type = "dir", !.size = BlockSize, !.links = 2, !.b[0] = 1]
                                     ELSE NoInode]
       [] OTHER    -> MadeFs[b]]

Mounted(disk) == [c |-> disk, dirty |-> {}, nb |-> NBlocks - 1, ni |-> NInodes - 1]

Ext2Init ==
  /\ xdisk = Formatted /\ xfs = Mounted(Formatted)
  /\ xpool = [s \in Pool |-> [ino |-> 0, woff |-> 0, refs |-> 0]]
  /\ xfd = [p \in XProc |-> NoFd]
  /\ xcrash = 0 /\ xcalls = 0
  /\ xtext = [i \in Ino |-> <<>>] /\ xheld = [i \in Ino |-> <<FALSE, <<>>>>] /\ xodd = {}

-----------------------------------------------------------------------------
(* Helpers take the file system they start from and return the next one.   *)

Put(fs, b, x) == [fs EXCEPT !.c[b] = x, !.dirty = @ \cup {b}]
Inode(fs, i) == fs.c[ITAB][i]
PutInode(fs, i, x) == Put(fs, ITAB, [fs.c[ITAB] EXCEPT ![i] = x])

\* ext2_alloc_block, ext2_alloc_inode: the first clear bit, or 0.
AllocBlock(fs) ==
  LET clear == Blk \ fs.c[BBM]
  IN  IF fs.nb = 0 \/ clear = {} THEN [fs |-> fs, n |-> 0]
      ELSE [fs |-> [Put(fs, BBM, fs.c[BBM] \cup {Min(clear)}) EXCEPT !.nb = @ - 1], n |-> Min(clear)]
AllocInode(fs) ==
  LET clear == Ino \ fs.c[IBM]
  IN  IF fs.ni = 0 \/ clear = {} THEN [fs |-> fs, n |-> 0]
      ELSE [fs |-> [Put(fs, IBM, fs.c[IBM] \cup {Min(clear)}) EXCEPT !.ni = @ - 1], n |-> Min(clear)]

\* The blocks of directory i, and its entries in the order of a search.
DirBlocks(fs, i) ==
  LET x == Inode(fs, i) IN SelectSeq([k \in 1..x.size \div BlockSize |-> x.b[k - 1]], LAMBDA b : b # 0)
Entries(fs, i) ==
  LET bs == DirBlocks(fs, i)
      f[k \in 0..Len(bs)] == IF k = 0 THEN <<>> ELSE f[k - 1] \o fs.c[bs[k]].dir
  IN  f[Len(bs)]
Named(fs, i, name) == SelectSeq(Entries(fs, i), LAMBDA e : e.ino # 0 /\ e.name = name)

\* ext2_open_ex.  ".." and every link's target start from the root again.
RECURSIVE Walk(_, _, _, _, _)
Walk(fs, i, path, follow, depth) ==
  IF path = <<>> THEN i
  ELSE IF Head(path) = ".." THEN Walk(fs, ROOT, Tail(path), follow, depth)
  ELSE IF Inode(fs, i).type # "dir" \/ Named(fs, i, Head(path)) = <<>> THEN 0
  ELSE LET child == Named(fs, i, Head(path))[1].ino
           x == Inode(fs, child)
       IN  IF x.type # "link" \/ (Tail(path) = <<>> /\ ~follow) THEN Walk(fs, child, Tail(path), follow, depth)
           ELSE IF depth = SYMLINK_MAX_DEPTH THEN 0
           ELSE Walk(fs, ROOT, x.target \o Tail(path), follow, depth + 1)
Lookup(fs, path) == Walk(fs, ROOT, path, TRUE, 0)
Parent(fs, path) == Lookup(fs, Front(path))

\* Mutant: the name of an entry in use is not taken off its length.
Mut_Fits(e, need) == e.rec >= need

\* ext2_dir_add_entry: the first entry that is unused and long enough, or has
\* enough behind its name, else a new block.
Fits(e, need) == IF e.ino = 0 THEN e.rec >= need ELSE e.rec - NameLen[e.name] >= need
Placed(s, i, name) ==
  LET k == Min({j \in 1..Len(s) : Fits(s[j], NameLen[name])})
      used == NameLen[s[k].name]
  IN  IF s[k].ino = 0 THEN [s EXCEPT ![k] = Entry(i, name, @.rec)]
      ELSE SubSeq(s, 1, k - 1) \o <<[s[k] EXCEPT !.rec = used], Entry(i, name, s[k].rec - used)>>
             \o SubSeq(s, k + 1, Len(s))

AddEntry(fs, d, i, name) ==
  LET room == {k \in 1..Len(DirBlocks(fs, d)) :
                 \E j \in 1..Len(fs.c[DirBlocks(fs, d)[k]].dir) : Fits(fs.c[DirBlocks(fs, d)[k]].dir[j], NameLen[name])}
      b == DirBlocks(fs, d)[Min(room)]
      n == Inode(fs, d).size \div BlockSize
      new == AllocBlock(fs)
      grown == [Inode(fs, d) EXCEPT !.b[n] = new.n, !.size = @ + BlockSize]
  IN  IF room # {} THEN [ok |-> TRUE, fs |-> Put(PutInode(fs, d, Inode(fs, d)), b, Dir(Placed(fs.c[b].dir, i, name)))]
      ELSE IF new.n = 0 \/ n >= NDirect THEN [ok |-> FALSE, fs |-> new.fs]
      ELSE [ok |-> TRUE, fs |-> PutInode(Put(new.fs, new.n, Dir(<<Entry(i, name, BlockSize)>>)), d, grown)]

\* ext2_dir_remove_entry: the entry is joined to the one before it in its
\* block, or marked unused.
Removed(s, k) ==
  IF k = 1 THEN [s EXCEPT ![1].ino = 0]
  ELSE SubSeq(s, 1, k - 2) \o <<[s[k - 1] EXCEPT !.rec = @ + s[k].rec]>> \o SubSeq(s, k + 1, Len(s))
RemoveEntry(fs, d, name) ==
  LET At(k) == {j \in 1..Len(fs.c[DirBlocks(fs, d)[k]].dir) :
                  fs.c[DirBlocks(fs, d)[k]].dir[j].ino # 0 /\ fs.c[DirBlocks(fs, d)[k]].dir[j].name = name}
      there == {k \in 1..Len(DirBlocks(fs, d)) : At(k) # {}}
      b == DirBlocks(fs, d)[Min(there)]
  IN  IF there = {} THEN fs ELSE Put(fs, b, Dir(Removed(fs.c[b].dir, Min(At(Min(there))))))

-----------------------------------------------------------------------------
XCall(p, c) == c \in load.calls[p] /\ xcalls < load.max /\ xcalls' = xcalls + 1
Became(fs) == xfs' = fs
\* A failing call keeps what it has changed.
Touch(i) == xheld' = [xheld EXCEPT ![i] = <<FALSE, <<>>>>]

\* ext2_create, ext2_symlink and ext2_mkdir.
NewFile(fs, path, x) ==
  LET d == Parent(fs, path)
      i == AllocInode(fs)
      made == PutInode(i.fs, i.n, x)
      added == AddEntry(made, d, i.n, Last(path))
  IN  IF d = 0 \/ i.n = 0 THEN [ok |-> FALSE, fs |-> i.fs, i |-> 0]
      ELSE [ok |-> added.ok, fs |-> added.fs, i |-> i.n]

\* Neither mkdir, symlink and rename nor open, when the name is that of a
\* dangling link, look whether a name is there already.
Twice(path) == IF Named(xfs, Parent(xfs, path), Last(path)) # <<>> THEN {"name twice"} ELSE {}

\* vfs_open.
FreePool == {s \in Pool : xpool[s].refs = 0}
XOpen(p, path, fl) ==
  LET i == Lookup(xfs, path)
      new == NewFile(xfs, path, [NoInode EXCEPT !.type = "file", !.links = 1])
      cut == PutInode(xfs, i, [Inode(xfs, i) EXCEPT !.size = 0])
      fs == IF i = 0 THEN new.fs ELSE IF "trunc" \in fl THEN cut ELSE xfs
      j == IF i = 0 THEN (IF new.ok THEN Lookup(new.fs, path) ELSE 0) ELSE i
      s == Min(FreePool)
      reset == IF i = 0 THEN new.i ELSE IF "trunc" \in fl THEN i ELSE 0
      size == IF j = 0 THEN 0 ELSE Inode(fs, j).size
  IN  /\ XCall(p, "open") /\ xfd[p] = NoFd
      /\ IF i # 0 THEN Inode(xfs, i).type # "dir" ELSE "creat" \in fl /\ Parent(xfs, path) # 0
      /\ Became(fs)
      /\ IF j = 0 \/ FreePool = {} THEN UNCHANGED <<xpool, xfd>>
         ELSE /\ xpool' = [xpool EXCEPT ![s] = [ino |-> j, refs |-> 1, woff |-> IF "append" \in fl THEN size ELSE 0]]
              /\ xfd' = [xfd EXCEPT ![p] = [slot |-> s]]
      /\ xtext' = [f \in Ino |-> IF f = reset THEN <<>> ELSE xtext[f]]
      /\ xheld' = [f \in Ino |-> IF f = reset THEN <<FALSE, <<>>>> ELSE xheld[f]]
      /\ xodd' = IF i # 0 /\ "trunc" \in fl /\ \E q \in Pool : xpool[q].refs > 0 /\ xpool[q].ino = i /\ xpool[q].woff > 0
                   THEN xodd \cup {"hole"}
                   ELSE IF i = 0 THEN xodd \cup Twice(path) ELSE xodd
      /\ UNCHANGED <<xdisk, xcrash>>

\* ext2_write with the offset of ext2_vfs_write_fn: block after block, until
\* there is no block or none is left.
RECURSIVE WriteLoop(_, _, _, _, _)
WriteLoop(fs, x, off, n, v) ==
  LET k == off \div BlockSize
      m == Min({n, BlockSize - (off % BlockSize)})
      new == AllocBlock(fs)
      b == IF x.b[k] = 0 THEN new.n ELSE x.b[k]
      base == IF x.b[k] = 0 THEN Empty ELSE fs.c[b].data
      stored == [u \in DOMAIN base |-> IF u >= (off % BlockSize) /\ u < (off % BlockSize) + m THEN v ELSE base[u]]
  IN  IF n = 0 \/ k >= NDirect THEN [fs |-> fs, x |-> x, end |-> off]
      ELSE IF b = 0 THEN [fs |-> fs, x |-> x, end |-> off]
      ELSE WriteLoop(Put(IF x.b[k] = 0 THEN new.fs ELSE fs, b, Data(stored)), [x EXCEPT !.b[k] = b], off + m, n - m, v)

XWrite(p, n, v) ==
  LET s == xfd[p].slot
      i == xpool[s].ino
      off == xpool[s].woff
      w == WriteLoop(xfs, Inode(xfs, i), off, n, v)
      size == Max({w.end, w.x.size})
      text == xtext[i]
  IN  /\ XCall(p, "write") /\ s # 0
      /\ Became(PutInode(w.fs, i, [w.x EXCEPT !.size = size]))
      /\ xpool' = [xpool EXCEPT ![s].woff = w.end]
      /\ xtext' = [xtext EXCEPT ![i] = [k \in 1..Max({w.end, Len(text)}) |->
                      IF k > off /\ k <= w.end THEN v ELSE IF k <= Len(text) THEN text[k] ELSE 0]]
      /\ Touch(i) /\ UNCHANGED <<xdisk, xfd, xcrash, xodd>>

XClose(p) ==
  LET s == xfd[p].slot
  IN  /\ XCall(p, "close") /\ s # 0
      /\ xfd' = [xfd EXCEPT ![p] = NoFd]
      /\ xpool' = [xpool EXCEPT ![s] = IF @.refs > 1 THEN [@ EXCEPT !.refs = @ - 1] ELSE [ino |-> 0, woff |-> 0, refs |-> 0]]
      /\ UNCHANGED <<xfs, xdisk, xcrash, xtext, xheld, xodd>>

\* dup, or fork: the write offset is shared, the read offset is not.
XDup(p, q) ==
  /\ XCall(p, "dup") /\ xfd[p].slot # 0 /\ xfd[q] = NoFd
  /\ xfd' = [xfd EXCEPT ![q] = xfd[p]]
  /\ xpool' = [xpool EXCEPT ![xfd[p].slot].refs = @ + 1]
  /\ UNCHANGED <<xfs, xdisk, xcrash, xtext, xheld, xodd>>

\* ext2_unlink follows a link to the inode it frees.  An open file is freed
\* under its descriptors.
Freed(fs, i) ==
  LET blocks == {Inode(fs, i).b[k] : k \in 0..NDirect - 1} \ {0}
      bits == [Put(fs, BBM, fs.c[BBM] \ blocks) EXCEPT !.nb = @ + Cardinality(blocks)]
  IN  [Put(IF blocks = {} THEN fs ELSE bits, IBM, fs.c[IBM] \ {i}) EXCEPT !.ni = @ + 1]
XUnlink(p, path) ==
  LET d == Parent(xfs, path)
      i == Lookup(xfs, path)
      x == [Inode(xfs, i) EXCEPT !.links = Max({0, @ - 1})]
      gone == PutInode(Freed(xfs, i), i, [x EXCEPT !.b = NoInode.b])
  IN  /\ XCall(p, "unlink") /\ d # 0 /\ i # 0
      /\ Became(RemoveEntry(IF x.links = 0 THEN gone ELSE PutInode(xfs, i, x), d, Last(path)))
      /\ xodd' = xodd \cup (IF Walk(xfs, ROOT, path, FALSE, 0) # i THEN {"through link"} ELSE {})
                      \cup (IF \E s \in Pool : xpool[s].refs > 0 /\ xpool[s].ino = i THEN {"open"} ELSE {})
      /\ Touch(i) /\ UNCHANGED <<xdisk, xpool, xfd, xcrash, xtext>>

\* ext2_mkdir allocates the inode and its block first, and keeps what it has
\* when it fails.
XMkdir(p, path) ==
  LET d == Parent(xfs, path)
      i == AllocInode(xfs)
      b == AllocBlock(i.fs)
      made == Put(PutInode(b.fs, i.n, [NoInode EXCEPT !.type = "dir", !.links = 2, !.size = BlockSize, !.b[0] = b.n]),
                  b.n, Dir(DotEntries(i.n, d)))
      linked == PutInode(made, d, [Inode(made, d) EXCEPT !.links = @ + 1])
  IN  /\ XCall(p, "mkdir") /\ d # 0
      /\ Became(IF i.n = 0 THEN xfs ELSE IF b.n = 0 THEN b.fs ELSE AddEntry(linked, d, i.n, Last(path)).fs)
      /\ xodd' = xodd \cup Twice(path) /\ UNCHANGED <<xdisk, xpool, xfd, xcrash, xtext, xheld>>

XSymlink(p, path, target) ==
  /\ XCall(p, "symlink") /\ Parent(xfs, path) # 0
  /\ Became(NewFile(xfs, path, [NoInode EXCEPT !.type = "link", !.links = 1, !.size = 1, !.target = target]).fs)
  /\ xodd' = xodd \cup Twice(path) /\ UNCHANGED <<xdisk, xpool, xfd, xcrash, xtext, xheld>>

\* ext2_rename takes the old name away before it knows whether the new one can
\* be added, and does not look whether the new name is there.
XRename(p, old, new) ==
  LET i == Lookup(xfs, old)
      d == Parent(xfs, old)
      e == Parent(xfs, new)
      added == AddEntry(RemoveEntry(xfs, d, Last(old)), e, i, Last(new))
  IN  /\ XCall(p, "rename") /\ i # 0 /\ d # 0 /\ e # 0
      /\ Became(added.fs)
      /\ xodd' = xodd \cup Twice(new)
                      \cup (IF Walk(xfs, ROOT, old, FALSE, 0) # i THEN {"through link"} ELSE {})
                      \cup (IF ~added.ok THEN {"lost"} ELSE {})
      /\ Touch(i) /\ UNCHANGED <<xdisk, xpool, xfd, xcrash, xtext>>

-----------------------------------------------------------------------------
\* The text of file i, as ext2_read returns it from the start.
Text(fs, i) ==
  [k \in 1..Inode(fs, i).size |->
     LET b == Inode(fs, i).b[(k - 1) \div BlockSize] IN IF b = 0 THEN 0 ELSE fs.c[b].data[(k - 1) % BlockSize]]
Files(fs) == {i \in fs.c[IBM] : Inode(fs, i).type = "file"}

\* A changed block reaches the disk, when the cache evicts it.
Flushed(bs) == [b \in DOMAIN xdisk |-> IF b \in bs THEN xfs.c[b] ELSE xdisk[b]]
XWriteBack(b) ==
  /\ load.evicts /\ xcalls < load.max /\ xcalls' = xcalls + 1
  /\ xdisk' = Flushed({b}) /\ xfs' = [xfs EXCEPT !.dirty = @ \ {b}]
  /\ UNCHANGED <<xpool, xfd, xcrash, xtext, xheld, xodd>>

\* ext2_sync.
XSync(p) ==
  /\ XCall(p, "sync") /\ xfs.dirty # {}
  /\ xdisk' = xfs.c /\ xfs' = [xfs EXCEPT !.dirty = {}]
  /\ xheld' = [i \in Ino |-> IF i \in Files(xfs) /\ "crash" \notin xodd THEN <<TRUE, xtext[i]>> ELSE xheld[i]]
  /\ UNCHANGED <<xpool, xfd, xcrash, xtext, xodd>>

\* The machine stops, when the blocks in bs have been written back, and starts
\* again: ext2_mount.  The free counts on disk are those of the day it was
\* formatted.  (A workload without evictions crashes once a file is synced.)
XCrash(bs) ==
  /\ xcrash < load.crashes /\ (load.evicts \/ \E i \in Ino : xheld[i][1])
  /\ xdisk' = Flushed(bs) /\ xfs' = Mounted(xdisk')
  /\ xpool' = [s \in Pool |-> [ino |-> 0, woff |-> 0, refs |-> 0]] /\ xfd' = [p \in XProc |-> NoFd]
  /\ xcrash' = xcrash + 1
  /\ xtext' = [i \in Ino |-> IF i \in Files(xfs') THEN Text(xfs', i) ELSE <<>>]
  /\ xodd' = IF xfs.dirty # bs THEN xodd \cup {"crash"} ELSE xodd
  /\ UNCHANGED <<xcalls, xheld>>

Ext2In(A) == load.part = "ext2" /\ A /\ UNCHANGED load
Ext2Next ==
  Ext2In(\/ \E bs \in SUBSET xfs.dirty : XCrash(bs)
         \/ \E b \in xfs.dirty : XWriteBack(b)
         \/ \E p \in load.procs :
              \/ XSync(p) \/ XClose(p)
              \/ \E q \in load.procs : XDup(p, q)
              \/ \E n \in load.sizes, v \in load.values[p] : XWrite(p, n, v)
              \/ \E path \in load.paths[p] :
                   \/ XUnlink(p, path)
                   \/ \E fl \in load.flags : XOpen(p, path, fl)
              \/ \E path \in load.dirs : XMkdir(p, path)
              \/ \E l \in load.links : XSymlink(p, l[1], l[2])
              \/ \E m \in load.moves : XRename(p, m[1], m[2]))

-----------------------------------------------------------------------------
\* Directory blocks are well formed, also after a crash.  Up to the first crash
\* the free counts agree with the bitmaps (a mount takes those of the format).
\* Every entry names an inode in use and a block belongs to one inode and is
\* marked, until a crash loses a changed block: then this is promised only to
\* the files that were not touched since a sync, whose blocks stay marked and
\* apart from all others, whatever is written after the crash.  The exceptions:
\* unlink and rename through a symbolic link void all but the first sentence,
\* an unlink of an open file what is said of the files after a crash, and a
\* name is in its directory once unless it was made over an existing one.
Dirs(fs) == {i \in fs.c[IBM] : Inode(fs, i).type = "dir"}
Owned(fs, i) == {Inode(fs, i).b[k] : k \in 0..NDirect - 1} \ {0}
Apart(i) == Owned(xfs, i) \subseteq xfs.c[BBM] /\ \A j \in xfs.c[IBM] \ {i} : Owned(xfs, i) \cap Owned(xfs, j) = {}
Ext2Sound ==
  /\ \A i \in Dirs(xfs) : \A k \in 1..Len(DirBlocks(xfs, i)) :
       LET s == xfs.c[DirBlocks(xfs, i)[k]].dir
       IN  /\ FoldSeq(LAMBDA e, n : e.rec + n, 0, s) = BlockSize
           /\ \A e \in Range(s) : e.rec >= NameLen[e.name]
  /\ xcrash = 0 /\ "through link" \notin xodd =>
                   /\ xfs.nb = NBlocks - Cardinality(xfs.c[BBM])
                   /\ xfs.ni = NInodes - Cardinality(xfs.c[IBM])
  /\ xodd \cap {"through link", "crash"} = {} =>
       /\ \A i \in Dirs(xfs) : \A e \in Range(Entries(xfs, i)) :
            e.ino # 0 => e.ino \in xfs.c[IBM] /\ Inode(xfs, e.ino).links > 0
       /\ "name twice" \in xodd \/ \A i \in Dirs(xfs) : \A name \in DOMAIN NameLen : Len(Named(xfs, i, name)) <= 1
       /\ \A i \in xfs.c[IBM] : Apart(i)
  /\ xodd \cap {"through link", "open"} = {} => \A i \in Ino : xheld[i][1] => Apart(i)

\* A file contains what was written to it last, and a file that was not
\* touched since sync survives a crash unchanged.
Ext2Content ==
  /\ xodd \subseteq {"lost", "name twice"} => \A i \in Files(xfs) : Text(xfs, i) = xtext[i]
  /\ xodd \subseteq {"crash"} => \A i \in Ino : xheld[i][1] =>
       /\ i \in Files(xfs) /\ Text(xfs, i) = xheld[i][2]
       /\ \E d \in Dirs(xfs) : \E e \in Range(Entries(xfs, d)) : e.ino = i
=============================================================================
