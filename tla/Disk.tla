-------------------------------- MODULE Disk --------------------------------
(***************************************************************************)
(* The block layer: nvme.c (one submission queue, one completion queue     *)
(* with phase tags, one bounce page), ramdisk.c, the device table of       *)
(* blkdev.c, the partitions of gpt.c, the block cache of ext2_cache.c and  *)
(* the disk calls of sys_disk.c.  A call holds its spinlock with           *)
(* interrupts off from beginning to end, so each call is one step, and     *)
(* the disk is what is unpredictable: a command may fail, or answer after  *)
(* the driver has stopped waiting for it.                                  *)
(*                                                                         *)
(* Above it the installer: libinstall (gpt.c, copy.c, config.c,            *)
(* credentials.c and run.c), driven by the text installer's main.  It      *)
(* changes files of the live system through the mounted file system,       *)
(* writes a partition table on the raw disk, has the kernel rescan it,     *)
(* copies the live root image and the boot image block by block, and       *)
(* syncs.  Every system call of it is a step of its own, between which     *)
(* other processes run.                                                    *)
(***************************************************************************)
EXTENDS Integers, Sequences, FiniteSets

CONSTANTS CACHE_SLOTS,
          BLKDEV_MAX,
          NVME_IO_QUEUE_DEPTH,
          XFER,        \* 512-byte sectors of the bounce pages (8 in the code)
          AgeLimit,    \* s_cache_age wraps to 0 here (2^32 in the code)
          ESP_ALIGN,   \* in sectors (1 MiB in the code)
          ESP_SIZE     \* in sectors (32 MiB in the code)

VARIABLES load,   \* the workload of this behaviour
          dsk,    \* the media, the queue, the device table and the cache
          dtrue,  \* ghost: what was last written to each sector of each device
          dbad,   \* ghost: the sectors an I/O error has made doubtful
          dcalls, \* calls made so far
          din     \* where install_run_all is, and what it has read

diskVars == <<dsk, dtrue, dbad, dcalls>>

Only(S) == CHOOSE x \in S : TRUE

(* A sector holds file data, a GPT header or a GPT entry.  The checksum of *)
(* the entries that a header stores is kept as the entries themselves.     *)
Data(v) == [v |-> v]
Header(my, at, sum) == [my |-> my, at |-> at, sum |-> sum]
Entry(type, start, end) == [type |-> type, start |-> start, end |-> end]
Zero == Data("zero")

EntrySectors == 2     \* sectors of the entry array; one entry in each
Slots == 1..CACHE_SLOTS
Splice(s, off, t) == [i \in DOMAIN s |-> IF i \in (off + 1)..(off + Len(t)) THEN t[i - off] ELSE s[i]]
RECURSIVE Blocks(_, _, _)
Blocks(f, a, n) == IF n = 0 THEN <<>> ELSE f[a] \o Blocks(f, a + 1, n - 1)

-----------------------------------------------------------------------------
(* The NVMe disk (external): native blocks of load.ratio sectors.          *)

Post(w, cid, ok) ==
    LET wraps == w.ctail + 1 >= NVME_IO_QUEUE_DEPTH
    IN  [w EXCEPT !.cq[w.ctail] = [ph |-> w.cph, cid |-> cid, ok |-> ok],
                  !.ctail = IF wraps THEN 0 ELSE @ + 1,
                  !.cph = IF wraps THEN 1 - @ ELSE @]

(* The controller carries out a command, through the page as it is now.    *)
Execute(w, c) ==
    LET R == load.ratio
        part(i) == SubSeq(w.iobuf, (i - c.lba) * R + 1, (i - c.lba + 1) * R)
        ran == c.lba..(c.lba + c.count - 1)
    IN  IF ~ran \subseteq DOMAIN w.nv THEN Post(w, c.cid, FALSE)
        ELSE IF c.op = "read" THEN Post([w EXCEPT !.iobuf = Splice(@, 0, Blocks(w.nv, c.lba, c.count))], c.cid, TRUE)
        ELSE Post([w EXCEPT !.nv = [i \in DOMAIN @ |-> IF i \in ran THEN part(i) ELSE @[i]]], c.cid, TRUE)

RECURSIVE ExecuteAll(_)
ExecuteAll(w) == IF w.infl = <<>> THEN w
                 ELSE Only({ExecuteAll(x) : x \in {[Execute(w, Head(w.infl)) EXCEPT !.infl = Tail(@)]}})

(* What it does with the command just submitted, the last of w.infl: the   *)
(* call's hw says which of its commands goes wrong, and how.               *)
Answer(w) ==
    LET c == w.infl[Len(w.infl)]
        rest == SubSeq(w.infl, 1, Len(w.infl) - 1)
        kind == IF w.hw.at = w.n THEN w.hw.kind ELSE "ok"
    IN  CASE kind = "late"  -> w
          [] kind = "err"   -> Post([w EXCEPT !.infl = rest], c.cid, FALSE)
          [] kind = "after" -> ExecuteAll(w)
          [] OTHER          -> Execute([w EXCEPT !.infl = rest], c)

-----------------------------------------------------------------------------
(* nvme.c *)

(* poll_cqe: only the entry at the head is looked at.  An entry of another *)
(* command is consumed and reported as this command's failure.             *)
poll_cqe(w, cid) ==
    LET e == w.cq[w.head]
        wraps == w.head + 1 >= NVME_IO_QUEUE_DEPTH
        took == [w EXCEPT !.head = IF wraps THEN 0 ELSE @ + 1, !.ph = IF wraps THEN 1 - @ ELSE @]
    IN  IF e.ph # w.ph THEN [w EXCEPT !.rc = -1]
        ELSE [took EXCEPT !.rc = IF e.cid = cid /\ e.ok THEN 0 ELSE -1]

Natives(lba, count) == lba..(lba + count - 1)
Submit(w, op, lba, count) ==
    LET c == [op |-> op, lba |-> lba, count |-> count, cid |-> w.cid]
        meant == SubSeq(w.iobuf, 1, count * load.ratio)
        same(x) == Blocks(x.nv, lba, count) = IF op = "read" THEN SubSeq(x.iobuf, 1, count * load.ratio) ELSE meant
    IN  Only({[x EXCEPT !.wrong = @ \/ (x.rc = 0 /\ ~same(x)),
                        !.failed = IF x.rc = 0 \/ op = "read" THEN @ ELSE @ \cup Natives(lba, count)]
               : x \in {poll_cqe(y, c.cid)
                   : y \in {Answer([w EXCEPT !.cid = (@ + 1) % 65536, !.n = @ + 1, !.infl = Append(@, c)])}}})

nvme_blkdev_read(w, lba, count) ==
    IF count * load.ratio > XFER THEN [w EXCEPT !.rc = -1]
    ELSE Only({IF x.rc = 0 THEN [x EXCEPT !.out = SubSeq(x.iobuf, 1, count * load.ratio)] ELSE x
                : x \in {Submit(w, "read", lba, count)}})

nvme_blkdev_write(w, lba, count, buf) ==
    IF count * load.ratio > XFER THEN [w EXCEPT !.rc = -1]
    ELSE Submit([w EXCEPT !.iobuf = Splice(@, 0, buf)], "write", lba, count)

(* ramdisk.c: a bounds check and a copy.                                   *)
ramdisk_read(w, dev, lba, count) ==
    IF lba + count > Len(w.rd[dev]) THEN [w EXCEPT !.rc = -1]
    ELSE [w EXCEPT !.rc = 0, !.out = SubSeq(w.rd[dev], lba + 1, lba + count)]

ramdisk_write(w, dev, lba, count, buf) ==
    IF lba + count > Len(w.rd[dev]) THEN [w EXCEPT !.rc = -1]
    ELSE [w EXCEPT !.rc = 0, !.rd[dev] = Splice(@, lba, buf)]

-----------------------------------------------------------------------------
(* gpt.c: a partition shows 512-byte sectors; on a disk with larger blocks *)
(* every request goes through one native block, read first if it writes.   *)

gpt_part_read(w, p, lba, count) ==
    LET R == load.ratio
        nat == w.geo[p].start + lba \div R
        off == lba % R
    IN  IF lba + count > w.geo[p].count THEN [w EXCEPT !.rc = -1]
        ELSE IF R = 1 THEN nvme_blkdev_read(w, lba + w.geo[p].start, count)
        ELSE Only({IF x.rc < 0 THEN x ELSE [x EXCEPT !.out = SubSeq(@, off + 1, off + count)]
                    : x \in {nvme_blkdev_read(w, nat, 1)}})

gpt_part_write(w, p, lba, count, buf) ==
    LET R == load.ratio
        nat == w.geo[p].start + lba \div R
        off == lba % R
    IN  IF lba + count > w.geo[p].count THEN [w EXCEPT !.rc = -1]
        ELSE IF R = 1 THEN nvme_blkdev_write(w, lba + w.geo[p].start, count, buf)
        ELSE Only({IF x.rc < 0 THEN x ELSE nvme_blkdev_write(x, nat, 1, Splice(x.out, off, buf))
                    : x \in {nvme_blkdev_read(w, nat, 1)}})

(* The read and write members of a blkdev_t, by the device's name.         *)
Parts == {"nvme0p1", "nvme0p2"}
Read(w, dev, lba, count) ==
    IF dev = "nvme0" THEN nvme_blkdev_read(w, lba, count)
    ELSE IF dev \in Parts THEN gpt_part_read(w, dev, lba, count)
    ELSE ramdisk_read(w, dev, lba, count)
Write(w, dev, lba, count, buf) ==
    IF dev = "nvme0" THEN nvme_blkdev_write(w, lba, count, buf)
    ELSE IF dev \in Parts THEN gpt_part_write(w, dev, lba, count, buf)
    ELSE ramdisk_write(w, dev, lba, count, buf)

(* blkdev.c *)
blkdev_get(w, name) == \E i \in DOMAIN w.table : w.table[i] = name
blkdev_register(w, name) ==
    IF Len(w.table) >= BLKDEV_MAX THEN [w EXCEPT !.rc = -1]
    ELSE [w EXCEPT !.table = Append(@, name), !.rc = 0]
NotChild(name) == name \notin Parts
blkdev_unregister_children(w) == [w EXCEPT !.table = SelectSeq(@, NotChild)]

block_count(w, dev) ==
    IF dev = "nvme0" THEN Cardinality(DOMAIN w.nv)
    ELSE IF dev \in Parts THEN w.geo[dev].count ELSE Len(w.rd[dev])

-----------------------------------------------------------------------------
(* header_valid: a header, and one that says where it was read from.       *)
header_valid(s, lba) == "my" \in DOMAIN s /\ s.my = lba

(* gpt_scan's header: the one at LBA 1, or else the one at the last LBA.   *)
ReadHeader(w) ==
    LET last == Cardinality(DOMAIN w.nv) - 1
    IN  Only({IF x.rc < 0 \/ header_valid(x.out[1], 1) THEN x
              ELSE Only({IF y.rc = 0 /\ ~header_valid(y.out[1], last) THEN [y EXCEPT !.rc = -1] ELSE y
                          : y \in {nvme_blkdev_read(x, last, 1)}})
               : x \in {nvme_blkdev_read(w, 1, 1)}})

(* The entry array, one native block at a time, into acc.                  *)
RECURSIVE ReadEntries(_, _, _)
ReadEntries(w, lba, acc) ==
    IF Len(acc) >= EntrySectors THEN [w EXCEPT !.out = acc]
    ELSE Only({IF x.rc < 0 THEN x ELSE ReadEntries(x, lba + 1, acc \o x.out) : x \in {nvme_blkdev_read(w, lba, 1)}})

(* The partitions registered from the entries: s_parts and s_devs are      *)
(* filled in place, number by number.                                      *)
PartName(k) == IF k = 1 THEN "nvme0p1" ELSE "nvme0p2"
RECURSIVE Register(_, _, _, _)
Register(w, es, i, k) ==
    IF i > Len(es) \/ k > Cardinality(Parts) THEN [w EXCEPT !.rc = k - 1]
    ELSE LET e == es[i]
             name == PartName(k)
         IN  IF "type" \notin DOMAIN e THEN Register(w, es, i + 1, k)
             ELSE IF e.start >= e.end \/ e.type # "aegis" THEN Register(w, es, i + 1, k)
             ELSE Only({IF x.rc < 0 THEN [x EXCEPT !.rc = k - 1] ELSE Register(x, es, i + 1, k + 1)
                         : x \in {blkdev_register([w EXCEPT !.geo[name] =
                                     [start |-> e.start, count |-> (e.end - e.start + 1) * load.ratio]], name)}})

gpt_scan(w) ==
    IF ~blkdev_get(w, "nvme0") THEN [w EXCEPT !.rc = 0]
    ELSE Only({IF x.rc < 0 THEN [x EXCEPT !.rc = 0]
               ELSE Only({IF y.rc < 0 \/ y.out # x.out[1].sum THEN [y EXCEPT !.rc = 0] ELSE Register(y, y.out, 1, 1)
                           : y \in {ReadEntries(x, x.out[1].at, <<>>)}})
                : x \in {ReadHeader(w)}})

gpt_rescan(w) == Only({gpt_scan(x) : x \in {blkdev_unregister_children(w)}})

-----------------------------------------------------------------------------
(* ext2_cache.c.  The mounted device holds block b in load.fsb sectors.    *)

Found(w, b) == {i \in Slots : w.cache[i].blk = b /\ w.cache[i].age # 0}
Lowest(S) == CHOOSE i \in S : \A j \in S : i <= j
cache_find(w, b) == Lowest(Found(w, b))

(* cache_evict's choice: a clean slot before a dirty one, then the oldest. *)
Victim(w) ==
    LET key(i) == <<IF w.cache[i].dirty THEN 1 ELSE 0, w.cache[i].age, i>>
        before(a, b) == a[1] < b[1] \/ (a[1] = b[1] /\ (a[2] < b[2] \/ (a[2] = b[2] /\ a[3] < b[3])))
    IN  CHOOSE i \in Slots : \A j \in Slots \ {i} : before(key(i), key(j))

(* A dirty slot is written back and is clean then, written or not.         *)
Flush(w, i) ==
    LET s == w.cache[i]
    IN  IF s.dirty /\ s.blk # 0
        THEN Only({[x EXCEPT !.cache[i].dirty = FALSE, !.lost = IF x.rc = 0 THEN @ ELSE @ \cup {s.blk}]
                    : x \in {Write(w, w.dev, s.blk * load.fsb, load.fsb, s.data)}})
        ELSE w

(* cache_get_slot on a miss: the slot belongs to the block even if the     *)
(* read fails.                                                             *)
Fill(w, i, b) ==
    LET age == (w.age + 1) % AgeLimit
        mine == [w EXCEPT !.cache[i].blk = b, !.cache[i].dirty = FALSE, !.age = age, !.cache[i].age = age]
    IN  Only({IF x.rc < 0 THEN [x EXCEPT !.lost = @ \cup {b}] ELSE [x EXCEPT !.cache[i].data = x.out]
               : x \in {Read(mine, w.dev, b * load.fsb, load.fsb)}})

cache_get_slot(w, b) ==
    IF Found(w, b) = {}
    THEN LET v == Victim(w) IN Only({Fill(x, v, b) : x \in {Flush(w, v)}})
    ELSE LET i == cache_find(w, b)
             age == (w.age + 1) % AgeLimit
         IN  [w EXCEPT !.age = age, !.cache[i].age = age, !.rc = 0]

RECURSIVE FlushAll(_, _)
FlushAll(w, i) == IF i > CACHE_SLOTS THEN w ELSE Only({FlushAll(x, i + 1) : x \in {Flush(w, i)}})
ext2_sync(w) == IF w.dev = "none" THEN w ELSE FlushAll(w, 1)

(* A file-system call that changes block b: the slot, the bytes, the mark. *)
Modify(w, b, buf) ==
    Only({IF x.rc < 0 \/ Found(x, b) = {} THEN x
          ELSE LET i == cache_find(x, b) IN [x EXCEPT !.cache[i].data = buf, !.cache[i].dirty = TRUE]
           : x \in {cache_get_slot(w, b)}})

-----------------------------------------------------------------------------
(* Where the sectors of the mounted device are, and what is read there:    *)
(* the cache's copy if there is one.                                       *)

NoFault == [at |-> 0, kind |-> "none"]
RECURSIVE Flat(_, _)
Flat(nv, n) == IF n = 0 THEN <<>> ELSE Flat(nv, n - 1) \o nv[n - 1]
Media(w) == [d \in {"nvme0"} \cup DOMAIN w.rd |-> IF d = "nvme0" THEN Flat(w.nv, Cardinality(DOMAIN w.nv)) ELSE w.rd[d]]

Disk(dev) == IF dev \in Parts THEN "nvme0" ELSE dev
Base(w, dev) == IF dev \in Parts THEN w.geo[dev].start * load.ratio ELSE 0
FsSector(w, b, i) == <<Disk(w.dev), Base(w, w.dev) + b * load.fsb + i>>
FsSectors(w, b) == {FsSector(w, b, i) : i \in 1..load.fsb}
Seen(w, b, i) == IF Found(w, b) # {} THEN w.cache[cache_find(w, b)].data[i] ELSE Media(w)[Disk(w.dev)][FsSector(w, b, i)[2]]
NativeSectors(n) == {<<"nvme0", n * load.ratio + i>> : i \in 1..load.ratio}

(* The ghosts after a call: sectors[v] are those it meant to change.       *)
Records(w, wrote) ==
    /\ dtrue' = [d \in DOMAIN dtrue |-> [s \in DOMAIN dtrue[d] |->
                    IF \E x \in wrote : x.at = <<d, s>> THEN (CHOOSE x \in wrote : x.at = <<d, s>>).v ELSE dtrue[d][s]]]
    /\ dbad' = dbad \cup UNION {FsSectors(w, b) : b \in w.lost} \cup UNION {NativeSectors(n) : n \in w.failed}
    /\ dsk' = [w EXCEPT !.n = 0, !.hw = NoFault, !.rc = 0, !.out = <<>>, !.lost = {}, !.failed = {},
                        !.faults = IF w.hw.at \in 1..w.n THEN @ + 1 ELSE @]
    /\ dcalls' = dcalls + 1

Begin(hw) == [dsk EXCEPT !.hw = hw]
Faults == IF ~dsk.up THEN {} ELSE {NoFault} \cup (IF dsk.faults < load.faults THEN [at : 1..2, kind : load.kinds] ELSE {})
May == dsk.up /\ dcalls < load.calls

(* Boot (main.c): the ramdisks of the boot modules, nvme_init, gpt_scan and*)
(* the choice of the root device.  nvme_init registers nothing when one of *)
(* its admin commands fails.                                               *)
NoSlot == [blk |-> 0, dirty |-> FALSE, data |-> <<>>, age |-> 0]
Off(nv, cuts) == [up |-> FALSE, nv |-> nv, cuts |-> cuts]
Powered(nvme) ==
    [up |-> TRUE, nv |-> dsk.nv, cuts |-> dsk.cuts, rd |-> load.rd, iobuf |-> [i \in 1..XFER |-> Zero], infl |-> <<>>,
     cq |-> [i \in 0..(NVME_IO_QUEUE_DEPTH - 1) |-> [ph |-> 0, cid |-> 0, ok |-> FALSE]],
     ctail |-> 0, cph |-> 1, head |-> 0, ph |-> 1, cid |-> 0,
     table |-> SelectSeq(<<"ramdisk0", "ramdisk1">>, LAMBDA d : d \in DOMAIN load.rd)
                 \o (IF nvme THEN <<"nvme0">> ELSE <<>>),
     geo |-> [p \in Parts |-> [start |-> 0, count |-> 0]],
     dev |-> "none", cache |-> [i \in Slots |-> NoSlot], age |-> load.age,
     n |-> 0, hw |-> NoFault, rc |-> 0, out |-> <<>>, lost |-> {}, failed |-> {}, wrong |-> FALSE, faults |-> 0,
     stale |-> {}, moved |-> FALSE]

Mounted(w) ==
    [w EXCEPT !.dev = IF blkdev_get(w, "ramdisk0") THEN "ramdisk0" ELSE IF blkdev_get(w, "nvme0p1") THEN "nvme0p1" ELSE "none"]

Boot(nvme) ==
    /\ ~dsk.up /\ nvme \in load.nvme
    /\ \E w \in {Mounted(gpt_scan(Powered(nvme)))} :
          /\ dsk' = [w EXCEPT !.n = 0, !.rc = 0, !.out = <<>>]
          /\ dtrue' = Media(w)
    /\ dbad' = {} /\ UNCHANGED dcalls

(* A file-system call that changes block b to bytes it does not hold, or   *)
(* only reads it.                                                          *)
FsWrite(b, hw) ==
    LET x == FsSector(dsk, b, 1)
        new == IF dtrue[x[1]][x[2]] = Data("u") THEN "v" ELSE "u"
        buf == [i \in 1..load.fsb |-> Data(new)]
    IN  /\ May /\ "write" \in load.ops /\ dsk.dev # "none" /\ hw \in Faults
        /\ \E w \in {Modify(Begin(hw), b, buf)} :
              Records(w, IF w.rc < 0 THEN {} ELSE {[at |-> FsSector(w, b, i), v |-> buf[i]] : i \in 1..load.fsb})

FsRead(b, hw) ==
    /\ May /\ "read" \in load.ops /\ dsk.dev # "none" /\ hw \in Faults
    /\ \E w \in {cache_get_slot(Begin(hw), b)} : Records(w, {})

Sync(hw) ==
    /\ May /\ "sync" \in load.ops /\ hw \in Faults
    /\ \E w \in {ext2_sync(Begin(hw))} : Records(w, {})

(* The disk carries out a command that the driver has given up.            *)
LateAnswer ==
    /\ dsk.up /\ dsk.infl # <<>>
    /\ dsk' = [Execute(dsk, Head(dsk.infl)) EXCEPT !.infl = Tail(@)]
    /\ UNCHANGED <<dtrue, dbad, dcalls>>

-----------------------------------------------------------------------------
(* sys_disk.c *)

(* sys_blkdev_io's loop, one bounce page at a time; w.out is all that was  *)
(* read, and w.did the blocks transferred.                                 *)
Unit(dev) == IF dev = "nvme0" THEN load.ratio ELSE 1
RECURSIVE Chunks(_, _, _, _, _, _)
Chunks(w, dev, lba, count, buf, acc) ==
    LET u == Unit(dev)
        most == IF XFER \div u < 1 THEN 1 ELSE XFER \div u
        k == IF count > most THEN most ELSE count
        wr == buf # <<>>
    IN  IF count = 0 THEN [w EXCEPT !.rc = 0, !.out = acc]
        ELSE Only({IF x.rc < 0 THEN [x EXCEPT !.out = acc]
                   ELSE Chunks(x, dev, lba + k, count - k, SubSeq(buf, k * u + 1, Len(buf)),
                               acc \o (IF wr THEN SubSeq(buf, 1, k * u) ELSE x.out))
                    : x \in {IF wr THEN Write(w, dev, lba, k, SubSeq(buf, 1, k * u)) ELSE Read(w, dev, lba, k)}})

sys_blkdev_io(w, dev, lba, count, buf) ==
    IF ~blkdev_get(w, dev) \/ lba + count > block_count(w, dev) THEN [w EXCEPT !.rc = -1, !.out = <<>>]
    ELSE Chunks(w, dev, lba, count, buf, <<>>)

(* Writing under the mounted file system leaves its cached copies behind.  *)
Cached(w, dev, s) == w.dev # "none" /\ \E i \in Slots : w.cache[i].age # 0 /\ <<Disk(dev), s>> \in FsSectors(w, w.cache[i].blk)

RawWrote(w, dev, lba) ==
    {[at |-> <<Disk(dev), Base(w, dev) + lba * Unit(dev) + i>>, v |-> w.out[i]] : i \in DOMAIN w.out}

RawIo(dev, lba, v, hw) ==
    LET n == load.rawcount
        buf == IF v = "read" THEN <<>> ELSE [i \in 1..(n * Unit(dev)) |-> Data(v)]
    IN  /\ May /\ hw \in Faults
        /\ \E w \in {sys_blkdev_io(Begin(hw), dev, lba, n, buf)} :
              LET wrote == IF v = "read" THEN {} ELSE RawWrote(w, dev, lba)
              IN  Records([w EXCEPT !.stale = @ \cup {x.at : x \in {y \in wrote : Cached(w, dev, y.at[2])}}], wrote)

(* sys_gpt_rescan.  The table of the partitions is filled in place, so     *)
(* that a mounted partition moves if its entry has changed.                *)
Rescan(hw) ==
    /\ May /\ "rescan" \in load.ops /\ hw \in Faults
    /\ \E w \in {gpt_rescan(Begin(hw))} : Records([w EXCEPT !.moved = @ \/ (w.dev \in Parts /\ w.geo # dsk.geo)], {})

DiskInit ==
    /\ dsk = Off(IF load.part = "disk" THEN load.nv ELSE <<>>, 0) /\ dtrue = <<>> /\ dbad = {} /\ dcalls = 0

DiskNext ==
    /\ load.part = "disk" /\ UNCHANGED load
    /\ \/ \E nvme \in BOOLEAN : Boot(nvme)
       \/ \E b \in load.blocks, hw \in Faults : FsWrite(b, hw)
       \/ \E b \in load.blocks, hw \in Faults : FsRead(b, hw)
       \/ \E hw \in Faults : Sync(hw) \/ Rescan(hw)
       \/ \E r \in load.raw, hw \in Faults : RawIo(r.dev, r.lba, r.v, hw)
       \/ LateAnswer

-----------------------------------------------------------------------------
(* A command that is reported as done was done: a read returned what the   *)
(* medium holds and a write put its bytes there, whatever late answers the *)
(* queue still has to offer (poll_cqe's check of the identifier).          *)
DiskAnswers == dsk.up => ~dsk.wrong

(* Every sector reads as what was last written to it, through the cache if *)
(* it belongs to the mounted file system: a write to a partition touches   *)
(* no sector around it.  An I/O error spoils only the block whose own      *)
(* command failed, and two slots never hold the same block.  A raw write   *)
(* to a cached block, a mounted partition moved by a rescan and the wrap   *)
(* of the 32-bit age are the exceptions.                                   *)
DiskTrue ==
    dsk.up /\ ~dsk.moved /\ dcalls + load.age < AgeLimit =>
      LET media == Media(dsk)
          fs == IF dsk.dev = "none" THEN {} ELSE {b \in load.blocks \cup {0} : FsSectors(dsk, b) \subseteq {<<d, s>> : d \in {Disk(dsk.dev)}, s \in DOMAIN media[Disk(dsk.dev)]}}
      IN  /\ \A b \in fs, i \in 1..load.fsb :
                LET x == FsSector(dsk, b, i) IN x \in dbad \cup dsk.stale \/ Seen(dsk, b, i) = dtrue[x[1]][x[2]]
          /\ \A d \in DOMAIN media : \A s \in DOMAIN media[d] :
                <<d, s>> \in dbad \cup UNION {FsSectors(dsk, b) : b \in fs} \/ media[d][s] = dtrue[d][s]
          /\ \A i, j \in Slots : i # j /\ dsk.cache[i].age # 0 /\ dsk.cache[j].age # 0 => dsk.cache[i].blk # dsk.cache[j].blk

-----------------------------------------------------------------------------
(***************************** the installer *******************************)

installVars == <<diskVars, din>>

Idle == [pc |-> "idle", i |-> 0, buf |-> <<>>, part |-> "none", size |-> 0, behind |-> {}, snap |-> <<>>, runs |-> 0]
InstallInit == DiskInit /\ din = Idle

-----------------------------------------------------------------------------
(* install_write_gpt: the layout, and its writes in their order.           *)

Lbas(sectors) == (sectors + load.ratio - 1) \div load.ratio
Last == Cardinality(DOMAIN dsk.nv) - 1
esp_start == ESP_ALIGN \div load.ratio
root_start == esp_start + ESP_SIZE \div load.ratio
root_end == Last - Lbas(EntrySectors) - 1
Entries == <<Entry("esp", esp_start, root_start - 1), Entry("aegis", root_start, root_end)>>

(* write_block: one native block, zero-padded.                             *)
Padded(s) == s \o [i \in 1..(load.ratio - Len(s)) |-> Zero]
EntryBlock(i) == SubSeq(Entries, i * load.ratio + 1, (i + 1) * load.ratio)

(* Mutant: the copy of the entries at the end of the disk is one block late.*)
Mut_GptWrites ==
    LET n == Lbas(EntrySectors)
        array(at) == [i \in 1..n |-> [lba |-> at + i - 1, data |-> EntryBlock(i - 1)]]
        one(at, s) == <<[lba |-> at, data |-> Padded(<<s>>)]>>
    IN  one(0, Data("mbr")) \o one(1, Header(1, 2, Entries)) \o array(2) \o array(Last - n + 1)
          \o one(Last, Header(Last, Last - n, Entries))
GptWrites ==
    LET n == Lbas(EntrySectors)
        array(at) == [i \in 1..n |-> [lba |-> at + i - 1, data |-> EntryBlock(i - 1)]]
        one(at, s) == <<[lba |-> at, data |-> Padded(<<s>>)]>>
    IN  one(0, Data("mbr")) \o one(1, Header(1, 2, Entries)) \o array(2) \o array(Last - n)
          \o one(Last, Header(Last, Last - n, Entries))

-----------------------------------------------------------------------------
(* The steps of install_run_all.  A failed call ends it; the caller may    *)
(* start it again.                                                         *)

Goes(rc, next) == [din EXCEPT !.pc = IF rc < 0 THEN "failed" ELSE next, !.i = 0]
CanRun == dsk.up /\ load.installs > 0

Start ==
    /\ CanRun /\ din.pc \in {"idle", "failed"} /\ din.runs < load.installs
    /\ blkdev_get(dsk, "nvme0")
    /\ din' = [Idle EXCEPT !.pc = "grub", !.runs = din.runs + 1]
    /\ UNCHANGED diskVars

(* install_write_grub_cfg, install_strip_test_binaries (whose result is    *)
(* ignored) and install_write_credentials, each a change of live files.    *)
FileStep(pc, b, next, checked, hw) ==
    /\ CanRun /\ din.pc = pc /\ dsk.dev # "none" /\ hw \in Faults
    /\ \E w \in {Modify(Begin(hw), b, [i \in 1..load.fsb |-> Data(pc)])} :
          /\ Records(w, IF w.rc < 0 THEN {} ELSE {[at |-> FsSector(w, b, i), v |-> Data(pc)] : i \in 1..load.fsb})
          /\ din' = Goes(IF checked THEN w.rc ELSE 0, next)

(* A write call of the installer to the raw disk.                          *)
Wrote(w, lba) == Records(w, RawWrote(w, "nvme0", lba))

install_write_grub_cfg(hw) == FileStep("grub", 1, "strip", TRUE, hw)
install_strip_test_binaries(hw) == FileStep("strip", 3, "creds", FALSE, hw)
install_write_credentials(hw) == FileStep("creds", 2, "gpt", TRUE, hw)

install_write_gpt(hw) ==
    /\ CanRun /\ din.pc = "gpt" /\ hw \in Faults
    /\ IF root_end <= root_start THEN din' = Goes(-1, "failed") /\ UNCHANGED diskVars
       ELSE LET x == GptWrites[din.i + 1]
            IN  \E w \in {sys_blkdev_io(Begin(hw), "nvme0", x.lba, 1, x.data)} :
                  /\ Wrote(w, x.lba)
                  /\ din' = IF w.rc < 0 \/ din.i + 1 = Len(GptWrites) THEN Goes(w.rc, "rescan") ELSE [din EXCEPT !.i = @ + 1]

install_rescan_gpt(hw) ==
    /\ CanRun /\ din.pc = "rescan" /\ hw \in Faults
    /\ \E w \in {gpt_rescan(Begin(hw))} :
          /\ Records([w EXCEPT !.moved = @ \/ (w.dev \in Parts /\ w.geo # dsk.geo)], {})
          /\ din' = Goes(IF w.rc <= 0 THEN -1 ELSE 0, "find")

(* The first device whose name is the disk's and a 'p', and the sizes that *)
(* install_copy_rootfs compares.                                           *)
FindRoot ==
    LET found == {i \in DOMAIN dsk.table : dsk.table[i] \in Parts}
        p == dsk.table[Lowest(found)]
        ok == found # {} /\ blkdev_get(dsk, "ramdisk0") /\ block_count(dsk, "ramdisk0") <= block_count(dsk, p)
    IN  /\ CanRun /\ din.pc = "find"
        /\ din' = IF ok THEN [din EXCEPT !.pc = "root", !.part = p, !.size = block_count(dsk, "ramdisk0")] ELSE Goes(-1, "failed")
        /\ UNCHANGED diskVars

(* copy_512b: read a chunk of the live image, and write it.                *)
Chunk == IF din.size - din.i > XFER THEN XFER ELSE din.size - din.i
DirtySectors == UNION {FsSectors(dsk, dsk.cache[i].blk) : i \in {j \in Slots : dsk.cache[j].dirty}}
RootRead ==
    /\ CanRun /\ din.pc = "root" /\ din.buf = <<>>
    /\ \E w \in {sys_blkdev_io(dsk, "ramdisk0", din.i, Chunk, <<>>)} :
          din' = [din EXCEPT !.buf = w.out,
                             !.behind = @ \cup {i \in (din.i + 1)..(din.i + Chunk) : <<"ramdisk0", i>> \in DirtySectors},
                             !.snap = @ \o SubSeq(dtrue["ramdisk0"], din.i + 1, din.i + Chunk)]
    /\ UNCHANGED diskVars

RootWrite(hw) ==
    /\ CanRun /\ din.pc = "root" /\ din.buf # <<>> /\ hw \in Faults
    /\ \E w \in {sys_blkdev_io(Begin(hw), din.part, din.i, Len(din.buf), din.buf)} :
          /\ Records(w, RawWrote(w, din.part, din.i))
          /\ din' = IF w.rc < 0 \/ din.i + Len(din.buf) = din.size THEN [Goes(w.rc, "esp") EXCEPT !.buf = <<>>]
                    ELSE [din EXCEPT !.i = @ + Len(din.buf), !.buf = <<>>]

(* copy_to_native: the boot image, clamped to the partition, in pages      *)
(* padded with zeros.                                                      *)
EspSize == IF ~blkdev_get(dsk, "ramdisk1") THEN 0
           ELSE IF Len(dsk.rd.ramdisk1) > ESP_SIZE THEN ESP_SIZE ELSE Len(dsk.rd.ramdisk1)
EspPage(i) == [j \in 1..XFER |-> IF i * XFER + j <= EspSize THEN dsk.rd.ramdisk1[i * XFER + j] ELSE Zero]
install_copy_esp(hw) ==
    /\ CanRun /\ din.pc = "esp" /\ hw \in Faults
    /\ IF EspSize = 0 THEN din' = Goes(-1, "failed") /\ UNCHANGED diskVars
       ELSE LET lba == esp_start + din.i * (XFER \div load.ratio)
            IN  \E w \in {sys_blkdev_io(Begin(hw), "nvme0", lba, XFER \div load.ratio, EspPage(din.i))} :
                  /\ Wrote(w, lba)
                  /\ din' = IF w.rc < 0 \/ (din.i + 1) * XFER >= EspSize THEN Goes(w.rc, "sync") ELSE [din EXCEPT !.i = @ + 1]

InstallSync(hw) ==
    /\ CanRun /\ din.pc = "sync" /\ hw \in Faults
    /\ \E w \in {ext2_sync(Begin(hw))} : Records(w, {})
    /\ din' = Goes(0, "done")

(* The power fails between two commands of the disk, also in the middle of *)
(* an installation; what the disk holds is what the next boot finds.       *)
PowerFail ==
    /\ dsk.up /\ dsk.cuts < load.cuts
    /\ dsk' = Off(dsk.nv, dsk.cuts + 1) /\ din' = [Idle EXCEPT !.runs = din.runs]
    /\ UNCHANGED <<dtrue, dbad, dcalls>>

InstallNext ==
    \/ DiskNext /\ UNCHANGED din
    \/ /\ load.part = "disk" /\ UNCHANGED load
       /\ \/ Start \/ FindRoot \/ RootRead \/ PowerFail
          \/ \E hw \in Faults :
               \/ install_write_grub_cfg(hw) \/ install_strip_test_binaries(hw) \/ install_write_credentials(hw)
               \/ install_write_gpt(hw) \/ install_rescan_gpt(hw) \/ RootWrite(hw)
               \/ install_copy_esp(hw) \/ InstallSync(hw)

-----------------------------------------------------------------------------
Installed(s) == Media(dsk)["nvme0"][root_start * load.ratio + s]
Doubtful(s) == <<"nvme0", s>> \in dbad

(* The device table names each device once.  The registered partitions are *)
(* those of one whole table, the one that was there first or the one the   *)
(* installer writes, also when the power failed or a write was lost in the *)
(* middle of writing it (gpt_scan's checks).  They are inside the disk,    *)
(* and apart from each other where the entries of their table are.         *)
Tables == {Entries} \cup {load.nv[i][1].sum : i \in {j \in DOMAIN load.nv : "sum" \in DOMAIN load.nv[j][1]}}
AegisParts(es) == SelectSeq(es, LAMBDA e : e.type = "aegis" /\ e.start < e.end)
DiskTable ==
    dsk.up =>
      LET known == {k \in 1..Cardinality(Parts) : blkdev_get(dsk, PartName(k))}
          first(k) == dsk.geo[PartName(k)].start * load.ratio
          after(k) == first(k) + dsk.geo[PartName(k)].count
      IN  /\ \A i, j \in DOMAIN dsk.table : i # j => dsk.table[i] # dsk.table[j]
          /\ Len(dsk.table) <= BLKDEV_MAX
          /\ \E es \in Tables : \A k \in known :
               /\ k \in DOMAIN AegisParts(es)
               /\ first(k) = AegisParts(es)[k].start * load.ratio /\ after(k) = (AegisParts(es)[k].end + 1) * load.ratio
          /\ \A k \in known : first(k) > 2 * load.ratio /\ after(k) <= (Cardinality(DOMAIN dsk.nv) - 2) * load.ratio
          /\ \A j, k \in known : j < k => after(j) <= first(k) \/ after(k) <= first(j)

(* An installation that reports success leaves two valid headers with      *)
(* entries that match them, a root partition equal to the live system as   *)
(* it was when it was copied, and the boot image in its partition.  What   *)
(* the live file system still had only in its cache is the exception.      *)
InstallCopies ==
    load.part = "disk" /\ din.pc = "done" =>
      LET nv == Media(dsk)["nvme0"]
          at(lba) == nv[lba * load.ratio + 1]
          array(lba) == SubSeq(nv, lba * load.ratio + 1, lba * load.ratio + EntrySectors)
          good(lba) == header_valid(at(lba), lba) /\ array(at(lba).at) = at(lba).sum
      IN  /\ dbad = {} => good(1) /\ good(Last)
          /\ \A s \in 1..din.size : s \in din.behind \/ Doubtful(root_start * load.ratio + s) \/ Installed(s) = din.snap[s]
          /\ \A s \in 1..EspSize : Doubtful(esp_start * load.ratio + s) \/ nv[esp_start * load.ratio + s] = dsk.rd.ramdisk1[s]
          /\ esp_start * load.ratio + EspSize <= root_start * load.ratio

(* The installed root partition holds the live root with the files that    *)
(* the earlier phases have just written.                                   *)
InstallIsComplete ==
    load.part = "disk" /\ din.pc = "done" /\ dbad = {} => \A s \in 1..din.size : Installed(s) = din.snap[s]
=============================================================================
