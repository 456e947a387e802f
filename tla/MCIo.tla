-------------------------------- MODULE MCIo --------------------------------
(***************************************************************************)
(* Files, terminals and devices for model checking: the ext2 file system,  *)
(* the terminals, the USB host controller, the network card, and the block *)
(* layer with the installer.  A behaviour is about one part, that of its   *)
(* workload; the others keep their initial states.                         *)
(***************************************************************************)
EXTENDS Integers, Sequences, TLC

CONSTANTS
  XProc, NBlocks, NInodes, BlockSize, NDirect, EXT2_FD_POOL, SYMLINK_MAX_DEPTH, NameLen,
  YProc, PTY_MAX_PAIRS, PTY_BUF_SIZE, LINEBUF,
  XHCI_MAX_SLOTS, XHCI_MAX_PORTS, XHCI_CMD_RING_SIZE, XHCI_EVT_RING_SIZE, XHCI_TRANSFER_RING_SIZE, MOUSE_BUF_SIZE,
  NProc, VIRTQ_SIZE, ARP_TABLE_SIZE, ArpRounds, TCP_RETRANSMIT_MAX, NestMax,
  CACHE_SLOTS, BLKDEV_MAX, NVME_IO_QUEUE_DEPTH, XFER, AgeLimit, ESP_ALIGN, ESP_SIZE

VARIABLES
  load,
  xfs, xdisk, xpool, xfd, xcrash, xcalls, xtext, xheld, xodd,
  ytty, yfd, yproc, ykbd, ytyped, ygot, yodd,
  uport, uhc, udrv, uslot, uin, uodd,
  ncard, narp, nstk, ntcp, nwoke, nlog, nodd,
  dsk, dtrue, dbad, dcalls, din

X == INSTANCE Ext2
Y == INSTANCE Tty
U == INSTANCE Xhci
N == INSTANCE Nic
D == INSTANCE Disk

ext2Vars == <<xfs, xdisk, xpool, xfd, xcrash, xcalls, xtext, xheld, xodd>>
ttyVars == <<ytty, yfd, yproc, ykbd, ytyped, ygot, yodd>>
usbVars == <<uport, uhc, udrv, uslot, uin, uodd>>
nicVars == <<ncard, narp, nstk, ntcp, nwoke, nlog, nodd>>
installVars == <<dsk, dtrue, dbad, dcalls, din>>
ioVars == <<load, ext2Vars, ttyVars, usbVars, nicVars, installVars>>

\* Programs on a small file system.
Len_ == "." :> 1 @@ ".." :> 1 @@ "a" :> 2 @@ "b" :> 2 @@ "c" :> 1 @@ "d" :> 1
XLoad(calls, procs, paths) ==
  [part |-> "ext2", calls |-> [p \in procs |-> calls], procs |-> procs, paths |-> [p \in procs |-> paths], dirs |-> {}, links |-> {}, moves |-> {},
   flags |-> {{"creat"}}, sizes |-> {3}, crashes |-> 0, evicts |-> FALSE, values |-> [p \in procs |-> {1, 2}], max |-> 7]
fA == <<"a">>
fB == <<"b">>
fC == <<"c">>
fD == <<"d">>
XLoads ==
 {[XLoad({"open", "write", "close", "dup"}, {"p", "q"}, {fA}) EXCEPT !.flags = {{"creat"}, {"trunc"}, {"append"}}],
  [XLoad({"open", "close", "unlink", "mkdir", "rename"}, {"p"}, {fB, fC, <<"a", "b">>}) EXCEPT !.dirs = {fA}, !.moves = {<<fB, fC>>, <<fC, <<"a", "b">>>>, <<<<"a", "b">>, fB>>}],
  [XLoad({"open", "close", "unlink", "mkdir", "symlink"}, {"p"}, {fA, fB, <<"c", "b">>}) EXCEPT !.dirs = {fD}, !.links = {<<fC, fD>>, <<fB, fA>>}],
  [XLoad({}, {"p", "q"}, {}) EXCEPT !.calls = [p |-> {"open", "write", "sync"}, q |-> {"open", "write", "unlink"}], !.crashes = 1, !.evicts = TRUE, !.max = 5, !.values = [p |-> {1}, q |-> {2}], !.paths = [p |-> {fC}, q |-> {fD}]],
  [XLoad({}, {"p", "q"}, {}) EXCEPT !.calls = [p |-> {"open", "write", "sync"}, q |-> {"open", "write"}], !.crashes = 1, !.max = 7, !.values = [p |-> {1}, q |-> {2}], !.paths = [p |-> {fC}, q |-> {fD}]]}

\* People and programs at terminals.
YLoad(calls) ==
  [part |-> "tty", calls |-> calls, ends |-> 1, ignores |-> {}, want |-> 2, leaders |-> {}, nonblock |-> {}, typed |-> 3, keys |-> {}, input |-> {}]
YLoads ==
 {[YLoad([m |-> {"openm", "type", "mread"}, s |-> {"open", "read"}]) EXCEPT !.input = {<<"x">>, <<"del">>, <<"nl">>, <<"intr">>, <<"eof">>}],
  [YLoad([m |-> {"openm", "fork", "close"}, s |-> {"openm", "open", "close"}]) EXCEPT !.leaders = {"m", "s"}, !.ends = 2],
  [YLoad([p \in {"s", "r"} |-> {"read", "mode", "group"}]) EXCEPT !.keys = {"c", "lctrl"}, !.typed = 1, !.ignores = {"r"}],
  [YLoad([m |-> {"openm", "type", "resize", "mread"}, s |-> {"open", "read", "write"}]) EXCEPT !.input = {<<"x", "nl">>, <<"x">>}, !.leaders = {"s"}, !.nonblock = {"m"}],
  [YLoad([m |-> {"openm", "type", "mread", "close"}, s |-> {"open", "read", "close"}]) EXCEPT !.input = {<<"x", "nl">>}, !.typed = 2],
  [YLoad([s |-> {"read"}]) EXCEPT !.keys = {"d", "rctrl", "lshift", "lalt"}, !.typed = 2],
  [YLoad([s |-> {"read"}]) EXCEPT !.keys = {"enter", "up", "x", "del"}]}

\* Keyboards and mice.
ULoad == [part |-> "usb", board |-> "ok", ports |-> {1, 2}, devs |-> {"kbd", "mouse"},
          says |-> [kbd |-> {<<"a">>, <<>>}, mouse |-> {<<"l">>, <<"r">>}, other |-> {}, none |-> {}],
          reports |-> 4, unplug |-> FALSE, timeouts |-> FALSE, packets |-> {}, lost |-> {0}]
Byte(s, o, v) == [sync |-> s, over |-> o, v |-> v]
ULoads ==
  {[ULoad EXCEPT !.says.kbd = {<<"a">>}, !.says.mouse = {<<"l">>}, !.reports = 3],
   [ULoad EXCEPT !.devs = {"mouse"}, !.says.mouse = {<<"l">>}],
   [ULoad EXCEPT !.ports = {1}, !.devs = {"kbd"}, !.says.kbd = {<<"a">>, <<"a", "up">>, <<>>}, !.reports = 6],
   [ULoad EXCEPT !.ports = {1}, !.devs = {"mouse"}, !.reports = 6],
   [ULoad EXCEPT !.unplug = TRUE, !.devs = {"mouse"}, !.says.mouse = {<<"l">>}, !.reports = 3],
   [ULoad EXCEPT !.unplug = TRUE, !.ports = {1}, !.says.mouse = {<<"l">>}, !.says.kbd = {<<"a">>}, !.reports = 4],
   [ULoad EXCEPT !.timeouts = TRUE, !.ports = {1}, !.devs = {"kbd"}, !.says.kbd = {<<"a">>}, !.reports = 3],
   [ULoad EXCEPT !.devs = {"mouse"}, !.ports = {1}, !.reports = 3, !.says.mouse = {<<"u", "u", "u">>},
       !.packets = {<<Byte(TRUE, FALSE, "p"), Byte(TRUE, FALSE, "q"), Byte(FALSE, FALSE, "s")>>,
                    <<Byte(TRUE, TRUE, "p"), Byte(FALSE, FALSE, "q"), Byte(FALSE, FALSE, "s")>>},
       !.lost = {0, 1, 3}],
   [ULoad EXCEPT !.board = "broken", !.devs = {"kbd", "other"}, !.unplug = TRUE, !.reports = 3],
   [ULoad EXCEPT !.devs = {"kbd", "other"}, !.ports = {1}, !.reports = 3]}

\* Frames that arrive and are sent.
Rep(ip, m) == [k |-> "reply", ip |-> ip, mac |-> m]
Seg(ip) == [k |-> "seg", ip |-> ip, mac |-> "x"]
Ping(ip) == [k |-> "ping", ip |-> ip, mac |-> "x"]
NLoad == [part |-> "nic", nic |-> "virtio", frames |-> 3, calls |-> 2, speed |-> {9}, irqs |-> FALSE, known |-> <<>>,
          arrive |-> {Rep("A", "a"), Rep("B", "b")}, sends |-> [p |-> {<<"A", "udp">>}, q |-> {}]]
NLoads ==
  {NLoad,
   [NLoad EXCEPT !.sends.p = {"A", "B"} \X {"udp"}, !.arrive = {Rep("A", "a"), Rep("A", "c"), Rep("B", "b")}, !.frames = 2],
   [NLoad EXCEPT !.sends.q = {<<"B", "udp">>}, !.frames = 2],
   [NLoad EXCEPT !.arrive = {Rep("A", "a"), Ping("B"), Rep("B", "b")}, !.calls = 1],
   [NLoad EXCEPT !.nic = "rtl", !.arrive = {Rep("A", "a"), Ping("B")}, !.calls = 1],
   [NLoad EXCEPT !.nic = "rtl", !.speed = {0, 1}, !.calls = 4, !.frames = 1],
   [NLoad EXCEPT !.speed = {0, 1}, !.calls = 3, !.frames = 1],
   [NLoad EXCEPT !.sends.p = {"A", "B", "C"} \X {"udp"}, !.arrive = {Rep("A", "a"), Rep("B", "b"), Rep("C", "c")}, !.frames = 1, !.calls = 3],
   [NLoad EXCEPT !.sends.p = {<<"A", "udp">>, <<"A", "syn">>}, !.arrive = {Rep("A", "a"), Seg("A")}, !.frames = 2],
   [NLoad EXCEPT !.sends.p = {<<"A", "udp">>, <<"A", "syn">>}, !.arrive = {Rep("A", "a"), Seg("B")}, !.frames = 2, !.irqs = TRUE],
   [NLoad EXCEPT !.known = <<"old", "older">>, !.sends.p = {<<"A", "tcp">>, <<"A", "syn">>}, !.sends.q = {<<"A", "tcp">>},
                 !.arrive = {Rep("A", "a"), Seg("A")}, !.frames = 2, !.irqs = TRUE]}

\* Disks: with a partition table es whose primary header may be bad, or blank.
Pad(s, r) == s \o [i \in 1..(r - Len(s)) |-> D!Zero]
RECURSIVE Chop(_, _)
Chop(s, r) == IF s = <<>> THEN <<>> ELSE <<SubSeq(s, 1, r)>> \o Chop(SubSeq(s, r + 1, Len(s)), r)
Gpt(es, r, body, prim) ==
  LET ents == Chop(es, r)
      n == 1 + Len(ents)
      last == n + Len(body) + Len(ents) + 1
      all == <<Pad(<<D!Data("mbr")>>, r)>> \o <<Pad(<<IF prim THEN D!Header(1, 2, es) ELSE D!Zero>>, r)>> \o ents
              \o body \o ents \o <<Pad(<<D!Header(last, last - Len(ents), es)>>, r)>>
  IN  [i \in 0..(Len(all) - 1) |-> all[i + 1]]
Body(n, r) == [i \in 1..n |-> [j \in 1..r |-> D!Zero]]
Root(a, b) == <<D!Entry("esp", a, a), D!Entry("aegis", a, b)>>
Two(a, b, c, d) == <<D!Entry("aegis", a, b), D!Entry("aegis", c, d)>>
Blank(n, r) == [i \in 0..(n - 1) |-> [j \in 1..r |-> D!Zero]]
Img(n) == [i \in 1..n |-> D!Data("img")]

\* A running system on its disk.
DLoad ==
  [part |-> "disk", ratio |-> 1, fsb |-> 1, nv |-> Gpt(Root(4, 7), 1, Body(4, 1), TRUE), rd |-> [ramdisk1 |-> Img(1)],
   nvme |-> {TRUE}, blocks |-> {1, 2, 3}, age |-> 0, calls |-> 4, faults |-> 1, ops |-> {"write", "sync"},
   kinds |-> {"late", "err", "after"}, raw |-> {}, rawcount |-> 1, installs |-> 0, cuts |-> 0]
Raw(devs, lbas) == [dev : devs, lba : lbas, v : {"r", "read"}]
DLoads ==
  {DLoad,
   [DLoad EXCEPT !.ops = {"write", "read"}, !.kinds = {"err"}],
   [DLoad EXCEPT !.age = AgeLimit - 4, !.faults = 0, !.calls = 5],
   [DLoad EXCEPT !.ratio = 2, !.nv = Gpt(Root(3, 4), 2, Body(2, 2), TRUE), !.calls = 3],
   [DLoad EXCEPT !.fsb = 2, !.nv = Gpt(Root(4, 9), 1, Body(6, 1), FALSE), !.blocks = {1, 2}, !.faults = 2, !.kinds = {"late"}],
   [DLoad EXCEPT !.rd = [ramdisk0 |-> Img(4), ramdisk1 |-> Img(1)], !.nvme = BOOLEAN, !.calls = 3, !.blocks = {1, 2},
       !.nv = Gpt(Two(4, 5, 6, 7), 1, Body(4, 1), TRUE), !.ops = {"write", "rescan"},
       !.raw = Raw({"nvme0p1", "ramdisk0", "nvme0"}, {1})],
   [DLoad EXCEPT !.nv = Gpt(Two(4, 7, 8, 10), 1, Body(7, 1), TRUE), !.rawcount = 3, !.ops = {"rescan"}, !.calls = 3,
       !.blocks = {1}, !.raw = Raw({"nvme0p1", "nvme0p2"}, {0, 1})]}

\* The live system, installing.
ILoad ==
  [DLoad EXCEPT !.nv = Blank(17, 1), !.rd = [ramdisk0 |-> Img(4), ramdisk1 |-> Img(2)], !.calls = 0,
                !.kinds = {"late", "err"}, !.installs = 2]
ILoads ==
  {ILoad,
   [ILoad EXCEPT !.calls = 40, !.ops = {"sync"}, !.faults = 0, !.installs = 1],
   [ILoad EXCEPT !.calls = 3, !.ops = {"write"}, !.faults = 0, !.installs = 1],
   [ILoad EXCEPT !.nv = Blank(12, 1)],
   [ILoad EXCEPT !.nv = Blank(9, 2), !.ratio = 2, !.rd.ramdisk1 = Img(3)],
   [ILoad EXCEPT !.faults = 0, !.cuts = 2, !.nv = Gpt(Root(5, 9), 1, Body(11, 1), TRUE)],
   [ILoad EXCEPT !.rd = [ramdisk1 |-> Img(2)], !.nv = Gpt(Root(8, 14), 1, Body(11, 1), TRUE)],
   [ILoad EXCEPT !.rd = [ramdisk1 |-> Img(2)], !.faults = 0, !.nv = Gpt(Root(7, 14), 1, Body(11, 1), TRUE)]}

Started == X!Ext2Init /\ Y!TtyInit /\ U!UsbInit /\ N!NicInit /\ D!InstallInit
Loads == XLoads \cup YLoads \cup ULoads \cup NLoads \cup DLoads \cup ILoads
IoInit == load \in Loads /\ Started
IoNext ==
  \/ X!Ext2Next /\ UNCHANGED <<ttyVars, usbVars, nicVars, installVars>>
  \/ Y!TtyNext /\ UNCHANGED <<ext2Vars, usbVars, nicVars, installVars>>
  \/ U!UsbNext /\ UNCHANGED <<ext2Vars, ttyVars, nicVars, installVars>>
  \/ N!NicNext /\ UNCHANGED <<ext2Vars, ttyVars, usbVars, installVars>>
  \/ D!InstallNext /\ UNCHANGED <<ext2Vars, ttyVars, usbVars, nicVars>>
IoSpec == IoInit /\ [][IoNext]_ioVars /\ Y!TtyFair /\ U!UsbFair /\ N!NicFair

\* An installation on a blank disk that meets no fault.
InstallSpec == load = [ILoad EXCEPT !.faults = 0, !.installs = 1] /\ Started /\ [][IoNext]_ioVars
InstallIsComplete == D!InstallIsComplete

\* What is read is what was written: files, also after a crash, sectors
\* through the cache and the partitions, an installed system, lines of a
\* terminal, key presses and mouse reports, frames in and out.
IoIntact ==
  /\ X!Ext2Content /\ D!DiskAnswers /\ D!DiskTrue /\ D!InstallCopies
  /\ Y!TtyLines /\ U!UsbEventsOnce /\ U!UsbInput
  /\ N!NicTransmit /\ (load.part = "nic" => N!NicReceive)

\* The tables on disk and in memory are consistent after every call, interrupt
\* and failed command, as far as each part promises it: directories, bitmaps
\* and block ownership (after a crash only those of the files untouched since
\* a sync, and with the other exceptions of Ext2Sound), terminal pairs (unless
\* a slave was opened twice), USB slots, the ARP table, and the device table,
\* also after a power failure in the middle of an installation.
IoTables == X!Ext2Sound /\ Y!TtyTables /\ U!UsbSlots /\ N!NicArp /\ D!DiskTable

\* Nobody sleeps at a terminal that has something for them, and no device is
\* left without a transfer to answer.
IoNobodyForgotten == Y!TtyNobodyForgotten /\ U!UsbArmed

\* A reader at a terminal whose line is complete, whose other end has closed or
\* who has a signal returns; a plugged device is enumerated and its reports are
\* handled, until an answer of the controller comes after its time-out; and a
\* sender that waits for an address returns, unless the timer comes while
\* tcp_lock is held across such a wait, when the CPU spins for ever, against
\* eth.c:215-217.  Waits of the disk driver are bounded loops and are not here.
Due == Y!TtyDue \/ U!UsbDue \/ N!NicDue
IoReturns == Due ~> ~Due
=============================================================================
