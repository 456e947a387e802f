------------------------------ MODULE MCSystem ------------------------------
(***************************************************************************)
(* Small instances of the parts above the scheduler, the devices and the   *)
(* network: file descriptors and the file systems without a disk (Files),  *)
(* programs, capabilities and process groups (Exec), page tables (Tables), *)
(* the display server and its clients (Lumen), the widget tree (Glyph),    *)
(* the log-in programs (Session), the service manager (Vigil), the DHCP    *)
(* and time clients (Dhcp) and the shell (Shell).  A behaviour picks one   *)
(* workload, and with it the part that moves; the others stay as they are. *)
(***************************************************************************)
EXTENDS Files, Exec, Tables, Lumen, Glyph, Session, Vigil, Dhcp, Shell, TLC

MCVas == <<<<1, 1, 1>>, <<1, 1, 2>>, <<2, 1, 1>>>>
MCKvas == <<<<3, 2, 1>>, <<3, 3, 1>>>>

(* ── File descriptors and file systems ─────────────────────────────────── *)
AllCaps == {"VFS_OPEN", "VFS_READ", "VFS_WRITE", "AUTH", "PROC_READ", "SETUID"}
Flags(acc, creat, cloexec) == [acc |-> acc, creat |-> creat, cloexec |-> cloexec]
ProcPath(who, name) == FPath("proc", who, name)
FilesLoad ==
  [part |-> "files", uid |-> 0, caps |-> AllCaps, steps |-> 4, child |-> 2, from |-> 1,
   calls |-> <<{"open", "close"}, {}>>, paths |-> {}, flags |-> {Flags("r", FALSE, FALSE)},
   texts |-> {}, names |-> {}]
DiskCalls == {"open", "mkdir", "symlink", "chmod", "chown", "fchmod", "fchown"}
FilesLoads == {
  [FilesLoad EXCEPT !.calls = <<{"open", "close", "dup", "dup2"}, {}>>,
                    !.paths = {ProcPath(-1, "maps"), ProcPath(0, "")}],
  [FilesLoad EXCEPT !.calls = <<{"open", "close", "read", "lseek", "fcntl"}, {}>>,
                    !.paths = {ProcPath(-1, "maps"), FPath("ext", 0, "etc")}],
  [FilesLoad EXCEPT !.calls = <<{"open", "fork", "forkfails", "clone", "spawn", "exec", "exit"}, {"close", "exec", "exit"}>>,
                    !.paths = {ProcPath(2, "fd"), FPath("ext", 0, "shadow")},
                    !.flags = {Flags("r", FALSE, FALSE), Flags("r", FALSE, TRUE)}],
  [FilesLoad EXCEPT !.calls = <<{"open", "write", "read", "close", "getdents"}, {}>>,
                    !.paths = {FPath("tmp", 0, "a"), FPath("tmp", 0, "b"), FPath("tmp", 0, "")},
                    !.flags = {Flags("r", TRUE, FALSE), Flags("w", FALSE, FALSE)},
                    !.texts = {<<1>>, <<1, 2, 3>>}, !.steps = 5],
  [FilesLoad EXCEPT !.calls = <<{"open", "write", "close"}, {}>>, !.flags = {Flags("r", TRUE, FALSE)},
                    !.paths = {FPath("tmp", 0, "long"), FPath("tmp", 0, "a")}, !.texts = {<<1>>}],
  [FilesLoad EXCEPT !.calls = <<{"open", "writev", "fork"}, {"writev", "exit"}>>,
                    !.paths = {FPath("tmp", 0, "a"), FPath("dev", 0, "null"), FPath("dev", 0, "tty")},
                    !.flags = {Flags("r", TRUE, FALSE)}, !.texts = {<<1>>, <<4>>, <<>>}],
  [FilesLoad EXCEPT !.uid = 1, !.caps = AllCaps \ {"AUTH"}, !.calls = <<DiskCalls, {}>>,
                    !.paths = {FPath("ext", 0, "n"), FPath("ext", 0, "shadow"), FPath("ext", 0, "l")},
                    !.names = {"n", "l"}, !.flags = {Flags("rw", TRUE, FALSE), Flags("r", FALSE, FALSE)}],
  [FilesLoad EXCEPT !.calls = <<DiskCalls, {}>>,
                    !.paths = {FPath("ext", 0, "n"), FPath("ext", 0, "motd"), FPath("ext", 0, "l")},
                    !.names = {"n", "l"}, !.flags = {Flags("rw", TRUE, FALSE)}, !.steps = 3],
  [FilesLoad EXCEPT !.calls = <<{"open", "clone", "getdents"}, {"open", "exit", "close"}>>,
                    !.paths = {ProcPath(0, ""), ProcPath(1, "fd"), ProcPath(2, "status"), ProcPath(0, "cmdline")},
                    !.caps = AllCaps \ {"PROC_READ"}]}
NormLoads ==
  {[part |-> "norm", cwd |-> cwd, path |-> path] :
     cwd \in {<<"/">>, <<"/", "a">>}, path \in UNION {[1..n -> {"/", ".", "a"}] : n \in 0..5}}

(* ── Programs, capabilities, process groups ────────────────────────────── *)
PolicyFile(name, text) == [name |-> name, reg |-> TRUE, opens |-> TRUE, text |-> text]
PolicyDir == <<
  PolicyFile("login", <<"service", " ", "AUTH", " ", "SETUID", "nl">>),
  [PolicyFile("sub", <<>>) EXCEPT !.reg = FALSE],
  PolicyFile("stsh", <<"admin", " ", "CAP_DELEGATE", " ", "POWER", "nl", "admin", " ", "PROC_READ">>),
  PolicyFile("dock", <<"service", "nl">>) >>
\* A file that is longer than what is read of it.
LongPolicy == <<PolicyFile("login", <<"service", " ", "AUTH", "nl", "service", " ", "FB", " ", "SETUID", " ", "POWER">>)>>
Bin(path) ==
  [path |-> path, src |-> "initrd", x |-> TRUE, empty |-> FALSE, reads |-> TRUE, elf |-> TRUE, interp |-> "none"]
LoginBin == Bin(<<"bin", "login">>)
StshBin == Bin(<<"bin", "stsh">>)
CatBin == [Bin(<<"usr", "cat">>) EXCEPT !.src = "ext2", !.interp = "ext2"]
Bins == {LoginBin, CatBin, [CatBin EXCEPT !.x = FALSE], [CatBin EXCEPT !.src = "none"], [CatBin EXCEPT !.empty = TRUE],
         [CatBin EXCEPT !.reads = FALSE], [CatBin EXCEPT !.elf = FALSE], [CatBin EXCEPT !.interp = "missing"],
         [CatBin EXCEPT !.interp = "bad"], [LoginBin EXCEPT !.interp = "initrd"]}
Masks == {
  XNoMask, [m |-> "badptr", caps |-> <<>>],
  [m |-> "list", caps |-> <<XCap("VFS_OPEN", {"r"}), XCap("NULL", {}), XCap("POWER", {"r"}), XCap("PROC_READ", {"r"})>>],
  [m |-> "list", caps |-> <<XCap("SETUID", {"w"})>>], [m |-> "list", caps |-> <<XCap("BIG", {})>>]}
ExecLoad ==
  [part |-> "exec", dir |-> PolicyDir, bins |-> {LoginBin, StshBin}, args |-> {"ok"}, masks |-> {XNoMask},
   grants |-> {}, init |-> <<>>, rest |-> <<>>, mem |-> 30]
ExecLoads == {
  [ExecLoad EXCEPT !.grants = {XCap("POWER", {"r"}), XCap("SETUID", {"w"}), XCap("BIG", {})}, !.masks = Masks,
                   !.init = <<{"grant", "spawn"}, {"grant", "spawn"}, {"exec"}, {"auth", "spawn"}, {"exec"}>>,
                   !.rest = <<{"grant", "auth", "exec"}>>],
  [ExecLoad EXCEPT !.init = <<{"exec", "fork"}, {"spawn", "fork"}, {"wait", "spawn"}>>, !.dir = LongPolicy,
                   !.rest = <<{"exec", "sigaction", "setuid", "reboot"}, {"exec", "exit"}>>],
  [ExecLoad EXCEPT !.init = <<{"setpgid"}, {"spawn", "setpgid", "fork"}, {"fork"}>>, !.bins = {LoginBin},
                   !.rest = <<{"fork", "setpgid", "setsid"}, {"setpgid", "exit"}>>]}
MemoryLoads ==
  {[ExecLoad EXCEPT !.init = <<{"exec", "wait"}, {"exec", "spawn"}, {"exec", "spawn", "fork"}>>, !.rest = <<{"exec"}>>,
                    !.bins = {bin}, !.args = {"ok", "badptr", "big"}, !.mem = mem] : mem \in 8..20, bin \in Bins}
PolicyWords == {"service", "admin", "AUTH", "foo", "#", " ", "nl"}
PolicyLoads ==
  {[part |-> "policy", text |-> text] :
     text \in UNION {[1..n -> PolicyWords] : n \in 0..3}
              \cup {<<a, " ", b, c, "AUTH", d, "admin", " ", "POWER">> :
                      a \in PolicyWords, b \in PolicyWords, c \in {" ", "nl"}, d \in PolicyWords}}
StackLoads ==
  {[part |-> "stack", argv |-> [n |-> n, len |-> len], envp |-> env, interp |-> interp] :
     n \in {0, 1, 2, 63, 64}, len \in {1, 2, 7, 8, 9, 200, 256}, interp \in BOOLEAN,
     env \in {[n |-> 0, len |-> 1], [n |-> 1, len |-> 5], [n |-> 2, len |-> 16], [n |-> 32, len |-> 256]}}

(* ── Page tables ───────────────────────────────────────────────────────── *)
TableLoad(frames, calls) == [part |-> "tables", frames |-> frames, calls |-> calls]
TableLoads == {
  TableLoad(14, {"spawn", "map", "unmap", "fork", "reap"}), TableLoad(11, {"spawn", "map", "fork", "exec"}),
  TableLoad(14, {"spawn", "map", "store", "cow", "reap"}), TableLoad(11, {"spawn", "map", "cow", "unmap"}),
  TableLoad(14, {"spawn", "map", "protect", "unmap", "exec", "poke"}),
  TableLoad(13, {"spawn", "device", "fork", "kernel"}), TableLoad(9, {"spawn", "kernel", "map", "device"})}

(* ── The display server and its clients ────────────────────────────────── *)
LumenLoad ==
  [part |-> "lumen", up |-> {"c1"}, calls |-> [c1 |-> 3, c2 |-> 2],
   ops |-> [c1 |-> {"create", "destroy"}, c2 |-> {"create", "destroy"}], invoke |-> {"term"},
   keys |-> 0, keyset |-> {"char"}, mice |-> 0, items |-> {"none"}, parts |-> {"body"}]
LumenLoads == {
  [LumenLoad EXCEPT !.up = {"c1", "c2"}, !.calls = [c1 |-> 1, c2 |-> 0]],
  [LumenLoad EXCEPT !.mice = 2, !.parts = {"body", "title", "close"}, !.calls = [c1 |-> 2, c2 |-> 0]],
  [LumenLoad EXCEPT !.mice = 2, !.ops = [c1 |-> {"create"}, c2 |-> {}], !.calls = [c1 |-> 2, c2 |-> 0]],
  [LumenLoad EXCEPT !.mice = 2, !.keys = 2, !.items = {"none", "about", "bar", "lock"}, !.keyset = {"char", "lock"},
                    !.calls = [c1 |-> 0, c2 |-> 0]],
  [LumenLoad EXCEPT !.keys = 2, !.keyset = {"toggle", "char", "install"}, !.calls = [c1 |-> 1, c2 |-> 0],
                    !.ops = [c1 |-> {"create"}, c2 |-> {}]],
  [LumenLoad EXCEPT !.ops = [c1 |-> {"panel", "invoke", "damage"}, c2 |-> {}], !.invoke = {"term", "widgets"},
                    !.calls = [c1 |-> 3, c2 |-> 1]]}

(* ── The widget tree ───────────────────────────────────────────────────── *)
Add(parent, child) == <<"add", parent, child>>
GlyphLoad ==
  [part |-> "glyph", types |-> <<>>, build |-> <<>>, later |-> {}, status |-> "nil", pad |-> 0, gap |-> 0, close |-> TRUE]
Nested == [root |-> "vbox", h1 |-> "hbox", h2 |-> "hbox", v |-> "vbox",
           b1 |-> "button", b2 |-> "button", l |-> "label", t |-> "textfield"]
GlyphLoads == {
  [GlyphLoad EXCEPT !.types = [root |-> "vbox", tabs |-> "tabs", p1 |-> "vbox", p2 |-> "hbox", tf |-> "textfield",
                               cb |-> "checkbox", bt |-> "button", st |-> "label"],
                    !.build = << Add("p1", "tf"), Add("p2", "cb"), <<"disable", "bt">>, Add("p2", "bt"), Add("tabs", "p1"),
                                 Add("tabs", "p2"), Add("root", "tabs"), Add("root", "st"), <<"content", "root">> >>,
                    !.status = "st", !.close = FALSE],
  [GlyphLoad EXCEPT !.types = [root |-> "vbox", ls |-> "list", sb |-> "scrollbar", tf |-> "textfield"],
                    !.build = << Add("ls", "sb"), <<"items", "ls", 4>>, Add("root", "ls"), Add("root", "tf"),
                                 <<"content", "root">> >>,
                    !.later = {<<"items", "ls", 3>>}],
  [GlyphLoad EXCEPT !.types = [root |-> "hbox", mb |-> "menubar", cb |-> "checkbox", in |-> "vbox",
                               bt |-> "button", r2 |-> "textfield"],
                    !.build = << Add("root", "mb"), Add("in", "cb"), <<"content", "root">> >>,
                    !.later = {Add("root", "in"), Add("in", "bt"), <<"remove", "root", "mb">>, <<"content", "r2">>},
                    !.close = FALSE],
  [GlyphLoad EXCEPT !.types = Nested, !.status = "l", !.pad = 1, !.gap = 1,
                    !.build = << Add("v", "l"), Add("v", "b1"), Add("h1", "v"), Add("h1", "b2"), Add("root", "h1"),
                                 Add("h2", "t"), Add("root", "h2"), <<"content", "root">> >>],
  [GlyphLoad EXCEPT !.types = Nested, !.gap = 1,
                    !.build = << Add("h1", "b2"), Add("root", "h1"), Add("v", "l"), Add("h1", "v"), <<"content", "root">> >>]}

(* ── Logging in ────────────────────────────────────────────────────────── *)
Passwd == <<[name |-> <<"a">>, uid |-> "ua", shell |-> "stsh"], [name |-> <<"a", "b">>, uid |-> "ub", shell |-> "gone"],
            [name |-> <<"b">>, uid |-> "uc", shell |-> "stsh"]>>
Shadow == <<[name |-> <<"a">>, pass |-> <<"b">>], [name |-> <<"a", "b">>, pass |-> <<"a">>]>>
LoginLoad == [part |-> "login", passwd |-> Passwd, shadow |-> Shadow, shells |-> {"stsh", "sh"},
              keys |-> {"a", "b", "nl", "bs"}, typed |-> 7, cuts |-> 1, junk |-> {"nul", "b"}]
BastionLoad == [part |-> "bastion", passwd |-> Passwd, shadow |-> Shadow, keys |-> {"a", "b", "nl", "bs", "tab"},
                typed |-> 5, auto |-> <<>>, autopass |-> <<>>]
SessionLoads == {
  LoginLoad, [LoginLoad EXCEPT !.shells = {"stsh"}, !.typed = 5], BastionLoad,
  [BastionLoad EXCEPT !.auto = <<"a">>, !.autopass = <<"b">>], [BastionLoad EXCEPT !.auto = <<"b">>, !.autopass = <<"b">>]}

(* ── Services, leases, the clock ───────────────────────────────────────── *)
Respawn == [oneshot |-> FALSE, max |-> 1, here |-> TRUE]
Command(verb, i) == [verb |-> verb, i |-> i]
VigilLoads == {
  [part |-> "vigil", svcs |-> <<Respawn, [Respawn EXCEPT !.oneshot = TRUE]>>,
   ctl |-> <<Command("stop", 1), Command("start", 1)>>, fails |-> 0, crashes |-> 1],
  [part |-> "vigil", svcs |-> <<Respawn>>,
   ctl |-> <<Command("restart", 1), Command("start", 1), Command("shutdown", 0)>>, fails |-> 1, crashes |-> 2],
  [part |-> "vigil", svcs |-> <<Respawn, [Respawn EXCEPT !.here = FALSE]>>,
   ctl |-> <<Command("start", 2), Command("status", 0)>>, fails |-> 1, crashes |-> 2]}
DhcpLoad == [part |-> "dhcp", leases |-> 1, fails |-> 0, ids |-> {"a", "b"}, dns |-> {"a"}, kinds |-> {"ack"}]
DhcpLoads == {
  [DhcpLoad EXCEPT !.kinds = {"ack", "nak"}], [DhcpLoad EXCEPT !.ids = {"a"}],
  [DhcpLoad EXCEPT !.fails = 1, !.leases = 0],
  [part |-> "chronos", fails |-> 1, bad |-> 1, drops |-> 0], [part |-> "chronos", fails |-> 1, bad |-> 0, drops |-> 1]}

(* ── The shell ─────────────────────────────────────────────────────────── *)
ShellLoad ==
  [part |-> "shell", lines |-> <<>>, files |-> {<<"f">>}, bins |-> {<<"a">>, <<"b">>}, big |-> TRUE, fails |-> 0,
   quits |-> 0, admin |-> TRUE, numbers |-> {<<"b">>}, pids |-> {}, caps |-> {<<"c">>}, dirs |-> {}]
Pipeline == <<"a", "sp", "|", "b", "sp", "|", "sp", "a">>
ShellLoads == {
  [ShellLoad EXCEPT !.lines = <<Pipeline, <<"a", "sp", "&">>>>, !.quits = 1],
  [ShellLoad EXCEPT !.lines = <<Pipeline, <<"a">>>>, !.fails = 1],
  [ShellLoad EXCEPT !.lines = <<<<"a", "sp", "|", "sp", "b", "sp", "<", "g", "sp", "&", ";", "b", "sp", "|", "a">>>>,
                    !.fails = 1, !.big = FALSE],
  [ShellLoad EXCEPT !.lines = <<<<"export", "sp", "v", "=", "b", ";", "$v", "sp", "$?">>,
                                <<"$v", "sp", "<", "f", "sp", "|", "sp", "x">>, <<"a", ">">>>>, !.quits = 1],
  [ShellLoad EXCEPT !.lines = <<<<"a", "sp", ">", "sp", "f", "sp", "|", "b", ";", "a", "sp", "<", "sp", "g">>,
                                <<"sandbox", "sp", "-allow", "sp", "c", "sp", "--", "sp", "a">>, <<"sandbox", "sp", "-allow">>,
                                <<"sandbox", "sp", "-allow", "sp", "c", "sp", "--", "sp", "x">>>>,
                    !.fails = 1],
  [ShellLoad EXCEPT !.lines = <<<<"cd", "sp", "x", ";", "caps", "sp", "b", ";", "help", ";", "grant">>, <<"export", "sp", "x">>,
                                <<"export", "sp", "v", "=">>, <<"a", "sp", "|", "sp", "2>&1">>, <<"exit">>>>]}
EditLoad ==
  [part |-> "edit", keys |-> {"a", "b", "up", "down"}, typed |-> 6, commands |-> <<<<"a", "b">>, <<"a", "b", "a">>, <<"b">>>>,
   names |-> (<<>> :> <<<<"a">>, <<"b", "a">>>>) @@ (<<"a", "/">> :> <<<<"b">>>>), folders |-> {<<"a", "/", "b">>},
   admin |-> FALSE, hangup |-> FALSE]
EditLoads == {
  EditLoad, [EditLoad EXCEPT !.keys = {"a", "sp", "tab", "left", "/"}, !.typed = 5],
  [EditLoad EXCEPT !.keys = {"b", "sp", "home", "end", "right", "del", "bs", "^K", "^U", "^W"}, !.typed = 4, !.hangup = TRUE]}
ParseLoads ==
  {[part |-> "parse", line |-> line] :
     line \in UNION {[1..n -> {"a", "sp", "|", ">", "<", "2>&1", "&"}] : n \in 0..3}
              \cup {<<"a", "sp">> \o u \o <<"sp">> \o w :
                      u \in {<<"|">>, <<">">>, <<"<">>, <<"a">>, <<"2>&1">>}, w \in [1..3 -> {"a", "sp", "|", ">", "&"}]}
              \cup {[i \in 1..13 |-> IF i % 2 = 0 THEN "sp" ELSE IF i = k THEN u ELSE "a"] :
                      k \in {3, 5, 11}, u \in {"a", "<", "|", "2>&1"}}}

(* ── The specification ─────────────────────────────────────────────────── *)
SystemLoads ==
  FilesLoads \cup NormLoads \cup ExecLoads \cup MemoryLoads \cup PolicyLoads \cup StackLoads \cup TableLoads
    \cup LumenLoads \cup GlyphLoads \cup SessionLoads \cup VigilLoads \cup DhcpLoads
    \cup ShellLoads \cup EditLoads \cup ParseLoads
vars == <<load, fvars, xvars, tvars, lvars, gvars, svars, vvars, dvars, hvars>>
SystemInit == /\ FilesInit /\ ExecInit /\ TablesInit /\ LumenInit /\ GlyphInit
              /\ SessionInit /\ VigilInit /\ DhcpInit /\ ShellInit
Init == load \in SystemLoads /\ SystemInit
Next ==
  /\ UNCHANGED load
  /\ \/ FilesNext   /\ UNCHANGED <<xvars, tvars, lvars, gvars, svars, vvars, dvars, hvars>>
     \/ ExecNext    /\ UNCHANGED <<fvars, tvars, lvars, gvars, svars, vvars, dvars, hvars>>
     \/ TablesNext  /\ UNCHANGED <<fvars, xvars, lvars, gvars, svars, vvars, dvars, hvars>>
     \/ LumenNext   /\ UNCHANGED <<fvars, xvars, tvars, gvars, svars, vvars, dvars, hvars>>
     \/ GlyphNext   /\ UNCHANGED <<fvars, xvars, tvars, lvars, svars, vvars, dvars, hvars>>
     \/ SessionNext /\ UNCHANGED <<fvars, xvars, tvars, lvars, gvars, vvars, dvars, hvars>>
     \/ VigilNext   /\ UNCHANGED <<fvars, xvars, tvars, lvars, gvars, svars, dvars, hvars>>
     \/ DhcpNext    /\ UNCHANGED <<fvars, xvars, tvars, lvars, gvars, svars, vvars, hvars>>
     \/ ShellNext   /\ UNCHANGED <<fvars, xvars, tvars, lvars, gvars, svars, vvars, dvars>>

\* What the running programs do of themselves: the display server's loop, the
\* service manager's, the DHCP and time clients', the log-in programs' and the
\* shell's with its children.  Users, packets, crashes and failures are left
\* to chance.
Running ==
  \/ /\ LAccept \/ LServe \/ LServed \/ LNoKey \/ LNoMouse
     /\ UNCHANGED <<load, fvars, xvars, tvars, gvars, svars, vvars, dvars, hvars>>
  \/ SessionStep /\ UNCHANGED <<load, fvars, xvars, tvars, lvars, gvars, vvars, dvars, hvars>>
  \/ VigilStep   /\ UNCHANGED <<load, fvars, xvars, tvars, lvars, gvars, svars, dvars, hvars>>
  \/ DhcpStep    /\ UNCHANGED <<load, fvars, xvars, tvars, lvars, gvars, svars, vvars, hvars>>
  \/ ShellStep   /\ UNCHANGED <<load, fvars, xvars, tvars, lvars, gvars, svars, vvars, dvars>>
Talking(c) ==
  /\ LGreet(c) \/ LWelcome(c) \/ LBody(c) \/ LReply(c)
  /\ UNCHANGED <<load, fvars, xvars, tvars, gvars, svars, vvars, dvars, hvars>>
Fairness == WF_vars(Running) /\ \A c \in LClients : WF_vars(Talking(c))
Spec == Init /\ [][Next]_vars /\ Fairness

(* ── What is checked ───────────────────────────────────────────────────── *)

\* Descriptors, programs and page tables: pages, tables, counts and frames
\* have as many holders as they should and none when they are free, on the
\* error paths of open, fork, spawn and execve as well, and what a process may
\* do and what its memory shows are what the calls before gave it (fd_table.c,
\* sys_file.c, sys_exec.c, sys_process.c, cap_policy.c, vmm.c).  The code does
\* not give everything back, and the conjuncts say what it keeps, so that
\* nothing else is kept: a slot of the ext2 pool for every program and
\* interpreter opened, the buffers of an execve that ends the process, the VMA
\* table of a spawn or fork that fails late (XNothingLost), and the references
\* to files of such a fork (FCounts).  Nothing is said once a /proc descriptor
\* was copied (FPagesHeld), or a PROT_NONE page unmapped (TUp).
KernelIntact == FilesIntact /\ ExecIntact /\ TablesIntact

\* The programs: windows, focus and drags of the display server match its
\* clients, a widget's change is reported and drawn, a session belongs to who
\* logged in, a service has one process and is given up for a reason, an
\* address comes from the server that was asked, and a foreground pipeline
\* leaves no child and no pipe end behind (compositor.c, lumen_server.c, glyph,
\* login, bastion, vigil, dhcp, chronos, stsh).  The code falls short of that in
\* places, which the conjuncts name: a window that a full list refused may have
\* the focus (LPointersSound), nothing is known of a client once a message to
\* it was cut (LViewsAgree), the screen misses the part of a change that the
\* title bar moves out of the reported rectangle (GDirtySeen), an acquisition
\* in the second of a refused renewal may take its late ACK (DBoundSound), a
\* vigictl command may be lost (VKept), a failed fork in the middle of a
\* pipeline leaves the ends of the pipes before it open, and background jobs
\* are not waited for (HNothingLeft).
UserIntact ==
  /\ LumenIntact /\ GlyphIntact /\ SessionIntact
  /\ VigilIntact /\ DhcpIntact /\ ShellIntact

\* Whatever is begun ends: a client's request is answered, a dead service is
\* seen to, a shutdown completes, a lease is asked for until there is one or
\* the client gives up, a log-in gets its answer, a pipeline comes back to
\* the prompt (lumen_client.c, vigil/main.c:280-340, dhcp/main.c,
\* login/main.c, exec.c:147-167).
Due == LDue \/ VDue \/ DDue \/ SDue \/ HDue
SystemReturns == Due ~> ~Due
=============================================================================
