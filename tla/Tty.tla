--------------------------------- MODULE Tty ---------------------------------
(***************************************************************************)
(* Terminals: the line discipline (tty/tty.c), pseudo-terminal pairs       *)
(* (tty/pty.c), the keyboard (arch/x86_64/kbd.c) and the console terminal  *)
(* made of it (fs/kbd_vfs.c), with the terminal requests of sys_ioctl.     *)
(*                                                                         *)
(* Terminal 0 is the console: its input is the keyboard's ring, its output *)
(* the screen, which is not kept.  The others are the pairs of the pool.   *)
(* A system call runs with interrupts off until it blocks, so a read is    *)
(* one action up to the point where it blocks and one from each wake-up.   *)
(* Characters: "x" and "X" print, the others are what they are named for.  *)
(***************************************************************************)
EXTENDS Integers, Sequences, SequencesExt, FiniteSets, FiniteSetsExt

CONSTANTS
  YProc,
  PTY_MAX_PAIRS,
  PTY_BUF_SIZE,      \* of a pair's rings, and KBD_BUF_SIZE
  LINEBUF            \* sizeof(linebuf)

NoProc == "-"
Pair == 1..PTY_MAX_PAIRS
Terminal == 0..PTY_MAX_PAIRS

VARIABLES
  load,
  ytty,      \* per terminal: rings, line buffer, mode, waiters, owners
  yfd,       \* the ends that each process has open, <<side, k>>
  yproc,     \* per process: where it is, and a pending signal
  ykbd,      \* modifiers, and the bytes the keyboard has sent
  ytyped, ygot, yodd   \* ghosts: input accepted and returned, and what makes a terminal irregular

ttyVars == <<ytty, yfd, yproc, ykbd, ytyped, ygot, yodd>>

Closed ==
  [in |-> <<>>, out |-> <<>>, line |-> <<>>, pos |-> 0, ready |-> FALSE, mode |-> "cooked",
   use |-> FALSE, mo |-> FALSE, so |-> FALSE, mrefs |-> 0, srefs |-> 0, locked |-> FALSE,
   mwait |-> NoProc, swait |-> NoProc, session |-> NoProc, fg |-> NoProc]
Idle == [pc |-> "idle", side |-> "slave", k |-> 0, mode |-> "cooked"]

TtyInit ==
  /\ ytty = [k \in Terminal |-> Closed]
  /\ yfd = [p \in YProc |-> {}]
  /\ yproc = [p \in YProc |-> [st |-> Idle, sig |-> FALSE]]
  /\ ykbd = [shift |-> FALSE, ctrl |-> FALSE, alt |-> FALSE, e0 |-> FALSE, wire |-> <<>>, held |-> {}]
  /\ ytyped = [k \in Terminal |-> <<>>] /\ ygot = [k \in Terminal |-> <<>>] /\ yodd = [k \in Terminal |-> {}]

-----------------------------------------------------------------------------
(* The line discipline, on the record of one terminal.                     *)

Take(s, n) == SubSeq(s, 1, Min({n, Len(s)}))
Drop(s, n) == SubSeq(s, Min({n, Len(s)}) + 1, Len(s))
Room(s) == PTY_BUF_SIZE - 1 - Len(s)

\* write_out: to the screen, or to the master's ring as far as it has room.
WriteOut(t, k, s) == IF k # 0 /\ t.mo THEN [t EXCEPT !.out = @ \o Take(s, Room(@))] ELSE t

\* One character of tty_read in cooked mode.
CookedChar(t, k, c) ==
  CASE c = "intr" -> [t |-> [WriteOut(t, k, <<"^", "C", "nl">>) EXCEPT !.line = <<>>], how |-> "intr"]
    [] c = "nl" -> [t |-> [WriteOut(t, k, <<"nl">>) EXCEPT !.line = IF Len(@) < LINEBUF THEN Append(@, "nl") ELSE @,
                                                           !.ready = TRUE], how |-> "line"]
    [] c = "eof" -> [t |-> [t EXCEPT !.ready = t.line # <<>>], how |-> IF t.line = <<>> THEN "eof" ELSE "line"]
    [] c = "del" -> [t |-> IF t.line = <<>> THEN t ELSE [WriteOut(t, k, <<"bs", "sp", "bs">>) EXCEPT !.line = Front(@)], how |-> "more"]
    [] c \in {"x", "X"} /\ Len(t.line) < LINEBUF -> [t |-> [WriteOut(t, k, <<c>>) EXCEPT !.line = Append(@, c)], how |-> "more"]
    [] OTHER -> [t |-> t, how |-> "more"]

\* The loops of tty_read: characters are taken from the ring until the read
\* is over or the ring is empty.
Only(S) == CHOOSE x \in S : TRUE
ICRNL(c) == IF c = "cr" THEN "nl" ELSE c
RECURSIVE CookedLoop(_, _)
CookedLoop(t, k) ==
  IF t.in = <<>> THEN [t |-> t, how |-> "empty", sigs |-> 0]
  ELSE Only({IF r.how = "more" THEN CookedLoop(r.t, k) ELSE [t |-> r.t, how |-> r.how, sigs |-> IF r.how = "intr" THEN 1 ELSE 0]
              : r \in {CookedChar([t EXCEPT !.in = Tail(@)], k, ICRNL(Head(t.in)))}})
RECURSIVE RawLoop(_, _)
RawLoop(t, n) ==
  IF t.in = <<>> THEN [t |-> t, how |-> "empty", sigs |-> n]
  ELSE IF ICRNL(Head(t.in)) = "intr" THEN RawLoop([t EXCEPT !.in = Tail(@)], n + 1)
  ELSE [t |-> [t EXCEPT !.in = Tail(@)], how |-> "char", sigs |-> n]

\* The bytes a read returns from the line buffer, and what is left of it.
FromLine(t) == Take(Drop(t.line, t.pos), load.want)
LineLeft(t) ==
  LET pos == t.pos + Len(FromLine(t))
  IN  IF pos >= Len(t.line) THEN [t EXCEPT !.line = <<>>, !.pos = 0, !.ready = FALSE] ELSE [t EXCEPT !.pos = pos]

-----------------------------------------------------------------------------
\* sched_wake of the tasks in a set, and signal_send_pgrp: each process is a
\* group of its own.
Woken(ps) == [p \in YProc |-> IF p \in ps /\ yproc[p].st.pc = "blocked" THEN [yproc[p] EXCEPT !.st.pc = "awake"] ELSE yproc[p]]
Signalled(pr, g) ==
  [p \in YProc |-> IF p # g THEN pr[p] ELSE [pr[p] EXCEPT !.sig = TRUE, !.st.pc = IF @ = "blocked" THEN "awake" ELSE @]]

Returns(k, bytes) == ygot' = [ygot EXCEPT ![k] = @ \o bytes]

\* The rest of a read of terminal k by p, from the start or from a wake-up.
ReadOn(p, t, k, mode) ==
  \E r \in {IF mode = "cooked" THEN CookedLoop(t, k) ELSE RawLoop(t, 0)} :
    LET over == r.how # "empty"
        hangup == k # 0 /\ ~t.mo
        quit == mode = "poll" \/ hangup \/ yproc[p].sig \/ (r.sigs > 0 /\ t.fg = p)
        full == LineLeft([r.t EXCEPT !.pos = 0, !.swait = IF k = 0 THEN NoProc ELSE @])
        st == IF over \/ quit THEN Idle ELSE [pc |-> "blocked", side |-> "slave", k |-> k, mode |-> mode]
    IN  \E t2 \in {CASE r.how = "line" -> full
                     [] ~over /\ ~quit -> [r.t EXCEPT !.swait = p]
                     [] OTHER -> IF k = 0 /\ mode # "poll" THEN [r.t EXCEPT !.swait = NoProc] ELSE r.t} :
          LET wake == IF t2.out # t.out THEN {t.mwait} ELSE {}
              here == [Woken(wake) EXCEPT ![p].st = st]
          IN  /\ ytty' = [ytty EXCEPT ![k] = IF wake = {} THEN t2 ELSE [t2 EXCEPT !.mwait = NoProc]]
              /\ yproc' = IF r.sigs > 0 /\ t.fg # NoProc THEN Signalled(here, t.fg) ELSE here
              /\ Returns(k, CASE r.how = "line" -> FromLine([r.t EXCEPT !.pos = 0])
                              [] r.how = "char" -> <<ICRNL(t.in[r.sigs + 1])>>
                              [] OTHER -> <<>>)
              /\ yodd' = [yodd EXCEPT ![k] = @ \cup (IF mode # "cooked" THEN {"raw"} ELSE {})
                    \cup (IF r.t.line # <<>> /\ ~over /\ quit THEN {"cut short"} ELSE {})
                    \cup (IF mode # "poll" /\ (k = 0 \/ ~(over \/ quit)) /\ t.swait \notin {p, NoProc}
                             /\ yproc[t.swait].st.pc # "idle" THEN {"two readers"} ELSE {})]

Has(p, side, k) == IF k = 0 THEN side = "slave" ELSE <<side, k>> \in yfd[p]
YCall(p, c) == c \in load.calls[p] /\ yproc[p].st.pc = "idle" /\ ~yproc[p].sig

\* tty_read.
YRead(p, k) ==
  LET t == ytty[k]
  IN  /\ YCall(p, "read") /\ Has(p, "slave", k)
      /\ IF t.fg \notin {NoProc, p} /\ p \notin load.ignores
           THEN yproc' = Signalled(yproc, p) /\ UNCHANGED <<ytty, ygot, yodd>>
         ELSE IF t.mode = "cooked" /\ t.pos < Len(t.line)
           THEN /\ ytty' = [ytty EXCEPT ![k] = LineLeft(t)] /\ Returns(k, FromLine(t)) /\ UNCHANGED yproc
                /\ yodd' = IF t.ready THEN yodd ELSE [yodd EXCEPT ![k] = @ \cup {"part of a line"}]
         ELSE ReadOn(p, IF t.mode = "cooked" THEN [t EXCEPT !.line = <<>>, !.pos = 0, !.ready = FALSE] ELSE t, k, t.mode)
      /\ UNCHANGED <<yfd, ykbd, ytyped>>

YReadOn(p) ==
  LET st == yproc[p].st
  IN  /\ st.pc = "awake" /\ st.side = "slave"
      /\ IF st.mode = "cooked" /\ ytty[st.k].ready
           THEN /\ Returns(st.k, FromLine([ytty[st.k] EXCEPT !.pos = 0]))
                /\ ytty' = [ytty EXCEPT ![st.k] = LineLeft([@ EXCEPT !.pos = 0])]
                /\ yproc' = [yproc EXCEPT ![p].st = Idle] /\ yodd' = [yodd EXCEPT ![st.k] = @ \cup {"two readers"}]
           ELSE ReadOn(p, ytty[st.k], st.k, st.mode)
      /\ UNCHANGED <<yfd, ykbd, ytyped>>

\* The process returns to user mode and takes its signal.
YTakeSignal(p) ==
  /\ yproc[p].sig /\ yproc[p].st.pc = "idle" /\ yproc' = [yproc EXCEPT ![p].sig = FALSE]
  /\ UNCHANGED <<ytty, yfd, ykbd, ytyped, ygot, yodd>>

\* tty_write, with "\n" written as "\r\n" on a pair; the whole length is
\* returned even when the ring takes less.
YWrite(p, k) ==
  LET t == WriteOut(ytty[k], k, <<"x", "cr", "nl">>)
      wake == IF t.out # ytty[k].out THEN {t.mwait} ELSE {}
  IN  /\ YCall(p, "write") /\ Has(p, "slave", k)
      /\ ytty' = [ytty EXCEPT ![k] = IF wake = {} THEN t ELSE [t EXCEPT !.mwait = NoProc]]
      /\ yproc' = Woken(wake) /\ UNCHANGED <<yfd, ykbd, ytyped, ygot, yodd>>

\* tty_ioctl: TCSETS, TIOCSPGRP, TIOCSWINSZ.
YSetMode(p, k, m) ==
  /\ YCall(p, "mode") /\ Has(p, "slave", k) /\ m # ytty[k].mode
  /\ ytty' = [ytty EXCEPT ![k].mode = m]
  /\ yodd' = [yodd EXCEPT ![k] = @ \cup {"raw"}] /\ UNCHANGED <<yfd, yproc, ykbd, ytyped, ygot>>
YSetGroup(p, k, g) ==
  /\ YCall(p, "group") /\ Has(p, "slave", k) /\ ytty' = [ytty EXCEPT ![k].fg = g]
  /\ UNCHANGED <<yfd, yproc, ykbd, ytyped, ygot, yodd>>
YResize(p, k) ==
  /\ YCall(p, "resize") /\ Has(p, "master", k) /\ ytty[k].fg # NoProc
  /\ yproc' = Signalled(yproc, ytty[k].fg) /\ UNCHANGED <<ytty, yfd, ykbd, ytyped, ygot, yodd>>

-----------------------------------------------------------------------------
(* Pairs.                                                                  *)

\* try_acquire_ctty_locked: processes in load.leaders lead a session.
Acquires(p) == p \in load.leaders /\ \A j \in Terminal : (j = 0 \/ ytty[j].use) => ytty[j].session # p
Acquired(p, t) == IF Acquires(p) THEN [t EXCEPT !.session = p, !.fg = p] ELSE t

Holders(side, k) == {p \in YProc : <<side, k>> \in yfd[p]}
YOpenMaster(p) ==
  LET free == {k \in Pair : ~ytty[k].use}
      k == Min(free)
  IN  /\ YCall(p, "openm") /\ free # {} /\ Cardinality(yfd[p]) < load.ends
      /\ ytty' = [ytty EXCEPT ![k] = Acquired(p, [Closed EXCEPT !.use = TRUE, !.mo = TRUE, !.mrefs = 1, !.locked = TRUE])]
      /\ yfd' = [yfd EXCEPT ![p] = @ \cup {<<"master", k>>}]
      /\ ytyped' = [ytyped EXCEPT ![k] = <<>>] /\ ygot' = [ygot EXCEPT ![k] = <<>>]
      /\ yodd' = [yodd EXCEPT ![k] = IF Holders("slave", k) = {} THEN {} ELSE {"opened twice"}] /\ UNCHANGED <<yproc, ykbd>>
YUnlock(p, k) ==
  /\ YCall(p, "openm") /\ Has(p, "master", k) /\ ytty[k].locked
  /\ ytty' = [ytty EXCEPT ![k].locked = FALSE] /\ UNCHANGED <<yfd, yproc, ykbd, ytyped, ygot, yodd>>
YOpenSlave(p, k) ==
  /\ YCall(p, "open") /\ ytty[k].use /\ ytty[k].mo /\ ~ytty[k].locked /\ ~Has(p, "slave", k) /\ Cardinality(yfd[p]) < load.ends
  /\ ytty' = [ytty EXCEPT ![k] = Acquired(p, [@ EXCEPT !.so = TRUE, !.srefs = 1])]
  /\ yfd' = [yfd EXCEPT ![p] = @ \cup {<<"slave", k>>}]
  /\ yodd' = IF ytty[k].so THEN [yodd EXCEPT ![k] = @ \cup {"opened twice"}] ELSE yodd
  /\ UNCHANGED <<yproc, ykbd, ytyped, ygot>>

\* dup of an end into another process, by fork.
YFork(p, q, side, k) ==
  /\ YCall(p, "fork") /\ Has(p, side, k) /\ ~Has(q, side, k) /\ k # 0
  /\ ytty' = [ytty EXCEPT ![k] = IF side = "master" THEN [@ EXCEPT !.mrefs = @ + 1] ELSE [@ EXCEPT !.srefs = @ + 1]]
  /\ yfd' = [yfd EXCEPT ![q] = @ \cup {<<side, k>>}]
  /\ UNCHANGED <<yproc, ykbd, ytyped, ygot, yodd>>

\* The last close of an end hangs up on the other and wakes who waits there.
master_close_fn(t) ==
  IF t.mrefs > 1 THEN [t EXCEPT !.mrefs = @ - 1] ELSE [t EXCEPT !.mo = FALSE, !.mrefs = 0, !.swait = NoProc, !.use = t.so]
slave_close_fn(t) ==
  IF t.srefs > 1 THEN [t EXCEPT !.srefs = @ - 1] ELSE [t EXCEPT !.so = FALSE, !.srefs = 0, !.mwait = NoProc, !.use = t.mo]
YClose(p, side, k) ==
  LET t == ytty[k]
      wake == IF side = "master" /\ t.mrefs <= 1 THEN {t.swait} ELSE IF side = "slave" /\ t.srefs <= 1 THEN {t.mwait} ELSE {}
  IN  /\ YCall(p, "close") /\ k # 0 /\ Has(p, side, k)
      /\ yfd' = [yfd EXCEPT ![p] = @ \ {<<side, k>>}]
      /\ ytty' = [ytty EXCEPT ![k] = IF side = "master" THEN master_close_fn(t) ELSE slave_close_fn(t)]
      /\ yproc' = Woken(wake)
      /\ UNCHANGED <<ykbd, ytyped, ygot, yodd>>

\* master_read_fn; load.nonblock has the processes whose descriptor is O_NONBLOCK.
YMasterRead(p, k) ==
  LET t == ytty[k]
      block == t.out = <<>> /\ t.so /\ p \notin load.nonblock /\ ~yproc[p].sig
  IN  /\ \/ YCall(p, "mread") /\ Has(p, "master", k)
         \/ yproc[p].st.pc = "awake" /\ yproc[p].st.side = "master" /\ yproc[p].st.k = k
      /\ ytty' = [ytty EXCEPT ![k] = IF block THEN [t EXCEPT !.mwait = p] ELSE [t EXCEPT !.out = Drop(@, load.want)]]
      /\ yproc' = [yproc EXCEPT ![p].st = IF block THEN [Idle EXCEPT !.pc = "blocked", !.side = "master", !.k = k] ELSE Idle]
      /\ yodd' = IF block /\ t.mwait \notin {p, NoProc} /\ yproc[t.mwait].st.pc # "idle" THEN [yodd EXCEPT ![k] = @ \cup {"two masters"}] ELSE yodd
      /\ UNCHANGED <<yfd, ykbd, ytyped, ygot>>

\* Mutant: nobody is woken.
Mut_Typed(k, s) ==
  /\ ytty' = [ytty EXCEPT ![k].in = @ \o Take(s, Room(@))] /\ ytyped' = [ytyped EXCEPT ![k] = @ \o Take(s, Room(ytty[k].in))]
  /\ yproc' = yproc

\* Input arrives: master_write_fn, or buf_push of the keyboard.
Typed(k, s) ==
  LET fits == Take(s, Room(ytty[k].in))
      wake == IF k # 0 /\ fits = <<>> THEN {} ELSE {ytty[k].swait}
  IN  /\ ytty' = [ytty EXCEPT ![k] = [@ EXCEPT !.in = @ \o fits, !.swait = IF wake = {} THEN @ ELSE NoProc]]
      /\ yproc' = Woken(wake)
      /\ ytyped' = [ytyped EXCEPT ![k] = @ \o fits]
YMasterWrite(p, k, s) ==
  /\ YCall(p, "type") /\ Has(p, "master", k) /\ ytty[k].so /\ Len(ytyped[k]) + Len(s) <= load.typed
  /\ Typed(k, s) /\ UNCHANGED <<yfd, ykbd, ygot, yodd>>

-----------------------------------------------------------------------------
(* The keyboard.  A key sends its code when it goes down and up; some send *)
(* a prefix first.  Each byte is an interrupt.                             *)
KeyBytes(key) == IF key \in {"rctrl", "up"} THEN <<"e0", key>> ELSE <<key>>
YKey(key) ==
  LET down == key \notin ykbd.held
  IN  /\ ykbd.wire = <<>> /\ (down => Len(ytyped[0]) < load.typed)
      /\ ykbd' = [ykbd EXCEPT !.wire = [i \in 1..Len(KeyBytes(key)) |-> <<KeyBytes(key)[i], down>>],
                              !.held = IF down THEN @ \cup {key} ELSE @ \ {key}]
      /\ UNCHANGED <<ytty, yfd, yproc, ytyped, ygot, yodd>>

\* kbd_handler: the next modifiers and the characters pushed.
AfterByte(m, b, down) ==
  CASE b = "e0" -> [m EXCEPT !.e0 = TRUE]
    [] b = "rctrl" -> [m EXCEPT !.e0 = FALSE, !.ctrl = down]
    [] b = "lshift" /\ ~m.e0 -> [m EXCEPT !.shift = down]
    [] b = "lctrl" /\ ~m.e0 -> [m EXCEPT !.ctrl = down]
    [] b = "lalt" /\ ~m.e0 -> [m EXCEPT !.alt = down]
    [] OTHER -> [m EXCEPT !.e0 = FALSE]
Plain(m, b) ==
  CASE b = "x" -> IF m.ctrl THEN "ctrlx" ELSE IF m.shift THEN "X" ELSE "x"
    [] b = "c" -> IF m.ctrl THEN "intr" ELSE IF m.shift THEN "X" ELSE "x"
    [] b = "d" -> IF m.ctrl THEN "eof" ELSE IF m.shift THEN "X" ELSE "x"
    [] b = "enter" -> "cr"
    [] OTHER -> "del"
Pushed(m, b, down) ==
  IF ~down \/ b \in {"e0", "rctrl", "lshift", "lctrl", "lalt"} THEN <<>>
  ELSE IF b = "up" THEN <<"esc", "[", "A">>
  ELSE IF m.ctrl /\ b = "d" THEN <<"eof">>
  ELSE (IF m.ctrl /\ m.shift THEN <<"esc">> ELSE <<>>) \o (IF m.alt THEN <<"esc">> ELSE <<>>) \o <<Plain(m, b)>>
YKbdHandler ==
  LET b == Head(ykbd.wire)
      push == Pushed(ykbd, b[1], b[2])
  IN  /\ ykbd.wire # <<>>
      /\ ykbd' = [AfterByte(ykbd, b[1], b[2]) EXCEPT !.wire = Tail(@)]
      /\ IF push = <<>> THEN UNCHANGED <<ytty, yproc, ytyped>> ELSE Typed(0, push)
      /\ UNCHANGED <<yfd, ygot, yodd>>

TtyIn(A) == load.part = "tty" /\ A /\ UNCHANGED load
TtyNext ==
  TtyIn(\/ YKbdHandler \/ \E key \in load.keys : YKey(key)
        \/ \E p \in DOMAIN load.calls :
             \/ YReadOn(p) \/ YTakeSignal(p) \/ YOpenMaster(p)
             \/ \E k \in Terminal :
                  \/ YRead(p, k) \/ YWrite(p, k) \/ YMasterRead(p, k)
                  \/ \E m \in {"cooked", "raw", "poll"} : YSetMode(p, k, m)
                  \/ \E g \in DOMAIN load.calls : YSetGroup(p, k, g)
             \/ \E k \in Pair :
                  \/ YUnlock(p, k) \/ YOpenSlave(p, k) \/ YResize(p, k)
                  \/ \E s \in load.input : YMasterWrite(p, k, s)
                  \/ \E side \in {"master", "slave"} :
                       YClose(p, side, k) \/ \E q \in DOMAIN load.calls : YFork(p, q, side, k))
TtyFair == \A p \in YProc : WF_ttyVars(TtyIn(YReadOn(p) \/ \E k \in Pair : yproc[p].st.pc = "awake" /\ YMasterRead(p, k)))

-----------------------------------------------------------------------------
\* What a terminal in cooked mode makes of its input, line by line.
Cooked(s) ==
  LET Step(acc, c) ==
        CASE ICRNL(c) = "nl" -> [done |-> acc.done \o acc.cur \o (IF Len(acc.cur) < LINEBUF THEN <<"nl">> ELSE <<>>), cur |-> <<>>]
          [] c = "eof" -> [done |-> acc.done \o acc.cur, cur |-> <<>>]
          [] c = "intr" -> [acc EXCEPT !.cur = <<>>]
          [] c = "del" -> [acc EXCEPT !.cur = IF @ = <<>> THEN @ ELSE Front(@)]
          [] c \in {"x", "X"} /\ Len(acc.cur) < LINEBUF -> [acc EXCEPT !.cur = Append(@, c)]
          [] OTHER -> acc
  IN  FoldLeft(Step, [done |-> <<>>, cur |-> <<>>], s).done

\* The readers of a terminal that stays in cooked mode are given the lines
\* typed, as edited, however the input and their reads interleave.  A read
\* cut short by a signal, a second reader and a change of mode disturb this.
TtyLines == \A k \in Terminal : yodd[k] \subseteq {"opened twice", "two masters"} => IsPrefix(ygot[k], Cooked(ytyped[k]))

\* A process blocked in a read has nothing to read, the other end is open, no
\* signal is pending, and the next input will wake it.
TtyNobodyForgotten ==
  \A p \in YProc : LET st == yproc[p].st IN st.pc = "blocked" =>
    LET t == ytty[st.k]
    IN  /\ ~yproc[p].sig
        /\ (st.side = "slave" /\ "two readers" \notin yodd[st.k]) => t.in = <<>> /\ (st.k = 0 \/ t.mo) /\ t.swait = p
        /\ (st.side = "master" /\ "two masters" \notin yodd[st.k]) => t.out = <<>> /\ t.so /\ t.mwait = p

\* A pair is in use as long as a descriptor refers to it, each session has one
\* controlling terminal, and no modifier of the keyboard is on when no key is
\* held.  The count of a slave that was opened twice is the exception.
TtyTables ==
  /\ \A k \in Pair : LET t == ytty[k] IN
       /\ t.use <=> t.mo \/ t.so
       /\ t.mrefs = Cardinality(Holders("master", k)) /\ (t.mo <=> t.mrefs > 0)
       /\ "opened twice" \notin yodd[k] => t.srefs = Cardinality(Holders("slave", k)) /\ (t.so <=> t.srefs > 0)
  /\ \A j, k \in Pair : j # k /\ ytty[j].use /\ ytty[k].use /\ ytty[j].session # NoProc => ytty[j].session # ytty[k].session
  /\ ykbd.held = {} /\ ykbd.wire = <<>> => ~ykbd.shift /\ ~ykbd.ctrl /\ ~ykbd.alt /\ ~ykbd.e0

\* Somebody is in a read, asleep or not, that has to end: a signal is pending,
\* the other end is closed, a line that nobody has been given is complete, or
\* the slave has written.  As above, not with a second reader on the same side,
\* after a change of mode, or when a read was cut short by a signal.
TtyDue ==
  \E p \in YProc :
    LET st == yproc[p].st
        t == ytty[st.k]
    IN  /\ st.pc \in {"blocked", "awake"}
        /\ \/ yproc[p].sig
           \/ /\ st.side = "slave" /\ yodd[st.k] \subseteq {"opened twice", "two masters"}
              /\ Len(Cooked(ytyped[st.k])) > Len(ygot[st.k]) \/ (st.k # 0 /\ ~t.mo)
           \/ st.side = "master" /\ "two masters" \notin yodd[st.k] /\ (t.out # <<>> \/ ~t.so)
=============================================================================
