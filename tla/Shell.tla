------------------------------- MODULE Shell -------------------------------
(***************************************************************************)
(* The shell user/bin/stsh: expansion and parsing of a line, builtins,     *)
(* pipelines of forked children, the line editor with its completion, and  *)
(* the history ring.                                                       *)
(*                                                                         *)
(* A line is a sequence of units: a word, a blank "sp", an operator or a   *)
(* variable.  Only a blank ends a word: an operator glued to a word is     *)
(* part of it, except ";" and "|", at which the line is cut first.         *)
(*                                                                         *)
(* Each child holds the pipe ends it inherited until it has arranged its   *)
(* own; a reader finishes at the end of its input, a writer of more than   *)
(* a pipe holds needs somebody who reads, or nobody who could.             *)
(***************************************************************************)
EXTENDS Workload, Naturals, FiniteSets, Sequences, SequencesExt

CONSTANTS HStages,   \* MAX_PIPELINE
          HArgs,     \* MAX_ARGV
          HLine,     \* LINE_SIZE - 1, of a line in units
          HBuf,      \* LINE_SIZE - 1, of a line in characters
          HEnv,      \* ENV_MAX
          HHist,     \* HIST_SIZE
          HCands     \* MAX_CANDIDATES

VARIABLES hs,   \* the shell
          hk,   \* its children, in the order of their birth
          he    \* the line editor and the history

hvars == <<hs, hk, he>>

HAt(p) == load.part = "shell" /\ hs.pc = p
HCut(s, n) == SubSeq(s, 1, IF Len(s) < n THEN Len(s) ELSE n)

(*************************** expansion, parsing ****************************)

env_get(env, key) ==
  LET at == {i \in DOMAIN env : env[i].key = key}
  IN IF at = {} THEN <<>> ELSE env[Min(at)].val

env_set(env, key, val) ==
  LET at == {i \in DOMAIN env : env[i].key = key}
  IN IF at # {} THEN [env EXCEPT ![Min(at)].val = val]
     ELSE IF Len(env) < HEnv THEN Append(env, [key |-> key, val |-> val]) ELSE env

\* The whole line is expanded at once, with the status of the line before.
env_expand(line, env, last) ==
  LET one(u) == IF u = "$?" THEN <<last>> ELSE IF u = "$v" THEN env_get(env, "v") ELSE <<u>>
  IN HCut(FlattenSeq([i \in DOMAIN line |-> one(line[i])]), HLine)

HNoCmd == [argv |-> <<>>, in |-> <<>>, out |-> <<>>, app |-> FALSE, err |-> FALSE, from |-> FALSE, to |-> FALSE]

\* From position i on, with n arguments found before it.  A redirect takes the
\* word after it; of two the later counts, but an append stays one.
parse_command(seg) ==
  LET skip(i) == Min({j \in i..Len(seg) : seg[j] # "sp"} \cup {Len(seg) + 1})
      stop(i) == Min({j \in i..Len(seg) : seg[j] = "sp"} \cup {Len(seg) + 1})
      go[i \in 1..(Len(seg) + 1), n \in 0..HArgs] ==
        LET a == skip(i)
            file == SubSeq(seg, skip(a + 1), stop(skip(a + 1)) - 1)
            rest == go[stop(skip(a + 1)), n]
        IN IF a > Len(seg) THEN HNoCmd
           ELSE CASE seg[a] = "2>&1" -> [go[a + 1, n] EXCEPT !.err = TRUE]
                  [] seg[a] \in {">", ">>"} -> [rest EXCEPT !.to = TRUE, !.out = IF rest.to THEN @ ELSE file,
                                                            !.app = @ \/ seg[a] = ">>"]
                  [] seg[a] = "<" -> [rest EXCEPT !.from = TRUE, !.in = IF rest.from THEN @ ELSE file]
                  [] OTHER -> IF n >= HArgs THEN HNoCmd
                              ELSE [go[stop(a), n + 1] EXCEPT !.argv = <<SubSeq(seg, a, stop(a) - 1)>> \o @]
  IN go[1, 0]

\* The pieces of a line between the units sep.
HSplit(u, sep) ==
  LET at == <<0>> \o SelectSeq([i \in DOMAIN u |-> i], LAMBDA i : u[i] = sep) \o <<Len(u) + 1>>
  IN [j \in 1..(Len(at) - 1) |-> SubSeq(u, at[j] + 1, at[j + 1] - 1)]

\* A trailing "&" and the stages; a stage without a word is dropped, and so
\* are the stages after the last there is room for.
parse_pipeline_bg(seg) ==
  LET end == Max({i \in DOMAIN seg : seg[i] # "sp"} \cup {0})
      bg == end > 0 /\ seg[end] = "&"
      segs == HSplit(IF bg THEN SubSeq(seg, 1, end - 1) ELSE seg, "|")
      all == [i \in DOMAIN segs |-> parse_command(segs[i])]
  IN [bg |-> bg, cmds |-> HCut(SelectSeq(all, LAMBDA c : c.argv # <<>>), HStages)]

(******************************* the children ******************************)

\* The ends of the pipes of the pipeline being run.
HEnds(pipes) == UNION {{[pipe |-> p, end |-> "r"], [pipe |-> p, end |-> "w"]} : p \in pipes}
HLive == {k \in DOMAIN hk : hk[k].st \in {"born", "run"}}
HHolds(e) == e \in hs.fds \/ \E k \in HLive : e \in hk[k].fds

\* Standard input and output of a stage: the pipes, replaced by the files that
\* could be opened.
HStdio(k) ==
  LET c == hk[k].cmd
      p == hk[k].pipes
      i == hk[k].i
      reads == c.from /\ c.in \in load.files
      writes == c.to /\ c.out # <<>>
  IN [from |-> IF i > 1 /\ ~reads THEN {[pipe |-> p[i - 1], end |-> "r"]} ELSE {},
      to |-> IF i <= Len(p) /\ ~writes THEN {[pipe |-> p[i], end |-> "w"]} ELSE {},
      opened |-> reads = c.from /\ writes = c.to]

HExec(k) ==
  LET io == HStdio(k)
  IN hk' = [hk EXCEPT ![k] =
              IF hk[k].cmd.argv[1] \notin load.bins THEN [@ EXCEPT !.st = "zombie", !.fds = {}, !.status = "127"]
              ELSE [@ EXCEPT !.st = "run", !.from = io.from, !.to = io.to,
                             !.fds = (@ \ HEnds(ToSet(hk[k].pipes))) \cup io.from \cup io.to]]

\* The child's side of fork: dup2, redirects, closing, exec.  A file that
\* cannot be opened ends a stage of a foreground pipeline only.
HChild(k) ==
  /\ load.part = "shell" /\ hk[k].st = "born" /\ ~hk[k].bg
  /\ \/ /\ HStdio(k).opened
        /\ HExec(k)
     \/ /\ ~HStdio(k).opened
        /\ hk' = [hk EXCEPT ![k].st = "zombie", ![k].fds = {}, ![k].status = "1"]
  /\ UNCHANGED <<hs, he>>

HChildBg(k) ==
  /\ load.part = "shell" /\ hk[k].st = "born" /\ hk[k].bg
  /\ HExec(k)
  /\ UNCHANGED <<hs, he>>

\* The end of input: nobody can write any more.  Output is taken if somebody
\* reads it, or kills the writer if nobody can.
HDone(k) ==
  /\ \A e \in hk[k].from : ~HHolds([e EXCEPT !.end = "w"])
  /\ \A e \in hk[k].to : \/ ~load.big
                         \/ \E j \in HLive : hk[j].st = "run" /\ [e EXCEPT !.end = "r"] \in hk[j].from
                         \/ ~HHolds([e EXCEPT !.end = "r"])

HExit(k, status) ==
  /\ hk' = [hk EXCEPT ![k].st = "zombie", ![k].fds = {}, ![k].status = status]
  /\ UNCHANGED he

HFinish(k) ==
  /\ load.part = "shell" /\ hk[k].st = "run" /\ HDone(k)
  /\ HExit(k, "0")
  /\ UNCHANGED hs

\* A command that fails early, like one that does not read its input.
HQuit(k) ==
  /\ load.part = "shell" /\ hk[k].st = "run" /\ hs.quits > 0
  /\ HExit(k, "1")
  /\ hs' = [hs EXCEPT !.quits = @ - 1]

\* Ctrl-C reaches the foreground group, which is the last stage alone; a
\* process killed by a signal leaves its exit status at 0.
HInterrupt ==
  /\ load.part = "shell" /\ hs.fg # 0 /\ hs.quits > 0 /\ hk[hs.fg].st = "run"
  /\ HExit(hs.fg, "0")
  /\ hs' = [hs EXCEPT !.quits = @ - 1]

(******************************** the shell ********************************)

\* A line is read and expanded; the commands between the semicolons, which
\* are parsed when their turn comes, are run one after the other.
HReadLine ==
  /\ HAt("prompt") /\ hs.todo # <<>>
  /\ LET segs == HSplit(env_expand(Head(hs.todo), hs.env, hs.last), ";")
     IN hs' = [hs EXCEPT !.todo = Tail(@), !.pc = "next",
                         !.rest = [i \in DOMAIN segs |-> parse_pipeline_bg(segs[i])]]
  /\ UNCHANGED <<hk, he>>

\* A builtin is a single command without an input redirect; its output
\* redirect and its "&" are not looked at.
HBuiltins == {"cd", "exit", "help", "export", "env", "caps", "sandbox", "grant"}
HIsBuiltin(p) ==
  Len(p.cmds) = 1 /\ ~p.cmds[1].from /\ ~p.cmds[1].err /\ p.cmds[1].argv[1] \in {<<b>> : b \in HBuiltins}

\* sandbox -allow CAP -- command: the place of the command, or 0.
HSandboxed(argv) ==
  LET i == Min({j \in 4..Len(argv) : argv[j] = <<"--">>} \cup {Len(argv)})
  IN IF load.admin /\ Len(argv) > i /\ argv[2] = <<"-allow">> /\ argv[3] \in load.caps THEN i + 1 ELSE 0

try_builtin(s, argv) ==
  LET arg == IF Len(argv) > 1 THEN argv[2] ELSE <<>>
      ends(status) == [s EXCEPT !.last = status]
  IN CASE argv[1] = <<"exit">> -> [s EXCEPT !.pc = "exit", !.last = IF arg = <<>> THEN @ ELSE arg[1]]
       [] argv[1] = <<"cd">> ->
            ends(IF (IF arg = <<>> THEN env_get(s.env, "HOME") ELSE arg) \in load.dirs \cup {<<>>} THEN "0" ELSE "1")
       [] argv[1] = <<"export">> /\ arg # <<>> ->
            IF Len(arg) > 1 /\ arg[2] = "="
            THEN [s EXCEPT !.last = "0", !.env = env_set(s.env, arg[1], SubSeq(arg, 3, Len(arg)))]
            ELSE ends("1")
       [] argv[1] = <<"caps">> -> ends(IF arg \in load.numbers /\ (~load.admin \/ arg \notin load.pids) THEN "1" ELSE "0")
       [] argv[1] = <<"grant">> -> ends("1")
       [] OTHER -> ends("0")

\* The next command of the line.
HCommand ==
  /\ HAt("next")
  /\ \/ /\ hs.rest = <<>>
        /\ hs' = [hs EXCEPT !.pc = "prompt"]
     \/ /\ hs.rest # <<>>
        /\ LET p == hs.rest[1]
               argv == p.cmds[1].argv
               s == [hs EXCEPT !.rest = Tail(@)]
               box == HSandboxed(argv)
           IN hs' = IF p.cmds = <<>> THEN s
                    ELSE IF HIsBuiltin(p) /\ argv[1] = <<"sandbox">> THEN
                      IF box = 0 THEN [s EXCEPT !.last = "1"]
                      ELSE [s EXCEPT !.pc = "spawn", !.cmds = <<[HNoCmd EXCEPT !.argv = SubSeq(argv, box, Len(argv))]>>]
                    ELSE IF HIsBuiltin(p) THEN try_builtin(s, argv)
                    ELSE [s EXCEPT !.pc = "pipe", !.cmds = p.cmds, !.bg = p.bg, !.pipes = <<>>, !.kids = <<>>]
  /\ UNCHANGED <<hk, he>>

\* The pipes, one fewer than the stages; if one cannot be had those before it
\* are closed.
HPipe ==
  /\ HAt("pipe")
  /\ \/ /\ Len(hs.pipes) = Len(hs.cmds) - 1
        /\ hs' = [hs EXCEPT !.pc = "fork"]
     \/ /\ Len(hs.pipes) < Len(hs.cmds) - 1
        /\ hs' = [hs EXCEPT !.pipes = Append(@, hs.made + 1), !.made = @ + 1, !.fds = @ \cup HEnds({hs.made + 1})]
     \/ /\ Len(hs.pipes) < Len(hs.cmds) - 1 /\ hs.fails > 0
        /\ hs' = [hs EXCEPT !.fails = @ - 1, !.pc = "next", !.last = IF hs.bg THEN @ ELSE "1",
                            !.fds = @ \ HEnds(ToSet(hs.pipes))]
  /\ UNCHANGED <<hk, he>>

HKid(s, i) ==
  [st |-> "born", cmd |-> s.cmds[i], i |-> i, pipes |-> s.pipes, bg |-> s.bg, fds |-> s.fds,
   from |-> {}, to |-> {}, status |-> "none"]

\* A stage is forked.  When fork fails only the pipes from that stage on are
\* closed, and the stages before it are waited for; the ghost torn has the ends
\* of the other pipes.
HFork ==
  /\ HAt("fork")
  /\ LET i == Len(hs.kids) + 1
     IN \/ /\ i <= Len(hs.cmds)
           /\ hk' = Append(hk, HKid(hs, i))
           /\ hs' = [hs EXCEPT !.kids = Append(@, Len(hk) + 1)]
        \/ /\ i <= Len(hs.cmds) /\ hs.fails > 0
           /\ hs' = [hs EXCEPT !.fails = @ - 1, !.torn = @ \cup HEnds({hs.pipes[j] : j \in 1..(i - 1)}),
                               !.fds = @ \ HEnds({hs.pipes[j] : j \in i..Len(hs.pipes)}),
                               !.last = IF hs.bg THEN @ ELSE "1", !.pc = IF hs.bg THEN "next" ELSE "drain"]
           /\ UNCHANGED hk
        \/ /\ i > Len(hs.cmds)
           /\ hs' = [hs EXCEPT !.fds = @ \ HEnds(ToSet(hs.pipes)),
                               !.fg = IF hs.bg \/ ~load.admin THEN 0 ELSE hs.kids[Len(hs.kids)],
                               !.pc = IF hs.bg THEN "next" ELSE "wait"]
           /\ UNCHANGED hk
  /\ UNCHANGED he

\* sys_spawn of a sandboxed command, with no file open, which is then waited
\* for.
HSpawn ==
  /\ HAt("spawn")
  /\ \/ /\ hs.cmds[1].argv[1] \in load.bins
        /\ hk' = Append(hk, [HKid([hs EXCEPT !.pipes = <<>>, !.bg = FALSE], 1) EXCEPT !.fds = {}])
        /\ hs' = [hs EXCEPT !.pc = "wait", !.kids = <<Len(hk) + 1>>]
     \/ /\ hs.cmds[1].argv[1] \notin load.bins
        /\ hs' = [hs EXCEPT !.pc = "next", !.last = "1"]
        /\ UNCHANGED hk
  /\ UNCHANGED he

\* The children are waited for in order; the last one's status counts, except
\* after a failed fork.
HWait ==
  /\ hs.pc \in {"wait", "drain"} /\ load.part = "shell"
  /\ \/ /\ hs.kids # <<>> /\ hk[hs.kids[1]].st = "zombie"
        /\ hk' = [hk EXCEPT ![hs.kids[1]].st = "gone"]
        /\ hs' = [hs EXCEPT !.kids = Tail(@), !.last = IF hs.pc = "wait" THEN hk[hs.kids[1]].status ELSE @]
     \/ /\ hs.kids = <<>>
        /\ hs' = [hs EXCEPT !.pc = "next", !.fg = 0]
        /\ UNCHANGED hk
  /\ UNCHANGED he

(***************************** editor, history *****************************)

HEditAt == load.part = "edit" /\ he.raw
HText(b) == HCut(b, HBuf)
HNewest(e, k) == e.ring[((e.head + HHist - k) % HHist) + 1]

\* A line entered: nothing is added if it repeats the one before.
hist_add(e, line) ==
  IF line = <<>> \/ (e.count > 0 /\ HNewest(e, 1) = line) THEN e
  ELSE [e EXCEPT !.ring[e.head + 1] = line, !.head = (@ + 1) % HHist,
                 !.count = IF @ < HHist THEN @ + 1 ELSE @, !.cursor = 0, !.all = Append(@, line)]

hist_prev(e) ==
  IF e.cursor >= e.count THEN e
  ELSE LET h == HNewest(e, e.cursor + 1)
       IN [e EXCEPT !.cursor = @ + 1, !.buf = HText(h), !.pos = Len(HText(h))]

hist_next(e) ==
  IF e.cursor <= 1 THEN [e EXCEPT !.cursor = 0, !.buf = <<>>, !.pos = 0]
  ELSE LET h == HNewest(e, e.cursor - 1)
       IN [e EXCEPT !.cursor = @ - 1, !.buf = HText(h), !.pos = Len(HText(h))]

\* hist_save writes oldest to newest, hist_init reads it back; a shell with
\* the power to delegate keeps no history on disk.
hist_save(e) ==
  LET start == IF e.count < HHist THEN 0 ELSE e.head
  IN IF load.admin THEN <<>> ELSE [i \in 1..e.count |-> e.ring[((start + i - 1) % HHist) + 1]]

hist_init(lines) ==
  LET put(e, line) == [e EXCEPT !.ring[e.head + 1] = line, !.head = (@ + 1) % HHist,
                                !.count = IF @ < HHist THEN @ + 1 ELSE @]
  IN FoldLeft(put, [ring |-> [i \in 1..HHist |-> <<>>], head |-> 0, count |-> 0], lines)

\* Text put in at the cursor, and text taken out before it.
HInsert(e, t) ==
  IF Len(e.buf) + Len(t) > HBuf THEN e
  ELSE [e EXCEPT !.buf = SubSeq(@, 1, e.pos) \o t \o SubSeq(@, e.pos + 1, Len(@)), !.pos = @ + Len(t)]
HErase(e, a, b) == [e EXCEPT !.buf = SubSeq(@, 1, a) \o SubSeq(@, b + 1, Len(@)), !.pos = a]

\* Where the word before the cursor begins, with the blanks between skipped
\* if asked for.
HWordStart(buf, pos, blanks) ==
  LET last == Max({i \in 1..pos : ~blanks \/ buf[i] # "sp"} \cup {0})
  IN Max({i \in 1..last : buf[i] = "sp"} \cup {0})

\* The names that begin with the word; the first word of a line is a command,
\* any other is looked up in the directory it names, or in the current one.
HCandidates(e) ==
  LET start == HWordStart(e.buf, e.pos, FALSE)
      word == SubSeq(e.buf, start + 1, e.pos)
      first == \A i \in 1..e.pos : e.buf[i] # "sp"
      cut == Max({i \in DOMAIN word : word[i] = "/" /\ ~first} \cup {0})
      dir == SubSeq(word, 1, cut)
      base == SubSeq(word, cut + 1, Len(word))
      all == IF first THEN load.commands ELSE IF dir \in DOMAIN load.names THEN load.names[dir] ELSE <<>>
  IN [base |-> base, dir |-> dir, names |-> HCut(SelectSeq(all, LAMBDA n : HCut(n, Len(base)) = base), HCands)]

longest_common_prefix(names) ==
  Max({k \in 0..Len(names[1]) : \A i \in DOMAIN names : HCut(names[i], k) = HCut(names[1], k)})

\* A single name is completed and closed, with "/" if it is a directory: a
\* name without a slash before it is never found to be one.
complete(e) ==
  LET c == HCandidates(e)
      w == Len(c.base)
      n == c.names[1]
      close == IF c.dir # <<>> /\ c.dir \o n \in load.folders THEN "/" ELSE "sp"
  IN CASE c.names = <<>> -> e
       [] Len(c.names) = 1 -> HInsert(e, Append(SubSeq(n, w + 1, Len(n)), close))
       [] OTHER -> HInsert(e, SubSeq(n, w + 1, longest_common_prefix(c.names)))

HLetters == {"a", "b", "sp", "/"}

\* A key, the escape sequences included.
HEdit(e, key) ==
  CASE key \in HLetters -> HInsert(e, <<key>>)
    [] key = "home"  -> [e EXCEPT !.pos = 0]
    [] key = "end"   -> [e EXCEPT !.pos = Len(e.buf)]
    [] key = "left"  -> [e EXCEPT !.pos = IF @ > 0 THEN @ - 1 ELSE @]
    [] key = "right" -> [e EXCEPT !.pos = IF @ < Len(e.buf) THEN @ + 1 ELSE @]
    [] key = "bs"    -> IF e.pos > 0 THEN HErase(e, e.pos - 1, e.pos) ELSE e
    [] key = "del"   -> IF e.pos < Len(e.buf) THEN HErase(e, e.pos, e.pos + 1) ELSE e
    [] key = "^K"    -> [e EXCEPT !.buf = SubSeq(@, 1, e.pos)]
    [] key = "^U"    -> HErase(e, 0, e.pos)
    [] key = "^W"    -> HErase(e, HWordStart(e.buf, e.pos, TRUE), e.pos)
    [] key = "up"    -> hist_prev(e)
    [] key = "down"  -> hist_next(e)
    [] OTHER         -> complete(e)

\* editor_readline takes a key.
HKey(key) ==
  /\ HEditAt /\ he.left > 0
  /\ he' = HEdit([he EXCEPT !.left = @ - 1], key)
  /\ UNCHANGED <<hs, hk>>

\* Enter gives the line to the shell, which adds it to the history unless it
\* is blank; Ctrl-C drops it and leaves the place in the history as it is.
HEnter ==
  /\ HEditAt /\ he.left > 0
  /\ LET e == [he EXCEPT !.raw = FALSE, !.cursor = 0, !.left = @ - 1]
     IN he' = IF \A i \in DOMAIN he.buf : he.buf[i] = "sp" THEN e ELSE hist_add(e, he.buf)
  /\ UNCHANGED <<hs, hk>>

HCancel ==
  /\ HEditAt /\ he.left > 0
  /\ he' = [he EXCEPT !.raw = FALSE, !.left = @ - 1]
  /\ UNCHANGED <<hs, hk>>

\* The next prompt: raw mode, an empty line.
HPrompt ==
  /\ load.part = "edit" /\ ~he.raw /\ ~he.eof
  /\ he' = [he EXCEPT !.raw = TRUE, !.buf = <<>>, !.pos = 0]
  /\ UNCHANGED <<hs, hk>>

\* Ctrl-D on an empty line, or the end of the input: the history is saved.
HEof ==
  /\ HEditAt /\ (he.buf = <<>> \/ load.hangup)
  /\ he' = [he EXCEPT !.raw = FALSE, !.eof = TRUE, !.saved = hist_save(he)]
  /\ UNCHANGED <<hs, hk>>

ShellInit ==
  /\ hs = [pc |-> IF load.part = "shell" THEN "prompt" ELSE "exit", todo |-> IF load.part = "shell" THEN load.lines ELSE <<>>,
           rest |-> <<>>, cmds |-> <<>>, bg |-> FALSE, pipes |-> <<>>, made |-> 0, fds |-> {}, kids |-> <<>>, fg |-> 0,
           last |-> "0", env |-> <<>>, torn |-> {}, fails |-> IF load.part = "shell" THEN load.fails ELSE 0,
           quits |-> IF load.part = "shell" THEN load.quits ELSE 0]
  /\ hk = <<>>
  /\ he = [raw |-> FALSE, eof |-> load.part # "edit", buf |-> <<>>, pos |-> 0, ring |-> [i \in 1..HHist |-> <<>>],
           head |-> 0, count |-> 0, cursor |-> 0, all |-> <<>>, saved |-> <<>>,
           left |-> IF load.part = "edit" THEN load.typed ELSE 0]

ShellNext ==
  \/ HReadLine \/ HCommand \/ HPipe \/ HFork \/ HSpawn \/ HWait \/ HInterrupt
  \/ \E k \in DOMAIN hk : HChild(k)
  \/ \E k \in DOMAIN hk : HChildBg(k)
  \/ \E k \in DOMAIN hk : HFinish(k)
  \/ \E k \in DOMAIN hk : HQuit(k)
  \/ (load.part = "edit" /\ \E key \in load.keys : HKey(key))
  \/ HEnter \/ HCancel \/ HPrompt \/ HEof

\* What the shell and its children do of themselves.
ShellStep ==
  \/ HCommand \/ HPipe \/ HFork \/ HSpawn \/ HWait
  \/ \E k \in DOMAIN hk : HChild(k) \/ HChildBg(k) \/ HFinish(k)

(***************************** what must hold ******************************)

\* Between commands nobody is in the foreground, no child of a foreground
\* pipeline is left, live or zombie, and the shell holds no pipe end but those
\* that a failed fork made it forget, the ends of the pipes before the stage
\* that was not forked, which stay open for good (exec.c:65-76, 138-167).
\* Children of a background pipeline are nobody's: the shell never waits for
\* them (exec.c:181-241).
HNothingLeft ==
  hs.pc \in {"prompt", "next"} =>
    /\ hs.fg = 0
    /\ hs.fds = hs.torn
    /\ \A k \in DOMAIN hk : hk[k].st = "gone" \/ hk[k].bg

\* Every stage reads the pipe the stage before it writes, and holds no other
\* end of its pipeline, so that the end of the input can come
\* (exec.c:81-123, 210-229).
HWired ==
  \A k \in DOMAIN hk : hk[k].st = "run" =>
    LET p == hk[k].pipes
        i == hk[k].i
    IN /\ hk[k].fds \cap HEnds(ToSet(p)) = hk[k].from \cup hk[k].to
       /\ hk[k].from \subseteq (IF i > 1 THEN {[pipe |-> p[i - 1], end |-> "r"]} ELSE {})
       /\ hk[k].to \subseteq (IF i <= Len(p) THEN {[pipe |-> p[i], end |-> "w"]} ELSE {})

\* A line whose operators stand between blanks means what it says: the stages
\* are the pieces between the bars, and in each of them the words that do not
\* follow an operator are the arguments (parser.c:9-120).
HSpaced(u) ==
  /\ \A i \in DOMAIN u : u[i] \in {"|", ">", "<"} => /\ i > 1 /\ u[i - 1] = "sp"
                                                     /\ i + 1 < Len(u) /\ u[i + 1] = "sp" /\ u[i + 2] = "a"
  /\ \A i \in DOMAIN u : u[i] \in {"2>&1", "&"} => i > 1 /\ u[i - 1] = "sp"
  /\ \A i \in 1..(Len(u) - 1) : u[i + 1] = "sp" \/ u[i] \in {"sp"}
  /\ \A i \in DOMAIN u : u[i] = "&" => i = Len(u)

HPlainWords(u) == {i \in DOMAIN u : u[i] = "a" /\ (i < 3 \/ u[i - 2] \notin {">", "<"})}
HParsesAs(u, p) ==
  LET segs == HSplit(u, "|")
      full == {i \in DOMAIN segs : HPlainWords(segs[i]) # {}}
  IN /\ p.bg = (u # <<>> /\ u[Len(u)] = "&")
     /\ Len(p.cmds) = IF Cardinality(full) < HStages THEN Cardinality(full) ELSE HStages
     /\ \A k \in DOMAIN p.cmds :
          LET seg == segs[CHOOSE i \in full : Cardinality({j \in full : j <= i}) = k]
              words == Cardinality(HPlainWords(seg))
          IN /\ Len(p.cmds[k].argv) = IF words < HArgs THEN words ELSE HArgs
             /\ \A i \in DOMAIN p.cmds[k].argv : p.cmds[k].argv[i] = <<"a">>
             /\ words <= HArgs => /\ p.cmds[k].from = (\E i \in DOMAIN seg : seg[i] = "<")
                                  /\ p.cmds[k].to = (\E i \in DOMAIN seg : seg[i] = ">")
                                  /\ p.cmds[k].err = (\E i \in DOMAIN seg : seg[i] = "2>&1")
HParses == load.part = "parse" => (HSpaced(load.line) => HParsesAs(load.line, parse_pipeline_bg(load.line)))

\* The history is the last lines entered, without immediate repetitions, the
\* k-th line up is the k-th newest, and a saved history reads back as it was
\* (history.c:22-133).
HHistorySound ==
  /\ he.cursor <= he.count /\ he.count = IF Len(he.all) < HHist THEN Len(he.all) ELSE HHist
  /\ \A k \in 1..he.count : HNewest(he, k) = he.all[Len(he.all) - k + 1]
  /\ he.eof /\ ~load.admin =>
               LET e == hist_init(he.saved)
               IN e.count = he.count /\ \A k \in 1..he.count : HNewest(e, k) = HNewest(he, k)

\* The cursor stays in the line and the line in its buffer, and a completion
\* only inserts at the cursor, making the word there the beginning of a name
\* (editor.c:55-236, complete.c:84-232).
HLineSound ==
  /\ he.pos <= Len(he.buf) /\ Len(he.buf) <= HBuf
  /\ load.part = "edit" =>
       LET c == complete(he)
           typed == SubSeq(c.buf, 1, c.pos)
           cand == HCandidates(he)
           names == {cand.dir \o n : n \in ToSet(cand.names)}
           new == SubSeq(c.buf, he.pos - Len(cand.dir \o cand.base) + 1, c.pos)
       IN /\ HCut(typed, he.pos) = HCut(he.buf, he.pos)
          /\ SubSeq(c.buf, c.pos + 1, Len(c.buf)) = SubSeq(he.buf, he.pos + 1, Len(he.buf))
          /\ c # he => \/ \A n \in names : new = HCut(n, Len(new))
                       \/ \E n \in names : names = {n} /\ new \in {Append(n, "sp"), Append(n, "/")}

ShellIntact ==
  /\ load.part = "shell" => HNothingLeft /\ HWired
  /\ HParses
  /\ load.part = "edit" => HHistorySound /\ HLineSound

\* A command line being run; after a fork that failed in the middle of a
\* pipeline it may wait for ever.
HDue == load.part = "shell" /\ hs.pc \notin {"prompt", "exit"} /\ hs.torn = {}
=============================================================================
