------------------------------ MODULE Session ------------------------------
(***************************************************************************)
(* Logging in: user/bin/login on the console, the greeter and session loop *)
(* of user/bin/bastion, and the lookups of user/lib/libauth they share.    *)
(*                                                                         *)
(* Keys come one at a time from whoever types, and a read may also fail    *)
(* (an interrupted read, the end of the input).  Names and passwords are   *)
(* short sequences of letters; a hash is known by its password.            *)
(*                                                                         *)
(* bastion's lock screen is entered only when waitpid fails with EINTR,    *)
(* which sys_waitpid never does: a SIGUSR1 from Lumen stays pending until  *)
(* Lumen has exited.                                                       *)
(***************************************************************************)
EXTENDS Workload, Naturals, Sequences

CONSTANTS SName,       \* sizeof(username) - 1, and the greeter's field
          SPass,       \* sizeof(password) - 1, and the greeter's field
          SAttempts,   \* MAX_ATTEMPTS
          STries       \* autologin tries

VARIABLES sl,   \* login
          sb    \* bastion and the Lumen it waits for

svars == <<sl, sb>>

SLoginAt(p) == load.part = "login" /\ sl.pc = p
SBastionAt(p) == load.part = "bastion" /\ sb.pc = p
SNobody == [name |-> <<>>, uid |-> "none", shell |-> "none"]
SLetters == load.keys \ {"nl", "bs", "tab"}

\* The string a buffer holds: what comes before its first NUL.
SString(mem) ==
  LET ends == {i \in DOMAIN mem : mem[i] = "nul"}
  IN IF ends = {} THEN mem ELSE SubSeq(mem, 1, (CHOOSE i \in ends : \A j \in ends : i <= j) - 1)

(******************************** libauth **********************************)

\* The first line of each file that has the name.
auth_lookup(file, name) ==
  LET at == {i \in DOMAIN file : file[i].name = name}
  IN IF at = {} THEN 0 ELSE CHOOSE i \in at : \A j \in at : i <= j

auth_check(name, pass) ==
  LET p == auth_lookup(load.passwd, name)
      s == auth_lookup(load.shadow, name)
  IN p # 0 /\ s # 0 /\ load.shadow[s].pass = pass

SAccount(name) == load.passwd[auth_lookup(load.passwd, name)]

(********************************* login ***********************************)

\* A prompt; the buffer keeps what was in it.  got and cut are ghosts: the
\* letters typed for this name, and whether a read failed before its newline.
SPrompt ==
  /\ SLoginAt("prompt")
  /\ sl' = IF sl.attempt >= SAttempts THEN [sl EXCEPT !.pc = "exit"]
           ELSE [sl EXCEPT !.pc = "name", !.n = 0, !.got = <<>>, !.cut = FALSE]
  /\ UNCHANGED sb

\* The name is complete: an empty one does not count as an attempt; else the
\* echo is turned off.
SNamed(s) ==
  IF SString(s.mem) = <<>> THEN [s EXCEPT !.pc = "prompt"]
  ELSE [s EXCEPT !.pc = "pass", !.pass = <<>>, !.echo = FALSE]

\* readline: a letter is stored; the newline or a full buffer puts the NUL.
\* The terminal has done the editing of the line.
SReadName(key) ==
  /\ SLoginAt("name") /\ sl.left > 0 /\ key # "bs"
  /\ LET s == [sl EXCEPT !.left = @ - 1]
         t == [s EXCEPT !.mem[sl.n + 1] = key, !.n = @ + 1, !.got = Append(@, key)]
     IN sl' = IF key = "nl" THEN SNamed([s EXCEPT !.mem[s.n + 1] = "nul"])
              ELSE IF t.n = SName THEN SNamed([t EXCEPT !.mem[t.n + 1] = "nul"])
              ELSE t
  /\ UNCHANGED sb

\* The read fails: with nothing read the attempt is over; else the buffer is
\* used without a NUL of its own.
SCutName ==
  /\ SLoginAt("name") /\ sl.cuts > 0
  /\ LET s == [sl EXCEPT !.cuts = @ - 1, !.cut = TRUE]
     IN sl' = IF sl.n = 0 THEN [s EXCEPT !.pc = "prompt", !.attempt = @ + 1] ELSE SNamed(s)
  /\ UNCHANGED sb

\* A key of the password, with backspace; a failed read ends it too.
SReadPass(key) ==
  /\ SLoginAt("pass") /\ sl.left > 0
  /\ LET s == [sl EXCEPT !.left = @ - 1]
     IN sl' = CASE key = "nl" -> [s EXCEPT !.pc = "check", !.echo = TRUE]
                [] key = "bs" -> [s EXCEPT !.pass = SubSeq(@, 1, Len(@) - 1)]
                [] OTHER -> [s EXCEPT !.pass = Append(@, key),
                                      !.pc = IF Len(sl.pass) + 1 = SPass THEN "check" ELSE @,
                                      !.echo = Len(sl.pass) + 1 = SPass]
  /\ UNCHANGED sb

SCutPass ==
  /\ SLoginAt("pass") /\ sl.cuts > 0
  /\ sl' = [sl EXCEPT !.cuts = @ - 1, !.pc = "check", !.echo = TRUE]
  /\ UNCHANGED sb

\* The session is elevated, then the identity set, then the shell started, or
\* else /bin/sh.
SCheck ==
  /\ SLoginAt("check")
  /\ LET name == SString(sl.mem)
         who == SAccount(name)
         shell == IF who.shell \in load.shells THEN who.shell ELSE "sh"
     IN sl' = IF ~auth_check(name, sl.pass) THEN [sl EXCEPT !.pc = "prompt", !.attempt = @ + 1]
              ELSE [sl EXCEPT !.uid = who.uid, !.shell = shell, !.elevated = TRUE,
                              !.pc = IF shell \in load.shells THEN "shell" ELSE "exit"]
  /\ UNCHANGED sb

(******************************** bastion **********************************)

SEmptyForm(b) == [b EXCEPT !.pc = "greeter", !.user = <<>>, !.pass = <<>>, !.focus = 0, !.locked = FALSE]

\* spawn_lumen: the child has bastion's identity of this moment.
SSpawn(b, ok) ==
  IF ok THEN [b EXCEPT !.pc = "session", !.lumen = "live", !.as = b.uid, !.frozen = FALSE] ELSE b

\* do_auth in the greeter.
do_auth(b) ==
  [b EXCEPT !.username = b.user, !.uid = SAccount(b.user).uid, !.elevated = TRUE]

\* bastion_autologin: the form is filled in, and up to STries tries are made;
\* the files may not be readable at the first.
SAutologin ==
  /\ SBastionAt("auto")
  /\ \E ok \in BOOLEAN, readable \in BOOLEAN :
       LET b == [sb EXCEPT !.user = load.auto, !.pass = load.autopass, !.focus = 2, !.tries = @ + 1]
       IN sb' = IF readable /\ auth_check(b.user, b.pass) THEN
                  IF ok THEN SSpawn(do_auth(b), TRUE) ELSE SEmptyForm(do_auth(b))
                ELSE IF b.tries < STries THEN b ELSE SEmptyForm(b)
  /\ UNCHANGED sl

\* handle_key, in the greeter.
handle_key(b, key) ==
  CASE key = "tab" -> [b EXCEPT !.focus = (@ + 1) % 3]
    [] key = "bs" /\ b.focus = 0 /\ b.user # <<>> -> [b EXCEPT !.user = SubSeq(@, 1, Len(@) - 1)]
    [] key = "bs" /\ b.focus = 1 /\ b.pass # <<>> -> [b EXCEPT !.pass = SubSeq(@, 1, Len(@) - 1)]
    [] key \in SLetters /\ b.focus = 0 /\ Len(b.user) < SName -> [b EXCEPT !.user = Append(@, key)]
    [] key \in SLetters /\ b.focus = 1 /\ Len(b.pass) < SPass -> [b EXCEPT !.pass = Append(@, key)]
    [] OTHER -> b

SGreetKey(key) ==
  /\ SBastionAt("greeter") /\ sb.left > 0 /\ key # "nl"
  /\ sb' = handle_key([sb EXCEPT !.left = @ - 1], key)
  /\ UNCHANGED sl

\* The newline submits the form; a session that cannot be forked leaves it as
\* it is, a refusal clears the password.
SSubmit ==
  /\ SBastionAt("greeter") /\ sb.left > 0
  /\ \E ok \in BOOLEAN :
       LET b == [sb EXCEPT !.left = @ - 1]
       IN sb' = IF auth_check(b.user, b.pass) THEN SSpawn(do_auth(b), ok) ELSE [b EXCEPT !.pass = <<>>]
  /\ UNCHANGED sl

\* Lumen's lock: its own keys are discarded from now on, and its parent is
\* told.  The handler runs when waitpid is over.
SLock ==
  /\ SBastionAt("session") /\ sb.lumen = "live" /\ ~sb.frozen
  /\ sb' = [sb EXCEPT !.frozen = TRUE, !.pend = TRUE]
  /\ UNCHANGED sl

\* Lumen exits, by its menu or by failing.
SLumenExit ==
  /\ SBastionAt("session") /\ sb.lumen = "live"
  /\ sb' = [sb EXCEPT !.lumen = "zombie"]
  /\ UNCHANGED sl

\* waitpid reaps it; sigusr1_handler runs on the way out; a new greeter.
SReaped ==
  /\ SBastionAt("session") /\ sb.lumen = "zombie"
  /\ sb' = SEmptyForm([sb EXCEPT !.lumen = "none", !.as = "none", !.frozen = FALSE,
                                 !.locked = sb.pend, !.pend = FALSE])
  /\ UNCHANGED sl

\* login's name buffer is not initialized.
SessionInit ==
  /\ \E junk \in (IF load.part = "login" THEN load.junk ELSE {"nul"}) :
     sl = [pc |-> IF load.part = "login" THEN "prompt" ELSE "exit", attempt |-> 0, n |-> 0,
           mem |-> [i \in 1..(SName + 1) |-> junk], pass |-> <<>>, echo |-> TRUE, uid |-> "root", shell |-> "none", elevated |-> FALSE, got |-> <<>>,
           cut |-> FALSE, left |-> IF load.part = "login" THEN load.typed ELSE 0,
           cuts |-> IF load.part = "login" THEN load.cuts ELSE 0]
  /\ sb = [pc |-> IF load.part # "bastion" THEN "exit" ELSE IF load.auto = <<>> THEN "greeter" ELSE "auto",
           user |-> <<>>, pass |-> <<>>, focus |-> 0, tries |-> 0, username |-> <<>>, uid |-> "root",
           elevated |-> FALSE, lumen |-> "none", as |-> "none", frozen |-> FALSE, locked |-> FALSE, pend |-> FALSE,
           left |-> IF load.part = "bastion" THEN load.typed ELSE 0]

SessionNext ==
  \/ SPrompt \/ SCutName \/ SCutPass \/ SCheck
  \/ (load.part = "login" /\ \E key \in load.keys : SReadName(key))
  \/ (load.part = "login" /\ \E key \in load.keys : SReadPass(key))
  \/ SAutologin \/ SSubmit \/ SLock \/ SLumenExit \/ SReaped
  \/ (load.part = "bastion" /\ \E key \in load.keys : SGreetKey(key))

\* What the programs do of themselves.
SessionStep == SPrompt \/ SCheck \/ SAutologin \/ SReaped

(***************************** what must hold ******************************)

\* A shell runs for the account whose name was typed, with the password that
\* is that account's, within the attempts allowed, and with the terminal
\* echoing again; the name looked up is the line typed, except where a read
\* that failed in the middle of it left whatever was in the buffer
\* after it (login/main.c:26-39, 65-138).
SLoginSound ==
  /\ sl.pc = "shell" =>
       /\ auth_check(SString(sl.mem), sl.pass) /\ sl.uid = SAccount(SString(sl.mem)).uid
       /\ sl.elevated /\ sl.attempt < SAttempts
  /\ sl.uid # "root" \/ sl.elevated => sl.pc \in {"shell", "exit"}
  /\ sl.pc \in {"pass", "check", "shell"} => SString(sl.mem) = sl.got \/ sl.cut
  /\ sl.echo = (sl.pc # "pass")

\* The running session belongs to the user the greeter last accepted, and a
\* greeter never waits for a child nor shows a name or password of the session
\* before (bastion/main.c:401-431, 572-616, 676-684).
SBastionSound ==
  /\ sb.lumen # "none" => /\ sb.elevated /\ sb.as = SAccount(sb.username).uid /\ sb.uid = sb.as
                          /\ auth_lookup(load.shadow, sb.username) # 0
  /\ (sb.pc = "session") = (sb.lumen # "none")
  /\ sb.frozen => sb.lumen # "none" /\ sb.pend
  /\ sb.pc = "greeter" => ~sb.locked /\ ~sb.pend /\ Len(sb.user) <= SName /\ Len(sb.pass) <= SPass

SessionIntact ==
  /\ load.part = "login" => SLoginSound
  /\ load.part = "bastion" => SBastionSound

\* A check under way, an autologin, and a session that has ended.
SDue ==
  \/ load.part = "login" /\ sl.pc \in {"prompt", "check"}
  \/ load.part = "bastion" /\ (sb.pc = "auto" \/ sb.lumen = "zombie")
=============================================================================
