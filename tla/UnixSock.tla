------------------------------ MODULE UnixSock ------------------------------
(***************************************************************************)
(* AF_UNIX stream sockets (net/unix_socket.c and their system calls in     *)
(* syscall/sys_socket.c): slots, the name table, connections with a ring   *)
(* per direction, wait queues, and descriptors passed with SCM_RIGHTS.     *)
(*                                                                         *)
(* A call runs with interrupts off up to the point where it blocks, so     *)
(* that part is an action; which runnable process goes on is left open, as *)
(* SchedAbs allows.  Bytes carry the connection and direction they were    *)
(* written for and a number modulo load.mod.                               *)
(***************************************************************************)
EXTENDS Integers, FiniteSets, FiniteSetsExt

CONSTANTS
  UProc, UServer,      \* the processes, and the one that listens
  UOwner,              \* who has the passed file open at first
  UNIX_SOCK_MAX,
  UNIX_BUF_SIZE,       \* a power of two
  BACKLOG,             \* 8: entries of accept_queue
  UNIX_PASSED_FD_MAX,
  MaxFiles             \* room for the passed file in one descriptor table

Slot == 0..UNIX_SOCK_MAX - 1
NONE == -1             \* UNIX_NONE
NoProc == "nobody"
NoCall == [sock |-> NONE, n |-> 0, fd |-> FALSE]

VARIABLES
  load,      \* the workload
  sk,        \* s_unix
  uname,     \* the name table, of one path: the socket bound to it
  ublocked,  \* the processes that sched_block suspended
  upc, uarg, \* the call a process is in, and what it asked for
  ufd,       \* ufd[p][i]: descriptors of socket i in p's table
  ufile,     \* ufile[p]: descriptors of the file that is passed around
  uref,      \* the reference count of that file
  uconns,    \* ghost: connections made so far
  ustale     \* ghost: a slot was taken while an open end had it as its peer

unixVars == <<sk, uname, ublocked, upc, uarg, ufd, ufile, uref, uconns, ustale>>
ucalls == <<upc, uarg, ublocked>>
ufiles == <<ufile, uref>>
ughost == <<uconns, ustale>>

Blank ==
  [in_use |-> FALSE, state |-> "FREE", refcount |-> 0, peer |-> NONE,
   ring |-> FALSE, data |-> [k \in 0..UNIX_BUF_SIZE - 1 |-> <<>>], head |-> 0, tail |-> 0,
   queue |-> [k \in 0..BACKLOG - 1 |-> NONE], qhead |-> 0, qtail |-> 0,
   waiter |-> NoProc, pollers |-> {}, passed |-> 0,
   conn |-> 0, side |-> "c", wrote |-> 0, got |-> 0]    \* ghost

UnixInit ==
  /\ sk = [i \in Slot |-> Blank] /\ uname = NONE
  /\ ublocked = {} /\ upc = [p \in UProc |-> "user"] /\ uarg = [p \in UProc |-> NoCall]
  /\ ufd = [p \in UProc |-> [i \in Slot |-> 0]]
  /\ ufile = [p \in UProc |-> IF p = UOwner THEN 1 ELSE 0] /\ uref = 1
  /\ uconns = 0 /\ ustale = FALSE

Running(p) == p \in load.procs /\ p \notin ublocked
UCall(p, i, c) == Running(p) /\ upc[p] = "user" /\ c \in load.calls /\ ufd[p][i] > 0
UIn(p, c) == Running(p) /\ upc[p] = c

Alive(i) == i # NONE /\ sk[i].in_use
FreeSlots == {i \in Slot : ~sk[i].in_use}
Referred(i) == \E j \in Slot : sk[j].in_use /\ sk[j].peer = i
Wake(ps) == ublocked \ ps

\* A socket is in blocking or in nonblocking mode; load.nonblock says which.
UReturn(p) == upc' = [upc EXCEPT ![p] = "user"] /\ uarg' = [uarg EXCEPT ![p] = NoCall]
UBlock(p, c, a) ==
  /\ upc' = [upc EXCEPT ![p] = c] /\ uarg' = [uarg EXCEPT ![p] = a]
  /\ ublocked' = ublocked \cup {p}

-----------------------------------------------------------------------------
\* unix_sock_alloc takes the first free slot.  A process makes its next socket
\* when it has connected or closed the last.
USocket(p) ==
  /\ Running(p) /\ upc[p] = "user" /\ "socket" \in load.calls
  /\ uconns < load.conns /\ \A i \in Slot : ufd[p][i] > 0 => sk[i].state = "CONNECTED"
  /\ FreeSlots # {}
  /\ LET i == Min(FreeSlots)
     IN  /\ sk' = [sk EXCEPT ![i] = [Blank EXCEPT !.in_use = TRUE, !.state = "CREATED", !.refcount = 1]]
         /\ ufd' = [ufd EXCEPT ![p][i] = @ + 1]
         /\ ustale' = (ustale \/ Referred(i))
  /\ UNCHANGED <<uname, ucalls, ufiles, uconns>>

UBind(p, i) ==
  /\ UCall(p, i, "bind") /\ p = UServer
  /\ sk[i].state = "CREATED" /\ uname = NONE
  /\ uname' = i
  /\ sk' = [sk EXCEPT ![i].state = "BOUND"]
  /\ UNCHANGED <<ucalls, ufd, ufiles, ughost>>

UListen(p, i) ==
  /\ UCall(p, i, "bind") /\ sk[i].state = "BOUND"
  /\ sk' = [sk EXCEPT ![i].state = "LISTENING"]
  /\ UNCHANGED <<uname, ucalls, ufd, ufiles, ughost>>

\* unix_sock_connect makes the server's end, links both, gives each its ring
\* and queues the server's end.  The length of the queue is computed modulo
\* its size.
UConnect(p, i) ==
  LET l == uname
      j == Min(FreeSlots)
      c == uconns + 1
      End(who) == [who EXCEPT !.state = "CONNECTED", !.ring = TRUE, !.head = 0, !.tail = 0, !.conn = c]
  IN  /\ UCall(p, i, "connect") /\ p # UServer
      /\ sk[i].state = "CREATED" /\ uconns < load.conns
      /\ Alive(l) /\ sk[l].state = "LISTENING"
      /\ (sk[l].qhead - sk[l].qtail) % BACKLOG < BACKLOG
      /\ FreeSlots # {}
      /\ sk' = [sk EXCEPT
                  ![i] = [End(@) EXCEPT !.peer = j],
                  ![j] = [End(Blank) EXCEPT !.peer = i, !.in_use = TRUE, !.refcount = 1, !.side = "s"],
                  ![l] = [@ EXCEPT !.queue[@.qhead % BACKLOG] = j,
                                   !.qhead = (@ + 1) % (2 * BACKLOG), !.waiter = NoProc]]
      /\ ublocked' = Wake({sk[l].waiter} \cup sk[l].pollers)
      /\ uconns' = c /\ ustale' = (ustale \/ Referred(j))
      /\ UNCHANGED <<uname, upc, uarg, ufd, ufiles>>

AcceptLoop(p, l) ==
  /\ \/ /\ sk[l].qhead = sk[l].qtail /\ load.nonblock
        /\ UReturn(p) /\ UNCHANGED <<sk, ublocked, ufd>>
     \/ /\ sk[l].qhead = sk[l].qtail /\ ~load.nonblock
        /\ sk' = [sk EXCEPT ![l].waiter = p]
        /\ UBlock(p, "accept", [NoCall EXCEPT !.sock = l])
        /\ UNCHANGED ufd
     \/ /\ sk[l].qhead # sk[l].qtail
        /\ ufd' = [ufd EXCEPT ![p][sk[l].queue[sk[l].qtail % BACKLOG]] = @ + 1]
        /\ sk' = [sk EXCEPT ![l].qtail = (@ + 1) % (2 * BACKLOG)]
        /\ UReturn(p) /\ UNCHANGED ublocked
  /\ UNCHANGED <<uname, ufiles, ughost>>

UAccept(p, l) == UCall(p, l, "accept") /\ p = UServer /\ sk[l].state = "LISTENING" /\ AcceptLoop(p, l)
UAcceptRetry(p) == UIn(p, "accept") /\ AcceptLoop(p, uarg[p].sock)

-----------------------------------------------------------------------------
\* The ring of socket i, which i writes and its peer reads.  Its indices are
\* kept modulo its size, and a cell that was read is shown empty.
Used(i) == (sk[i].head - sk[i].tail) % UNIX_BUF_SIZE
Mut_Space(i) == UNIX_BUF_SIZE - Used(i)
Space(i) == UNIX_BUF_SIZE - 1 - Used(i)
Wrap(k) == k % UNIX_BUF_SIZE
Least(m, n) == IF m < n THEN m ELSE n

\* unix_sock_recv_fds, called by a recvmsg that got data and offered room for
\* descriptors: what the table has no room for is closed.
TakeFds(p, i, want) ==
  LET n == Least(sk[i].passed, MaxFiles - ufile[p])
  IN  IF want THEN /\ ufile' = [ufile EXCEPT ![p] = @ + n]
                   /\ uref' = uref - (sk[i].passed - n)
              ELSE UNCHANGED ufiles

Drained(q, k) ==
  [x \in 0..UNIX_BUF_SIZE - 1 |-> IF (x - sk[q].tail) % UNIX_BUF_SIZE < k THEN <<>> ELSE sk[q].data[x]]

\* unix_sock_read: the peer's ring is read even when the peer is gone.
ReadLoop(p, a) ==
  LET i == a.sock
      q == sk[i].peer
      k == Least(a.n, Used(q))
  IN  /\ UNCHANGED <<uname, ufd, ughost>>
      /\ \/ /\ ~sk[q].ring \/ (Used(q) = 0 /\ (~sk[q].in_use \/ load.nonblock))
            /\ UReturn(p) /\ UNCHANGED <<sk, ublocked, ufiles>>
         \/ /\ sk[q].ring /\ Used(q) = 0 /\ sk[q].in_use /\ ~load.nonblock
            /\ sk' = [sk EXCEPT ![i].waiter = p]
            /\ UBlock(p, "read", a) /\ UNCHANGED ufiles
         \/ /\ sk[q].ring /\ Used(q) > 0
            /\ TakeFds(p, i, a.fd)
            /\ sk' = [sk EXCEPT ![q].tail = Wrap(@ + k), ![q].data = Drained(q, k), ![q].waiter = NoProc,
                                ![i].got = (@ + k) % load.mod, ![i].passed = IF a.fd THEN 0 ELSE @]
            /\ ublocked' = Wake({sk[q].waiter})
            /\ UReturn(p)

URead(p, i, n, fd) ==
  UCall(p, i, IF fd THEN "pass" ELSE "read") /\ sk[i].state = "CONNECTED"
    /\ ReadLoop(p, [sock |-> i, n |-> n, fd |-> fd])
UReadRetry(p) == UIn(p, "read") /\ ReadLoop(p, uarg[p])

\* unix_sock_write stores what fits, wakes the peer, and blocks for the rest
\* (a nonblocking write returns what it stored).  Nothing in its loop looks
\* whether the peer is still open.
\* sendmsg then duplicates the file and stages it at the peer, ignoring the
\* failure of unix_sock_stage_fds.
Stored(i, k) ==
  [x \in 0..UNIX_BUF_SIZE - 1 |->
     LET d == (x - sk[i].head) % UNIX_BUF_SIZE
     IN  IF d < k THEN <<sk[i].conn, sk[i].side, (sk[i].wrote + d) % load.mod>> ELSE sk[i].data[x]]

Staged(i) == Alive(sk[i].peer) /\ sk[sk[i].peer].passed < UNIX_PASSED_FD_MAX

WriteLoop(p, a) ==
  LET i == a.sock
      q == sk[i].peer
      k == Least(a.n, Space(i))
      done == k = a.n \/ load.nonblock
      mine == [sk[i] EXCEPT !.data = Stored(i, k), !.head = Wrap(@ + k), !.wrote = (@ + k) % load.mod,
                            !.waiter = IF done THEN @ ELSE p]
      told == k > 0 /\ Alive(q)
  IN  /\ sk' = [sk EXCEPT ![i] = mine,
                          ![q].waiter = IF told THEN NoProc ELSE @,
                          ![q].passed = IF done /\ a.fd /\ Staged(i) THEN @ + 1 ELSE @]
      /\ LET woken == IF told THEN Wake({sk[q].waiter} \cup sk[q].pollers) ELSE ublocked
         IN  IF done THEN UReturn(p) /\ ublocked' = woken
                     ELSE /\ upc' = [upc EXCEPT ![p] = "write"]
                          /\ uarg' = [uarg EXCEPT ![p] = [a EXCEPT !.n = @ - k]]
                          /\ ublocked' = woken \cup {p}
      /\ uref' = IF done /\ a.fd THEN uref + 1 ELSE uref
      /\ UNCHANGED <<uname, ufd, ufile, ughost>>

UWrite(p, i, n, fd) ==
  /\ UCall(p, i, IF fd THEN "pass" ELSE "write") /\ sk[i].state = "CONNECTED"
  /\ p \in load.writers
  /\ fd => n = 1 /\ ~load.nonblock /\ ufile[p] > 0 /\ uref <= MaxFiles
  /\ WriteLoop(p, [sock |-> i, n |-> n, fd |-> fd])
UWriteRetry(p) == UIn(p, "write") /\ WriteLoop(p, uarg[p])

-----------------------------------------------------------------------------
\* unix_vfs_poll for POLLIN, POLLHUP being reported always.
Readable(i) ==
  IF sk[i].state = "LISTENING" THEN sk[i].qhead # sk[i].qtail
  ELSE LET q == sk[i].peer IN ~Alive(q) \/ sk[q].head # sk[q].tail

PollLoop(p, i) ==
  /\ IF Readable(i)
       THEN /\ UReturn(p) /\ UNCHANGED ublocked
            /\ sk' = [sk EXCEPT ![i].pollers = @ \ {p}]
       ELSE /\ UBlock(p, "poll", [NoCall EXCEPT !.sock = i])
            /\ sk' = [sk EXCEPT ![i].pollers = @ \cup {p}]
  /\ UNCHANGED <<uname, ufd, ufiles, ughost>>

UPoll(p, i) == UCall(p, i, "poll") /\ sk[i].state \in {"LISTENING", "CONNECTED"} /\ PollLoop(p, i)
UPollRetry(p) == UIn(p, "poll") /\ PollLoop(p, uarg[p].sock)

\* fork and dup of a socket's descriptor.
UDup(p, r, i) ==
  /\ UCall(p, i, "dup") /\ sk[i].state = "CONNECTED" /\ r \in load.procs /\ ufd[r][i] = 0
  /\ ufd' = [ufd EXCEPT ![r][i] = @ + 1]
  /\ sk' = [sk EXCEPT ![i].refcount = @ + 1]
  /\ UNCHANGED <<uname, ucalls, ufiles, ughost>>

\* unix_sock_free: on the last reference the peer is woken, descriptors nobody
\* received are closed, the ring stays while the peer's slot is in use and
\* otherwise both rings go, and the name is given back.  A free slot without a
\* ring is shown blank, as unix_sock_alloc will make it.
UFreed(i) ==
  LET q == sk[i].peer
      keep == sk[i].ring /\ Alive(q)
  IN  [j \in Slot |->
         CASE j = i -> IF keep THEN [sk[i] EXCEPT !.refcount = 0, !.in_use = FALSE] ELSE Blank
           [] j # i /\ j = q -> IF Alive(q) THEN [sk[q] EXCEPT !.waiter = NoProc] ELSE Blank
           [] OTHER -> sk[j]]

UClose(p, i) ==
  LET q == sk[i].peer
  IN  /\ UCall(p, i, "close")
      /\ ufd' = [ufd EXCEPT ![p][i] = @ - 1]
      /\ IF sk[i].refcount > 1
           THEN /\ sk' = [sk EXCEPT ![i].refcount = @ - 1]
                /\ UNCHANGED <<ublocked, uref, uname>>
           ELSE /\ ublocked' = IF Alive(q) THEN Wake({sk[q].waiter} \cup sk[q].pollers) ELSE ublocked
                /\ uref' = uref - sk[i].passed
                /\ uname' = IF uname = i THEN NONE ELSE uname
                /\ sk' = UFreed(i)
      /\ UNCHANGED <<upc, uarg, ufile, ughost>>

UCloseFile(p) ==
  /\ Running(p) /\ upc[p] = "user" /\ "pass" \in load.calls /\ ufile[p] > 0
  /\ ufile' = [ufile EXCEPT ![p] = @ - 1] /\ uref' = uref - 1
  /\ UNCHANGED <<sk, uname, ucalls, ufd, ughost>>

\* A signal ends the wait of sched_block; the loops look again.
USignal(p) ==
  /\ p \in ublocked /\ "signal" \in load.calls
  /\ ublocked' = ublocked \ {p}
  /\ UNCHANGED <<sk, uname, upc, uarg, ufd, ufiles, ughost>>

UnixKernel(p) == UAcceptRetry(p) \/ UReadRetry(p) \/ UWriteRetry(p) \/ UPollRetry(p)
UnixStep(p) == load.part = "unix" /\ UnixKernel(p) /\ UNCHANGED load
UnixNext ==
  /\ load.part = "unix" /\ UNCHANGED load
  /\ \E p \in UProc :
       \/ USocket(p) \/ UCloseFile(p) \/ USignal(p) \/ UnixKernel(p)
       \/ \E i \in Slot : \/ UBind(p, i) \/ UListen(p, i) \/ UConnect(p, i) \/ UAccept(p, i)
                          \/ UPoll(p, i) \/ UClose(p, i)
                          \/ \E r \in UProc : UDup(p, r, i)
                          \/ \E n \in 1..2, fd \in BOOLEAN : URead(p, i, n, fd) \/ UWrite(p, i, n, fd)

\* A process that is no longer blocked goes on with its call.
UnixFairness == \A p \in UProc : WF_unixVars(UnixStep(p))
-----------------------------------------------------------------------------
UnixTypeOK ==
  /\ ublocked \subseteq UProc /\ uname \in Slot \cup {NONE}
  /\ upc \in [UProc -> {"user", "accept", "read", "write", "poll"}]
  /\ \A p \in UProc : uarg[p].sock \in Slot \cup {NONE} /\ (p \in ublocked => upc[p] # "user")
  /\ ufd \in [UProc -> [Slot -> 0..2]] /\ ufile \in [UProc -> 0..MaxFiles] /\ uref \in Nat
  /\ \A i \in Slot : /\ sk[i].state \in {"FREE", "CREATED", "BOUND", "LISTENING", "CONNECTED"}
                     /\ sk[i].head \in 0..UNIX_BUF_SIZE - 1 /\ sk[i].tail \in 0..UNIX_BUF_SIZE - 1
                     /\ sk[i].passed \in 0..UNIX_PASSED_FD_MAX

\* What a connected end will read is what the other end of the same connection
\* wrote and it has not read yet, in order, also after that end was closed (as
\* long as no slot is taken while an open end has it as its peer).
UnixStreamIntact ==
  /\ UnixTypeOK
  /\ ~ustale => \A i \in Slot : sk[i].in_use /\ sk[i].state = "CONNECTED" =>
       LET q == sk[i].peer
       IN  /\ sk[q].ring
           /\ \A d \in 0..Used(q) - 1 :
                sk[q].data[(sk[q].tail + d) % UNIX_BUF_SIZE]
                  = <<sk[i].conn, IF sk[i].side = "c" THEN "s" ELSE "c", (sk[i].got + d) % load.mod>>

\* No wakeup is lost: a process is blocked only while what it waits for has not
\* happened (no connection to accept, no byte to read and the peer open, the
\* ring full), and the one that makes it happen will find it: it is the waiter
\* of its socket or in the queue of its pollers.  A writer may be blocked on a
\* full ring after the peer has closed, which nobody will ever drain: only a
\* reader learns of a close.  Stated as long as no slot is taken while an open
\* end has it as its peer, and when one process waits for a socket.
UnixNobodyForgotten ==
  ~ustale => \A p \in ublocked :
    LET i == uarg[p].sock
        q == sk[i].peer
    IN  CASE upc[p] = "accept" -> sk[i].qhead = sk[i].qtail /\ sk[i].waiter = p
          [] upc[p] = "read"   -> sk[q].in_use /\ Used(q) = 0 /\ sk[i].waiter = p
          [] upc[p] = "write"  -> Space(i) = 0 /\ (sk[q].in_use => sk[i].waiter = p)
          [] upc[p] = "poll"   -> ~Readable(i) /\ p \in sk[i].pollers

\* A socket lives as long as a descriptor or the queue of a listening socket
\* refers to it, its name refers to it as long, and the passed file as long as
\* somebody holds it or it is on its way.
Queued(j) == \E l \in Slot : sk[l].in_use /\ \E k \in 0..BACKLOG - 1 :
               k < (sk[l].qhead - sk[l].qtail) % (2 * BACKLOG) /\ sk[l].queue[(sk[l].qtail + k) % BACKLOG] = j
Sum(f, S) == FoldSet(LAMBDA x, n : f[x] + n, 0, S)
UnixRefs ==
  /\ \A i \in Slot :
       /\ sk[i].refcount >= Sum([p \in UProc |-> ufd[p][i]], UProc) + IF Queued(i) THEN 1 ELSE 0
       /\ sk[i].in_use <=> sk[i].refcount > 0
  /\ uname # NONE => sk[uname].in_use /\ sk[uname].state \in {"BOUND", "LISTENING"}
  /\ uref >= Sum(ufile, UProc) + Sum([i \in Slot |-> IF sk[i].in_use THEN sk[i].passed ELSE 0], Slot)

\* The process is in read, and there is something to read or the peer has
\* closed.
ReadDue(p) == upc[p] = "read" /\ ~ustale /\ Readable(uarg[p].sock)
=============================================================================
