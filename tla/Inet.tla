-------------------------------- MODULE Inet --------------------------------
(***************************************************************************)
(* AF_INET sockets: the socket table and its system calls (net/socket.c,   *)
(* syscall/sys_socket.c), TCP (net/tcp.c), UDP (net/udp.c) and the         *)
(* loopback queue of net/ip.c.                                             *)
(*                                                                         *)
(* A system call is an action up to the point where it blocks.  Segments   *)
(* are handled in the timer interrupt: first those of the network card,    *)
(* then the loopback queue, then the timers of tcp_tick (irq is the        *)
(* phase).  Loopback segments can be lost only when the queue is full;     *)
(* those of a machine on the network are lost, repeated and reordered.     *)
(*                                                                         *)
(* Addresses are "lo" and "net".  Timers hold the ticks left.  Bytes carry *)
(* the connection, the side that wrote them and their number.              *)
(***************************************************************************)
EXTENDS Integers, Sequences, FiniteSets, FiniteSetsExt

CONSTANTS
  IProc,
  SOCK_TABLE_SIZE, TCP_MAX_CONNS, TCP_RBUF_SIZE, LO_RING_SIZE, UDP_RX_SLOTS,
  ACCEPT_SLOTS,        \* 8: entries of accept_queue
  TCP_RTO_INITIAL, TCP_RTO_MAX, TCP_RETRANSMIT_MAX, TCP_TIMEWAIT_TICKS,
  SeqMod,              \* 2^32
  FirstTick            \* arch_get_ticks() when the behaviour starts

Sock == 0..SOCK_TABLE_SIZE - 1
Conn == 0..TCP_MAX_CONNS - 1
SOCK_NONE == -1
NoTimer == -1
Nobody == "nobody"
Port == 1..2           \* the ports programs bind
RemotePort == 3
RemoteISN == 0
RemoteId == 0          \* the connection with the machine on the network

VARIABLES
  load,                \* the workload
  socks, tcp,          \* s_socks, s_tcp
  lo,                  \* the loopback queue
  udp,                 \* s_udp: the socket bound to each port
  irq,                 \* the phase of the timer interrupt, or "none"
  inow,                \* ticks, advanced only past a tick that was looked at
  iused,               \* tcp_connect took a port of this tick
  ipc, iarg, iblocked, \* the call each process is in, its arguments, who sleeps
  ifd,                 \* the sockets each process has open
  imsgs,               \* ghost: datagrams sent so far
  iconns,              \* ghost: connections begun so far
  istale               \* ghost: a slot of s_tcp was taken while an open socket refers to it

inetVars == <<socks, tcp, lo, udp, irq, inow, iused, ipc, iarg, iblocked, ifd, imsgs, iconns, istale>>
iclock == <<irq, inow, iused>>
icalls == <<ipc, iarg, iblocked>>
ighost == <<imsgs, iconns, istale>>

FreeSock == [state |-> "FREE", type |-> "stream", port |-> 0, conn |-> SOCK_NONE,
             queue |-> <<>>, rx |-> <<>>, waiter |-> Nobody, pollers |-> {}]
FreeConn == [state |-> "CLOSED", peer |-> "lo", lp |-> 0, rp |-> 0, snd_nxt |-> 0, snd_una |-> 0, rcv_nxt |-> 0,
             data |-> [k \in 0..TCP_RBUF_SIZE - 1 |-> <<>>], head |-> 0, tail |-> 0,
             rt |-> NoTimer, cnt |-> 0, tw |-> NoTimer, sock |-> 0, listener |-> 0,
             id |-> SOCK_NONE, side |-> "cli", wrote |-> 0, got |-> 0, filled |-> FALSE]   \* ghost
NoArg == [sock |-> SOCK_NONE, n |-> 0, left |-> NoTimer]

InetInit ==
  /\ socks = [s \in Sock |-> FreeSock] /\ tcp = [c \in Conn |-> FreeConn]
  /\ lo = <<>> /\ udp = [x \in Port |-> SOCK_NONE]
  /\ irq = "none" /\ inow = 0 /\ iused = FALSE
  /\ ipc = [p \in IProc |-> "user"] /\ iarg = [p \in IProc |-> NoArg] /\ iblocked = {}
  /\ ifd = [p \in IProc |-> {}]
  /\ imsgs = 0 /\ iconns = 0 /\ istale = FALSE

-----------------------------------------------------------------------------
IRunning(p) == irq = "none" /\ p \in DOMAIN load.calls /\ p \notin iblocked
ICall(p, s, c) == IRunning(p) /\ ipc[p] = "user" /\ c \in load.calls[p] /\ s \in ifd[p]
IIn(p, c) == IRunning(p) /\ ipc[p] = c

IReturn(p) == ipc' = [ipc EXCEPT ![p] = "user"] /\ iarg' = [iarg EXCEPT ![p] = NoArg]
IBlock(p, c, a) ==
  /\ ipc' = [ipc EXCEPT ![p] = c] /\ iarg' = [iarg EXCEPT ![p] = a]
  /\ iblocked' = iblocked \cup {p}

Live(s) == s \in Sock /\ socks[s].state # "FREE"
Mut_Wakes(W) == {socks[s].waiter : s \in {w \in W : Live(w)}}
Wakes(W) == UNION {{socks[s].waiter} \cup socks[s].pollers : s \in {w \in W : Live(w)}}
\* sock_wake and wake_poll_waiters of the sockets W.
Woken(ss, W) == [s \in Sock |-> IF s \in W /\ Live(s) THEN [ss[s] EXCEPT !.waiter = Nobody] ELSE ss[s]]

ISeq(n) == n % SeqMod
\* seq_gt: the signed difference is positive.
seq_gt(a, b) == ISeq(a - b) > 0 /\ ISeq(a - b) < SeqMod \div 2
Ticks == ISeq(FirstTick + inow)

IUsed(t) == (t.tail - t.head) % TCP_RBUF_SIZE
IEof(t) == t.state \in {"CLOSE_WAIT", "CLOSED", "TIME_WAIT"}

\* tcp_send_segment: the queue with the segment that connection t sends.
Segment(t, fl, d) ==
  [proto |-> "tcp", peer |-> t.peer, sp |-> t.lp, dp |-> t.rp, seq |-> t.snd_nxt,
   ack |-> IF "ACK" \in fl THEN t.rcv_nxt ELSE 0, fl |-> fl, d |-> d, id |-> t.id]
Room(l) == Len(l) < LO_RING_SIZE
Send(l, t, fl, d) == IF t.peer = "lo" /\ Room(l) THEN Append(l, Segment(t, fl, d)) ELSE l

-----------------------------------------------------------------------------
\* Socket calls.  sock_alloc takes the first free slot; accept and socket
\* fail when there is none.
FreeSocks == {s \in Sock : socks[s].state = "FREE"}
ClosedConns == {c \in Conn : tcp[c].state = "CLOSED"}
\* tcp_alloc: the slot is cleared; somebody may still refer to it.
StillHeld(c) == \E s \in Sock : Live(s) /\ socks[s].type = "stream" /\ socks[s].conn = c

ISocket(p, type) ==
  /\ IRunning(p) /\ ipc[p] = "user" /\ type \in load.calls[p] /\ FreeSocks # {}
  /\ Cardinality(ifd[p]) < load.fds
  /\ LET s == Min(FreeSocks)
     IN  /\ socks' = [socks EXCEPT ![s] = [FreeSock EXCEPT !.state = "CREATED", !.type = type]]
         /\ ifd' = [ifd EXCEPT ![p] = @ \cup {s}]
  /\ UNCHANGED <<tcp, lo, udp, iclock, icalls, ighost>>

\* sys_bind asks nothing of the state of the socket (a program of a workload
\* without "rebind" binds it once), and stores the port before udp_bind may
\* refuse it.
IBind(p, s, x) ==
  /\ ICall(p, s, "bind") /\ (socks[s].state = "CREATED" \/ "rebind" \in load.calls[p])
  /\ socks' = [socks EXCEPT ![s].state = "BOUND", ![s].port = x]
  /\ udp' = IF socks[s].type = "dgram" /\ udp[x] = SOCK_NONE THEN [udp EXCEPT ![x] = s] ELSE udp
  /\ UNCHANGED <<tcp, lo, iclock, icalls, ifd, ighost>>

IListen(p, s) ==
  /\ ICall(p, s, "bind") /\ socks[s].type = "stream" /\ socks[s].state = "BOUND"
  /\ socks' = [socks EXCEPT ![s].state = "LISTENING"]
  /\ IF ClosedConns = {} THEN UNCHANGED <<tcp, istale>>
     ELSE LET c == Min(ClosedConns)
          IN  /\ tcp' = [tcp EXCEPT ![c] = [FreeConn EXCEPT !.state = "LISTEN", !.lp = socks[s].port, !.sock = s]]
              /\ istale' = (istale \/ StillHeld(c))
  /\ UNCHANGED <<lo, udp, iclock, icalls, ifd, imsgs, iconns>>

\* sys_connect with tcp_connect: the SYN carries the number before snd_nxt is
\* advanced.  The port is taken from the tick counter.
IConnect(p, s) ==
  LET c == Min(ClosedConns)
      t == [FreeConn EXCEPT !.state = "SYN_SENT", !.peer = load.server, !.lp = 10 + inow,
              !.rp = IF load.server = "lo" THEN 1 ELSE RemotePort, !.sock = s,
              !.snd_nxt = Ticks, !.snd_una = Ticks, !.rt = TCP_RTO_INITIAL,
              !.id = IF load.server = "lo" THEN iconns + 1 ELSE RemoteId]
  IN  /\ ICall(p, s, "connect") /\ socks[s].type = "stream" /\ socks[s].state = "CREATED"
      /\ iconns < load.conns /\ ClosedConns # {}
      /\ tcp' = [tcp EXCEPT ![c] = [t EXCEPT !.snd_nxt = ISeq(@ + 1)]]
      /\ lo' = Send(lo, t, {"SYN"}, <<>>)
      /\ socks' = [socks EXCEPT ![s].state = "CONNECTING", ![s].conn = c, ![s].waiter = p]
      /\ IBlock(p, "connect", [NoArg EXCEPT !.sock = s])
      /\ iused' = TRUE /\ iconns' = iconns + 1 /\ istale' = (istale \/ StillHeld(c))
      /\ UNCHANGED <<udp, irq, inow, ifd, imsgs>>

\* Woken, by whatever, sys_connect returns, with an error unless connected.
IConnectRetry(p) ==
  /\ IIn(p, "connect") /\ IReturn(p)
  /\ UNCHANGED <<socks, tcp, lo, udp, iclock, iblocked, ifd, ighost>>

AcceptLoop(p, s) ==
  LET c == Head(socks[s].queue)
      n == Min(FreeSocks)
      taken == [socks EXCEPT ![s].queue = Tail(@), ![s].waiter = Nobody]
  IN  /\ IF socks[s].queue = <<>>
           THEN /\ socks' = [socks EXCEPT ![s].waiter = p]
                /\ IBlock(p, "accept", [NoArg EXCEPT !.sock = s]) /\ UNCHANGED <<tcp, ifd>>
           ELSE /\ IReturn(p) /\ UNCHANGED iblocked
                /\ IF FreeSocks = {} THEN socks' = taken /\ UNCHANGED <<tcp, ifd>>
                   ELSE /\ socks' = [taken EXCEPT ![n] = [FreeSock EXCEPT !.state = "CONNECTED", !.conn = c,
                                                                         !.port = tcp[c].lp]]
                        /\ tcp' = [tcp EXCEPT ![c].sock = n]
                        /\ ifd' = [ifd EXCEPT ![p] = @ \cup {n}]
      /\ UNCHANGED <<lo, udp, iclock, ighost>>

IAccept(p, s) == ICall(p, s, "accept") /\ socks[s].state = "LISTENING" /\ AcceptLoop(p, s)
IAcceptRetry(p) == IIn(p, "accept") /\ AcceptLoop(p, iarg[p].sock)

-----------------------------------------------------------------------------
\* tcp_conn_send: one segment, or an error.  The window is not looked at and
\* nothing is kept to be sent again.
ISend(p, s, n) ==
  LET c == socks[s].conn
      t == tcp[c]
      d == [k \in 1..n |-> <<t.id, t.side, t.wrote + k - 1>>]
  IN  /\ ICall(p, s, "send") /\ socks[s].state = "CONNECTED" /\ socks[s].type = "stream"
      /\ t.state = "ESTABLISHED" /\ t.wrote + n <= load.bytes
      /\ t.peer = "lo" => Room(lo)
      /\ lo' = Send(lo, t, {"PSH", "ACK"}, d)
      /\ tcp' = [tcp EXCEPT ![c].snd_nxt = ISeq(@ + n), ![c].wrote = @ + n]
      /\ UNCHANGED <<socks, udp, iclock, icalls, ifd, ighost>>

\* sys_recvfrom and sock_vfs_read on a stream: tcp_conn_recv first asks how
\* much there is.  left is what remains of SO_RCVTIMEO.
RecvLoop(p, a) ==
  LET s == a.sock
      t == tcp[socks[s].conn]
      n == IF a.n < IUsed(t) THEN a.n ELSE IUsed(t)
  IN  /\ \/ /\ IUsed(t) > 0
            /\ tcp' = [tcp EXCEPT ![socks[s].conn].head = (@ + n) % TCP_RBUF_SIZE,
                                  ![socks[s].conn].got = @ + n]
            /\ IReturn(p) /\ UNCHANGED iblocked
            /\ socks' = [socks EXCEPT ![s].waiter = Nobody]
         \/ /\ IUsed(t) = 0 /\ (IEof(t) \/ a.left = 0)
            /\ IReturn(p) /\ UNCHANGED <<tcp, iblocked>>
            /\ socks' = [socks EXCEPT ![s].waiter = Nobody]
         \/ /\ IUsed(t) = 0 /\ ~IEof(t) /\ a.left # 0
            /\ IBlock(p, "recv", a) /\ UNCHANGED tcp
            /\ socks' = [socks EXCEPT ![s].waiter = p]
      /\ UNCHANGED <<lo, udp, iclock, ifd, ighost>>

IRecv(p, s, n) ==
  /\ ICall(p, s, "recv") /\ socks[s].type = "stream" /\ socks[s].state \in {"CONNECTED", "CLOSED"}
  /\ RecvLoop(p, [sock |-> s, n |-> n, left |-> load.timeo])
IRecvRetry(p) == IIn(p, "recv") /\ RecvLoop(p, iarg[p])

\* udp_send to a port of this machine, and sys_recvfrom on a datagram socket.
ISendTo(p, s, x) ==
  /\ ICall(p, s, "sendto") /\ socks[s].type = "dgram" /\ imsgs < load.bytes /\ Room(lo)
  /\ lo' = Append(lo, [proto |-> "udp", dp |-> x, d |-> <<imsgs>>])
  /\ imsgs' = imsgs + 1
  /\ UNCHANGED <<socks, tcp, udp, iclock, icalls, ifd, iconns, istale>>

RecvFromLoop(p, a) ==
  LET s == a.sock IN
  /\ IF socks[s].rx # <<>> \/ a.left = 0
       THEN /\ socks' = [socks EXCEPT ![s].waiter = Nobody, ![s].rx = IF @ = <<>> THEN @ ELSE Tail(@)]
            /\ IReturn(p) /\ UNCHANGED iblocked
       ELSE /\ socks' = [socks EXCEPT ![s].waiter = p]
            /\ IBlock(p, "recvfrom", a)
  /\ UNCHANGED <<tcp, lo, udp, iclock, ifd, ighost>>

IRecvFrom(p, s) ==
  /\ ICall(p, s, "recvfrom") /\ socks[s].type = "dgram"
  /\ RecvFromLoop(p, [sock |-> s, n |-> 1, left |-> load.timeo])
IRecvFromRetry(p) == IIn(p, "recvfrom") /\ RecvFromLoop(p, iarg[p])

\* sys_poll for POLLIN (and POLLHUP, which is reported always).
IReadable(s) ==
  CASE socks[s].type = "dgram"        -> socks[s].rx # <<>>
    [] socks[s].state = "LISTENING"   -> socks[s].queue # <<>>
    [] OTHER                          -> IUsed(tcp[socks[s].conn]) > 0 \/ IEof(tcp[socks[s].conn])

IPollLoop(p, s) ==
  /\ IF IReadable(s)
       THEN IReturn(p) /\ UNCHANGED iblocked /\ socks' = [socks EXCEPT ![s].pollers = @ \ {p}]
       ELSE IBlock(p, "poll", [NoArg EXCEPT !.sock = s]) /\ socks' = [socks EXCEPT ![s].pollers = @ \cup {p}]
  /\ UNCHANGED <<tcp, lo, udp, iclock, ifd, ighost>>

IPoll(p, s) ==
  /\ ICall(p, s, "poll") /\ (socks[s].type = "dgram" \/ socks[s].state \in {"LISTENING", "CONNECTED"})
  /\ IPollLoop(p, s)
IPollRetry(p) == IIn(p, "poll") /\ IPollLoop(p, iarg[p].sock)

\* sys_shutdown with tcp_conn_close: only an established connection is closed.
IShutdown(p, s) ==
  LET c == socks[s].conn IN
  /\ ICall(p, s, "shutdown") /\ socks[s].state = "CONNECTED" /\ socks[s].type = "stream"
  /\ IF tcp[c].state = "ESTABLISHED"
       THEN /\ lo' = Send(lo, tcp[c], {"FIN", "ACK"}, <<>>)
            /\ tcp' = [tcp EXCEPT ![c].state = "FIN_WAIT_1", ![c].snd_nxt = ISeq(@ + 1)]
       ELSE UNCHANGED <<lo, tcp>>
  /\ socks' = [socks EXCEPT ![s].state = "CLOSED"]
  /\ UNCHANGED <<udp, iclock, icalls, ifd, ighost>>

\* sock_vfs_close: the port of a datagram socket is given back, whoever has
\* it; the connection stays as it is.
IClose(p, s) ==
  /\ ICall(p, s, "close")
  /\ udp' = IF socks[s].type = "dgram" /\ socks[s].port # 0 THEN [udp EXCEPT ![socks[s].port] = SOCK_NONE] ELSE udp
  /\ socks' = [socks EXCEPT ![s] = FreeSock]
  /\ ifd' = [ifd EXCEPT ![p] = @ \ {s}]
  /\ UNCHANGED <<tcp, lo, iclock, icalls, ighost>>

-----------------------------------------------------------------------------
(* The timer interrupt.  A step of tcp_rx sets connection c to t, leaves    *)
(* the loopback queue as l, and afterwards wakes the sockets W, of which ss *)
(* is the table with what else the step changed there.                      *)

Handled(l) == IF irq = "poll" THEN Tail(l) ELSE l
DueIn(tt) == {c \in Conn : \/ tt[c].state = "TIME_WAIT" /\ tt[c].tw = 0
                           \/ tt[c].state \notin {"CLOSED", "TIME_WAIT"} /\ tt[c].rt = 0}
\* The phase after the network card's: ip_loopback_poll goes on until the queue
\* is empty, replies included, then tcp_tick.
Phase(l, tt) == IF l # <<>> THEN "poll" ELSE IF DueIn(tt) # {} THEN "tick" ELSE "none"
RxDone(c, t, l, ss, W) ==
  /\ tcp' = [tcp EXCEPT ![c] = t] /\ lo' = Handled(l)
  /\ socks' = Woken(ss, W) /\ iblocked' = iblocked \ Wakes(W)
  /\ UNCHANGED <<udp, inow, iused, ipc, iarg, ifd, imsgs, iconns>>
RxIgnored(l) ==
  /\ lo' = Handled(l)
  /\ UNCHANGED <<socks, tcp, udp, inow, iused, icalls, ifd, ighost>>

\* tcp_find and tcp_find_listener.
Found(g) ==
  {c \in Conn : tcp[c].state # "CLOSED" /\ tcp[c].peer = g.peer /\ tcp[c].rp = g.sp /\ tcp[c].lp = g.dp}
Listener(x) == {c \in Conn : tcp[c].state = "LISTEN" /\ tcp[c].lp = x}

RxRefuse(g) ==
  /\ "SYN" \in g.fl /\ Listener(g.dp) = {}
  /\ RxIgnored(Send(lo, [FreeConn EXCEPT !.peer = g.peer, !.lp = g.dp, !.rp = g.sp, !.rcv_nxt = ISeq(g.seq + 1)],
                    {"RST", "ACK"}, <<>>))

RxSyn(g) ==
  LET c == Min(ClosedConns)
      t == [FreeConn EXCEPT !.state = "SYN_RCVD", !.peer = g.peer, !.lp = g.dp, !.rp = g.sp,
              !.rcv_nxt = ISeq(g.seq + 1), !.snd_nxt = Ticks, !.snd_una = Ticks,
              !.listener = tcp[Min(Listener(g.dp))].sock, !.rt = TCP_RTO_INITIAL,
              !.id = g.id, !.side = "srv"]
  IN  /\ "SYN" \in g.fl /\ Listener(g.dp) # {} /\ ClosedConns # {}
      /\ RxDone(c, [t EXCEPT !.snd_nxt = ISeq(@ + 1)], Send(lo, t, {"SYN", "ACK"}, <<>>), socks, {})
      /\ istale' = (istale \/ StillHeld(c))

RxStray(g) ==
  /\ ("SYN" \in g.fl => Listener(g.dp) # {} /\ ClosedConns = {})
  /\ RxIgnored(lo)

\* The third segment of the handshake.  A full queue loses the connection.
RxSynRcvd(g, c) ==
  LET t == tcp[c]
      s == t.listener
      pushed == IF Live(s) /\ Len(socks[s].queue) < ACCEPT_SLOTS - 1
                  THEN [socks EXCEPT ![s].queue = Append(@, c)] ELSE socks
  IN  /\ t.state = "SYN_RCVD"
      /\ IF "ACK" \in g.fl /\ g.fl \cap {"SYN", "RST"} = {} /\ g.ack = t.snd_nxt
           THEN RxDone(c, [t EXCEPT !.state = "ESTABLISHED", !.snd_una = g.ack, !.rt = NoTimer], lo, pushed, {s})
           ELSE RxDone(c, t, lo, socks, {})
      /\ UNCHANGED istale

RxSynSent(g, c) ==
  LET t == tcp[c]
      up == [t EXCEPT !.state = "ESTABLISHED", !.snd_una = g.ack, !.rcv_nxt = ISeq(g.seq + 1), !.rt = NoTimer]
  IN  /\ t.state = "SYN_SENT"
      /\ CASE "RST" \in g.fl -> RxDone(c, [t EXCEPT !.state = "CLOSED", !.rt = NoTimer], lo, socks, {t.sock})
           [] "RST" \notin g.fl /\ {"SYN", "ACK"} \subseteq g.fl /\ g.ack = t.snd_nxt ->
                RxDone(c, up, Send(lo, up, {"ACK"}, <<>>),
                       IF Live(t.sock) THEN [socks EXCEPT ![t.sock].state = "CONNECTED"] ELSE socks, {t.sock})
           [] OTHER -> RxDone(c, t, lo, socks, {})
      /\ UNCHANGED istale

\* The bytes d go into the ring of t behind what is there.
Stored(t, d) ==
  [t EXCEPT !.data = [k \in DOMAIN @ |-> LET i == (k - t.tail) % TCP_RBUF_SIZE
                                        IN  IF i < Len(d) THEN d[i + 1] ELSE @[k]],
            !.tail = (@ + Len(d)) % TCP_RBUF_SIZE, !.rcv_nxt = ISeq(@ + Len(d)),
            !.filled = @ \/ IUsed(t) + Len(d) = TCP_RBUF_SIZE]

\* Acknowledgement, then data, then RST or else FIN, in one segment.
RxEstablished(g, c) ==
  LET t0 == tcp[c]
      t1 == IF "ACK" \in g.fl /\ seq_gt(g.ack, t0.snd_una) THEN [t0 EXCEPT !.snd_una = g.ack] ELSE t0
      inOrder == g.d # <<>> /\ g.seq = t1.rcv_nxt
      fits == Len(g.d) <= TCP_RBUF_SIZE - IUsed(t1)
      t2 == IF inOrder /\ fits THEN Stored(t1, g.d) ELSE t1
      l2 == IF inOrder THEN Send(lo, t2, {"ACK"}, <<>>) ELSE lo
      t3 == [t2 EXCEPT !.rcv_nxt = ISeq(@ + 1), !.state = "CLOSE_WAIT"]
      ended == g.fl \cap {"RST", "FIN"} # {}
  IN  /\ t0.state = "ESTABLISHED"
      /\ CASE "RST" \in g.fl                       -> RxDone(c, [t2 EXCEPT !.state = "CLOSED"], l2, socks, {t2.sock})
           [] "RST" \notin g.fl /\ "FIN" \in g.fl   -> RxDone(c, t3, Send(l2, t3, {"ACK"}, <<>>), socks, {t2.sock})
           [] ~ended                               -> RxDone(c, t2, l2, socks, IF inOrder /\ fits THEN {t2.sock} ELSE {})
      /\ UNCHANGED istale

\* The states after this side closed.
RxFinWait(g, c) ==
  LET t == tcp[c]
      fin == "FIN" \in g.fl
      ours == "ACK" \in g.fl /\ g.ack = t.snd_nxt
      t1 == [t EXCEPT !.snd_una = IF ours THEN g.ack ELSE @,
                      !.rcv_nxt = IF fin THEN ISeq(@ + 1) ELSE @,
                      !.state = IF fin THEN "CLOSING" ELSE "FIN_WAIT_2"]
      t2 == [t EXCEPT !.rcv_nxt = ISeq(@ + 1), !.state = "TIME_WAIT", !.tw = TCP_TIMEWAIT_TICKS]
      t3 == [t EXCEPT !.state = "TIME_WAIT", !.tw = TCP_TIMEWAIT_TICKS]
  IN  /\ CASE t.state = "FIN_WAIT_1" /\ (ours \/ ("ACK" \notin g.fl /\ fin)) ->
                RxDone(c, t1, IF fin THEN Send(lo, t1, {"ACK"}, <<>>) ELSE lo, socks, {})
           [] t.state = "FIN_WAIT_2" /\ fin -> RxDone(c, t2, Send(lo, t2, {"ACK"}, <<>>), socks, {t.sock})
           [] t.state = "CLOSING" /\ "ACK" \in g.fl -> RxDone(c, t3, lo, socks, {t.sock})
           [] OTHER -> RxDone(c, t, lo, socks, {})
      /\ t.state \in {"FIN_WAIT_1", "FIN_WAIT_2", "CLOSING", "CLOSE_WAIT", "TIME_WAIT"}
      /\ UNCHANGED istale

TcpRx(g) ==
  LET found == Found(g)
      c == Min(found)
  IN  IF found = {} THEN RxRefuse(g) \/ RxSyn(g) \/ RxStray(g)
      ELSE RxSynRcvd(g, c) \/ RxSynSent(g, c) \/ RxEstablished(g, c) \/ RxFinWait(g, c)

\* udp_rx: to the socket bound to the port, if its ring has room.
UdpRx(g) ==
  LET s == udp[g.dp] IN
  /\ IF Live(s) /\ Len(socks[s].rx) < UDP_RX_SLOTS - 1
       THEN /\ socks' = Woken([socks EXCEPT ![s].rx = Append(@, g.d[1])], {s})
            /\ iblocked' = iblocked \ Wakes({s})
       ELSE UNCHANGED <<socks, iblocked>>
  /\ lo' = Handled(lo)
  /\ UNCHANGED <<tcp, udp, inow, iused, ipc, iarg, ifd, ighost>>

-----------------------------------------------------------------------------
Down(n) == IF n > 0 THEN n - 1 ELSE n
\* The interrupt begins: the clock, and the sleepers whose deadline has come.
ITick ==
  /\ irq = "none"
  /\ inow' = IF iused THEN inow + 1 ELSE inow
  /\ iused' = FALSE
  /\ tcp' = [c \in Conn |-> IF tcp[c].state = "CLOSED" THEN tcp[c]
                           ELSE [tcp[c] EXCEPT !.rt = Down(@), !.tw = Down(@)]]
  /\ iarg' = [p \in IProc |-> [iarg[p] EXCEPT !.left = Down(@)]]
  /\ iblocked' = {p \in iblocked : iarg'[p].left # 0}
  /\ irq' = IF load.remote THEN "nic" ELSE Phase(lo, tcp')
  /\ UNCHANGED <<socks, lo, udp, ipc, ifd, ighost>>

\* External: what a machine on the network may send, each segment any number
\* of times and in any order.  It connects to port 1, or was connected to.
\* It acknowledges what it may have seen, where a SYN that was sent again
\* carries the number after the first one's.
RemoteAcks(t) ==
  {ISeq(t.snd_una + k) : k \in 0..ISeq(t.snd_nxt - t.snd_una)}
  \cup (IF t.cnt > 0 THEN {ISeq(t.snd_nxt + 1)} ELSE {})
RemoteSide(t) == IF t.side = "cli" THEN "srv" ELSE "cli"
RemoteData(t) ==
  {[off |-> k, d |-> [i \in 1..n |-> <<RemoteId, RemoteSide(t), k + i - 1>>], fl |-> {"ACK"}] :
     k \in 0..load.bytes - 1, n \in 1..2}
RemotePieces(t) ==
  {x \in RemoteData(t) : x.off + Len(x.d) <= load.bytes}
  \cup {[off |-> 0, d |-> <<>>, fl |-> {"ACK"}]}
  \cup (IF "fin" \in load.ends THEN {[off |-> load.bytes, d |-> <<>>, fl |-> {"FIN", "ACK"}]} ELSE {})
  \cup (IF "rst" \in load.ends THEN {[off |-> 0, d |-> <<>>, fl |-> {"RST"}]} ELSE {})
  \cup (IF t.side = "cli" THEN {[off |-> -1, d |-> <<>>, fl |-> {"SYN", "ACK"}]} ELSE {})
RemoteSegments ==
  LET Seg(t, x, a) == [proto |-> "tcp", peer |-> "net", sp |-> t.rp, dp |-> t.lp, id |-> RemoteId,
                       seq |-> ISeq(RemoteISN + 1 + x.off), ack |-> a, fl |-> x.fl, d |-> x.d]
      Open == {tcp[c] : c \in {x \in Conn : tcp[x].state # "CLOSED" /\ tcp[x].peer = "net"}}
  IN  UNION {{Seg(t, x, a) : x \in RemotePieces(t), a \in RemoteAcks(t)} : t \in Open}
      \cup (IF load.server = "net" THEN {}
            ELSE {[proto |-> "tcp", peer |-> "net", sp |-> RemotePort, dp |-> 1, id |-> RemoteId,
                   seq |-> RemoteISN, ack |-> 0, fl |-> {"SYN"}, d |-> <<>>]})

\* netdev_poll_all: segments until the card has no more.
RxNet == irq = "nic" /\ irq' = irq /\ \E g \in RemoteSegments : TcpRx(g)
RxNetDone ==
  /\ irq = "nic" /\ irq' = Phase(lo, tcp)
  /\ UNCHANGED <<socks, tcp, lo, udp, inow, iused, icalls, ifd, ighost>>

RxLoopback ==
  /\ irq = "poll"
  /\ IF Head(lo).proto = "tcp" THEN TcpRx(Head(lo)) ELSE UdpRx(Head(lo))
  /\ irq' = Phase(lo', tcp')

\* tcp_tick, connection after connection.  A connection given up ends the scan.
Rto(n) == LET r == TCP_RTO_INITIAL * 2^n IN IF r > TCP_RTO_MAX THEN TCP_RTO_MAX ELSE r
Mut_Retried(t) == IF t.cnt + 1 < TCP_RETRANSMIT_MAX THEN t.cnt + 1 ELSE t.cnt
Retried(t) == t.cnt + 1
TickConn ==
  LET c == Min(DueIn(tcp))
      t == tcp[c]
      expired == t.state = "TIME_WAIT"
      lost == ~expired /\ t.cnt >= TCP_RETRANSMIT_MAX
      again == [t EXCEPT !.cnt = Retried(t), !.rt = Rto(Retried(t))]
      pollersOf == IF Live(t.sock) THEN socks[t.sock].pollers ELSE {}
  IN  /\ irq = "tick"
      /\ tcp' = [tcp EXCEPT ![c] = IF expired \/ lost THEN [t EXCEPT !.state = "CLOSED"] ELSE again]
      /\ lo' = CASE expired -> lo
                  [] lost -> Send(lo, t, {"RST"}, <<>>)
                  [] ~expired /\ ~lost -> Send(lo, t, IF t.state = "SYN_RCVD" THEN {"SYN", "ACK"} ELSE {"SYN"}, <<>>)
      /\ socks' = IF lost THEN Woken(socks, {t.sock}) ELSE socks
      /\ iblocked' = iblocked \ (CASE expired -> pollersOf [] lost -> Wakes({t.sock}) [] OTHER -> {})
      /\ irq' = IF lost \/ DueIn(tcp') = {} THEN "none" ELSE "tick"
      /\ UNCHANGED <<udp, inow, iused, ipc, iarg, ifd, ighost>>

-----------------------------------------------------------------------------
InetKernel(p) ==
  \/ IConnectRetry(p) \/ IAcceptRetry(p) \/ IRecvRetry(p) \/ IRecvFromRetry(p) \/ IPollRetry(p)
InetProgram(p) ==
  \/ \E type \in {"stream", "dgram"} : ISocket(p, type)
  \/ \E s \in ifd[p] :
       \/ IListen(p, s) \/ IConnect(p, s) \/ IAccept(p, s) \/ IRecvFrom(p, s)
       \/ IPoll(p, s) \/ IShutdown(p, s) \/ IClose(p, s)
       \/ \E x \in load.ports : IBind(p, s, x) \/ ISendTo(p, s, x)
       \/ \E n \in load.sizes : ISend(p, s, n) \/ IRecv(p, s, n)
InetIrq == ITick \/ RxNetDone \/ RxLoopback \/ TickConn
InetIn(A) == load.part = "inet" /\ A /\ UNCHANGED load

InetNext == InetIn((\E p \in IProc : InetKernel(p) \/ InetProgram(p)) \/ RxNet \/ InetIrq)

\* A call that was woken goes on, and timer interrupts come and end.
InetFairness ==
  /\ \A p \in IProc : SF_inetVars(InetIn(InetKernel(p)))
  /\ WF_inetVars(InetIn(InetIrq))

-----------------------------------------------------------------------------
Other(side) == IF side = "cli" THEN "srv" ELSE "cli"
\* Bytes arrive in the order in which the other side wrote them, none missing,
\* none twice, whatever is lost, repeated or reordered on the way, and across
\* the wrap of the sequence numbers.  (A ring filled to the last byte reads as
\* empty and is written over: filled.)
InetStreams ==
  /\ \A c \in Conn : tcp[c].state # "LISTEN" /\ ~tcp[c].filled =>
       \A k \in 0..IUsed(tcp[c]) - 1 :
         tcp[c].data[(tcp[c].head + k) % TCP_RBUF_SIZE] = <<tcp[c].id, Other(tcp[c].side), tcp[c].got + k>>
  /\ \A s \in Sock, j, k \in 1..UDP_RX_SLOTS :
       j < k /\ k <= Len(socks[s].rx) => socks[s].rx[j] < socks[s].rx[k]

\* Nobody sleeps in accept, connect, recv, recvfrom or poll when what it waits
\* for is there, or can no longer come; for TCP as long as no slot of s_tcp was
\* taken while an open socket refers to it (istale).
InetNobodyForgotten ==
  \A p \in iblocked :
    LET s == iarg[p].sock
        t == tcp[socks[s].conn]
    IN  CASE ipc[p] = "accept"   -> socks[s].queue = <<>>
          [] ipc[p] = "connect"  -> ~istale => t.state = "SYN_SENT" /\ t.rt # NoTimer
          [] ipc[p] = "recv"     -> ~istale => IUsed(t) = 0 /\ ~IEof(t)
          [] ipc[p] = "recvfrom" -> socks[s].rx = <<>>
          [] ipc[p] = "poll"     -> ~istale => ~IReadable(s)

\* A connection is handed out once: it is in one accept queue, or one socket
\* has it (with the same exception).
Claims(c) ==
  {<<s, k>> \in Sock \X (0..ACCEPT_SLOTS) :
     /\ Live(s)
     /\ IF k = 0 THEN socks[s].state \in {"CONNECTED", "CLOSED"} /\ socks[s].type = "stream" /\ socks[s].conn = c
                 ELSE k <= Len(socks[s].queue) /\ socks[s].queue[k] = c}
InetHandedOutOnce == ~istale => \A c \in Conn : Cardinality(Claims(c)) <= 1

\* The process is in connect, which must end.
InConnect(p) == ipc[p] = "connect"
=============================================================================
