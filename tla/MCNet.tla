-------------------------------- MODULE MCNet --------------------------------
(***************************************************************************)
(* The network for model checking: AF_UNIX sockets, AF_INET sockets with   *)
(* TCP, UDP and the loopback queue, and epoll.  A behaviour is about one   *)
(* part, that of its workload; the others keep their initial states.       *)
(***************************************************************************)
EXTENDS Integers, TLC

CONSTANTS
  UProc, UServer, UOwner, UNIX_SOCK_MAX, UNIX_BUF_SIZE, BACKLOG, UNIX_PASSED_FD_MAX, MaxFiles,
  IProc, SOCK_TABLE_SIZE, TCP_MAX_CONNS, TCP_RBUF_SIZE, LO_RING_SIZE, UDP_RX_SLOTS, ACCEPT_SLOTS,
  TCP_RTO_INITIAL, TCP_RTO_MAX, TCP_RETRANSMIT_MAX, TCP_TIMEWAIT_TICKS, SeqMod, FirstTick,
  EThread, EFd, EPOLL_MAX_INSTANCES, EPOLL_MAX_WATCHES

VARIABLES
  load,
  sk, uname, ublocked, upc, uarg, ufd, ufile, uref, uconns, ustale,
  socks, tcp, lo, udp, irq, inow, iused, ipc, iarg, iblocked, ifd, imsgs, iconns, istale,
  ep, eready, eopen, epc, earg, eblocked, ereg, eold

U == INSTANCE UnixSock
I == INSTANCE Inet
E == INSTANCE Epoll

unixVars == <<sk, uname, ublocked, upc, uarg, ufd, ufile, uref, uconns, ustale>>
inetVars == <<socks, tcp, lo, udp, irq, inow, iused, ipc, iarg, iblocked, ifd, imsgs, iconns, istale>>
epollVars == <<ep, eready, eopen, epc, earg, eblocked, ereg, eold>>
netVars == <<load, unixVars, inetVars, epollVars>>

\* A server and its clients over a socket file.
UnixLoad(calls, procs, conns, writers, mod) ==
  [part |-> "unix", calls |-> {"socket", "bind", "connect", "accept"} \cup calls,
   procs |-> procs, conns |-> conns, writers |-> writers, mod |-> mod,
   nonblock |-> FALSE]
UnixLoads ==
  {UnixLoad({"read", "write", "signal", "close"}, {"srv", "c1"}, 1, {"c1"}, 3),
   UnixLoad({"read", "write", "poll", "close"}, {"srv", "c1"}, 1, {"srv"}, 5),
   [UnixLoad({"read", "write", "close"}, {"srv", "c1"}, 1, {"c1"}, 3) EXCEPT !.nonblock = TRUE],
   UnixLoad({"pass", "close"}, {"srv", "c1"}, 1, {"c1"}, 1),
   UnixLoad({"dup", "poll", "close"}, {"srv", "c1"}, 1, {}, 1),
   UnixLoad({"poll"}, {"srv", "c1", "c2"}, 2, {}, 1),
   UnixLoad({"close"}, {"srv", "c1"}, 2, {}, 1)}

\* Programs on the Internet sockets: over loopback, or with a machine on the
\* network.
InetLoad(calls, conns, bytes) ==
  [part |-> "inet", calls |-> calls, conns |-> conns, bytes |-> bytes, fds |-> 1, server |-> "lo",
   remote |-> FALSE, ports |-> {1}, sizes |-> {1}, ends |-> {}, timeo |-> I!NoTimer]
Client(c) == {"stream", "connect"} \cup c
Server(c) == {"stream", "bind", "accept"} \cup c
InetLoads ==
  {[InetLoad("srv" :> Server({"recv", "poll"}) @@ "c1" :> Client({"send"}), 1, 5) EXCEPT !.sizes = {2, 3}],
   InetLoad("srv" :> Server({"send", "shutdown"}) @@ "c1" :> Client({"recv", "shutdown"}), 1, 2),
   InetLoad("srv" :> Server({}) @@ "c1" :> Client({}) @@ "c2" :> Client({}), 2, 0),
   InetLoad("srv" :> Server({"close", "rebind"}) @@ "c1" :> Client({}), 1, 0),
   InetLoad("srv" :> Server({}) @@ "c1" :> Client({"close"}), 2, 0),
   InetLoad("srv" :> {"dgram", "bind", "recvfrom", "poll"} @@ "c1" :> {"dgram", "bind", "rebind", "sendto", "close"}, 0, 4),
   [InetLoad("srv" :> {"dgram", "bind", "recvfrom"} @@ "c1" :> {"dgram", "sendto"}, 0, 2) EXCEPT !.timeo = 2],
   [InetLoad("srv" :> Server({"recv"}), 1, 2) EXCEPT !.remote = TRUE, !.ends = {"fin"}],
   [InetLoad("c1" :> Client({"recv", "shutdown"}), 1, 2)
      EXCEPT !.remote = TRUE, !.server = "net", !.ends = {"fin", "rst"}]}

\* Threads that wait on a set of descriptors.
In == [ev |-> {"in"}, et |-> FALSE]
EdgeIn == [ev |-> {"in"}, et |-> TRUE]
InOut == [ev |-> {"in", "out"}, et |-> FALSE]
EpollLoad(calls, threads, kind, left, events) ==
  [part |-> "epoll", calls |-> {"create", "add", "wait"} \cup calls, threads |-> threads, kind |-> kind,
   sock |-> [f \in EFd |-> f], left |-> left, events |-> events]
EpollLoads ==
  {EpollLoad({"read", "mod"}, {"t1"}, 0 :> "file" @@ 1 :> "inet", {E!Forever, 2}, {EdgeIn, InOut}),
   EpollLoad({"read"}, {"t1", "t2"}, 0 :> "file" @@ 1 :> "file", {E!Forever}, {EdgeIn}),
   EpollLoad({"del", "close"}, {"t1"}, 0 :> "inet" @@ 1 :> "file", {0, E!Forever}, {In}),
   EpollLoad({"free"}, {"t1", "t2"}, 0 :> "inet" @@ 1 :> "inet", {E!Forever}, {EdgeIn})}

Loads == UnixLoads \cup InetLoads \cup EpollLoads
NetInit == load \in Loads /\ U!UnixInit /\ I!InetInit /\ E!EpollInit
NetNext ==
  \/ U!UnixNext /\ UNCHANGED <<inetVars, epollVars>>
  \/ I!InetNext /\ UNCHANGED <<unixVars, epollVars>>
  \/ E!EpollNext /\ UNCHANGED <<unixVars, inetVars>>
NetSpec == NetInit /\ [][NetNext]_netVars /\ U!UnixFairness /\ I!InetFairness /\ E!EpollFairness

\* Bytes and datagrams arrive as they were sent, in order, over AF_UNIX
\* connections, TCP and UDP.
NetStreams == U!UnixStreamIntact /\ I!InetStreams

\* Nobody sleeps in a socket call, in poll or in epoll_wait when what it waits
\* for is there, or can no longer come because the peer closed, the connection
\* was reset or its attempts to connect are used up.  Not for two cases: a
\* write to a full AF_UNIX ring sleeps on when the peer closes, and a socket
\* whose slot or connection was given to somebody else while it still had it
\* (ustale, istale) is left out.
NetNobodyForgotten == U!UnixNobodyForgotten /\ I!InetNobodyForgotten /\ (load.part = "epoll" => E!EpollNobodyForgotten)

\* Sockets, connections and passed descriptors live as long as somebody holds
\* them, a connection is handed to one socket, and the lists of an epoll
\* instance agree.
NetTables == U!UnixRefs /\ I!InetHandedOutOnce /\ E!EpollListsSound

\* A process that reads from an AF_UNIX socket returns once there are bytes or
\* the peer has closed; connect over TCP returns, also when nobody answers, and
\* so does epoll_wait with a timeout.
Due == U!ReadDue("srv") \/ I!InConnect("c1") \/ E!EpollDue("t1")
NetReturns == Due ~> ~Due
=============================================================================
