-------------------------------- MODULE Dhcp --------------------------------
(***************************************************************************)
(* The two network daemons: the DHCP client user/bin/dhcp and the SNTP     *)
(* client user/bin/chronos, with the servers they talk to.                 *)
(*                                                                         *)
(* The DHCP client broadcasts a DISCOVER, takes the first OFFER of its     *)
(* transaction, asks for it with a REQUEST that names the server, and      *)
(* configures the kernel from the ACK; a bound client renews at half the   *)
(* lease.  A packet of the transaction is parsed into the client's         *)
(* variables before its type is looked at.  Option bytes are left out: an  *)
(* address is the server that leases it and the transaction it was         *)
(* offered in, and the options of a packet are known by their server.      *)
(*                                                                         *)
(* The network keeps every packet the client sent: any server may answer   *)
(* any of them at any time, often or never, which is loss, repetition and  *)
(* reordering in one.                                                      *)
(***************************************************************************)
EXTENDS Workload, Naturals, FiniteSets

CONSTANTS DServers,    \* the servers on the network
          DAttempts,   \* MAX_ATTEMPTS
          DRetries     \* MAX_RETRIES

VARIABLES dc,    \* the DHCP client
          dup,   \* the packets it has sent
          dn     \* the SNTP client and its network

dvars == <<dc, dup, dn>>

DOn == load.part = "dhcp"
DAt(p) == DOn /\ dc.pc = p
DNobody == "none"
DNoIp == [srv |-> DNobody, xid |-> 0]
DPacket(kind, xid, srv, ip) == [kind |-> kind, xid |-> xid, srv |-> srv, ip |-> ip]

\* A transaction is known by the second it begins in.  A daemon that slept has
\* a new one; the acquisition that follows a failed renewal at once may begin
\* in the same second, unless the renewal timed out twice.
make_xid(c) ==
  {c.xid + 1} \cup (IF c.phase = "renew" /\ c.attempt = 0 /\ c.waits < 2 THEN {c.xid} ELSE {})

\* An attempt makes its transaction and opens a socket, which may not be had;
\* after the last one the client gives up.
DBegin ==
  /\ DAt("begin")
  /\ \/ /\ dc.attempt >= DAttempts
        /\ dc' = [dc EXCEPT !.pc = "exit"]
     \/ /\ dc.attempt < DAttempts
        /\ \E x \in make_xid(dc) :
             dc' = [dc EXCEPT !.pc = "send", !.phase = "select", !.xid = x, !.retry = 0, !.waits = 0, !.late = FALSE]
     \/ /\ dc.attempt < DAttempts /\ dc.fails > 0
        /\ dc' = [dc EXCEPT !.attempt = @ + 1, !.fails = @ - 1]
  /\ UNCHANGED <<dup, dn>>

\* The packet of a phase: pkt_add_discover, pkt_add_request.  A renewal goes
\* to the server recorded when it is sent.
DRequest(c) ==
  CASE c.phase = "select"  -> DPacket("discover", c.xid, DNobody, DNoIp)
    [] c.phase = "request" -> DPacket("request", c.xid, c.asked, c.offered)
    [] OTHER               -> DPacket("renew", c.xid, c.srv, c.ip)

\* A failed attempt is followed by the next one, seconds later; a failed
\* renewal starts over at once.
DFailed(c) ==
  [c EXCEPT !.pc = "begin", !.attempt = IF c.phase = "renew" THEN 0 ELSE @ + 1]

\* A phase sends its packet up to DRetries times and listens after each; a
\* packet that could not be sent counts.
DTransmit ==
  /\ DAt("send")
  /\ \/ /\ dc.retry >= DRetries
        /\ dc' = DFailed(dc)
        /\ UNCHANGED dup
     \/ /\ dc.retry < DRetries
        /\ dc' = [dc EXCEPT !.retry = @ + 1, !.pc = "listen"]
        /\ dup' = dup \cup {DRequest(dc)}
     \/ /\ dc.retry < DRetries /\ dc.fails > 0
        /\ dc' = [dc EXCEPT !.retry = @ + 1, !.fails = @ - 1]
        /\ UNCHANGED dup
  /\ UNCHANGED dn

\* Half a second without a datagram; it may end before an answer comes.
DTimeout ==
  /\ DAt("listen")
  /\ dc' = [dc EXCEPT !.pc = "send", !.waits = IF @ < 2 THEN @ + 1 ELSE @]
  /\ UNCHANGED <<dup, dn>>

\* Every field is set from the packet, or else to its default: the server
\* (option 54, which a server may leave out), and the mask, gateway, resolver
\* and lease, which are those of the packet's sender.
parse_options(c, p) ==
  [c EXCEPT !.srv = IF p.srv \in load.ids THEN p.srv ELSE DNobody, !.opts = p.srv]

\* A packet of this transaction: an OFFER while selecting, an ACK or a NAK
\* while requesting or renewing; any other is parsed and dropped.  The server
\* of an OFFER without option 54 is its sender.
DTake(c, p) ==
  LET q == parse_options(c, p)
  IN CASE c.phase = "select" /\ p.kind = "offer" ->
            [q EXCEPT !.srv = p.srv, !.asked = p.srv, !.offered = p.ip,
                      !.phase = "request", !.retry = 0, !.pc = "send"]
       [] c.phase # "select" /\ p.kind = "ack" -> [q EXCEPT !.ip = p.ip, !.pc = "acked"]
       [] c.phase # "select" /\ p.kind = "nak" -> DFailed(q)
       [] OTHER -> q

\* What server s may answer to p: it offers an address of its own, and grants
\* or refuses what is asked of it.
DAnswers(s, p) ==
  IF p.kind = "discover" THEN {DPacket("offer", p.xid, s, [srv |-> s, xid |-> p.xid])}
  ELSE IF p.srv # s THEN {}
  ELSE {DPacket(kind, p.xid, s, p.ip) : kind \in load.kinds}

\* A datagram arrives; one of another transaction is skipped.  The ghost late
\* says that an acquisition took the answer to the renewal before it, whose
\* number it has.
DReceive(s) ==
  /\ DAt("listen")
  /\ \E p \in dup : \E a \in DAnswers(s, p) :
       dc' = IF a.xid = dc.xid
             THEN [DTake(dc, a) EXCEPT !.late = @ \/ (dc.phase = "request" /\ p.kind = "renew" /\ a.kind = "ack")]
             ELSE dc
  /\ UNCHANGED <<dup, dn>>

\* apply_config after an acquisition: the address with its mask and gateway,
\* and the resolver if there is one.  A renewal configures nothing.
apply_config(c) ==
  [c EXCEPT !.conf = [ip |-> c.ip, opts |-> c.opts],
            !.resolv = IF c.opts \in load.dns THEN c.opts ELSE @]

DBind ==
  /\ DAt("acked")
  /\ dc' = [(IF dc.phase = "renew" THEN dc ELSE apply_config(dc)) EXCEPT !.pc = "bound"]
  /\ UNCHANGED <<dup, dn>>

\* Half the lease is over: the client has slept, and makes a new transaction.
DRenew ==
  /\ DAt("bound") /\ dc.leases > 0
  /\ dc' = [dc EXCEPT !.leases = @ - 1, !.phase = "renew", !.xid = @ + 1, !.retry = 0, !.waits = 0, !.pc = "send"]
  /\ UNCHANGED <<dup, dn>>

(******************************* chronos ***********************************)

DChronos(p) == load.part = "chronos" /\ dn.pc = p

\* socket and sendto; either may fail while there is no network.
DAsk ==
  /\ DChronos("send")
  /\ \/ dn' = [dn EXCEPT !.pc = "recv", !.net = "asked"]
     \/ dn.fails > 0 /\ dn' = [dn EXCEPT !.pc = "sleep", !.fails = @ - 1]
  /\ UNCHANGED <<dc, dup>>

\* The server answers, a few times with too little or with a date before
\* 1970; or one of the two datagrams is lost.
DTell ==
  /\ load.part = "chronos" /\ dn.net = "asked"
  /\ \/ dn' = [dn EXCEPT !.net = "good"]
     \/ dn.bad > 0 /\ dn' = [dn EXCEPT !.net = "bad", !.bad = @ - 1]
  /\ UNCHANGED <<dc, dup>>

DLose ==
  /\ load.part = "chronos" /\ dn.net # "" /\ dn.drops > 0
  /\ dn' = [dn EXCEPT !.net = "", !.drops = @ - 1]
  /\ UNCHANGED <<dc, dup>>

\* recv has no timeout: it returns when a datagram comes.  A good one sets
\* the clock; either way the daemon sleeps, a minute or an hour.
DHear ==
  /\ DChronos("recv") /\ dn.net \in {"good", "bad"}
  /\ dn' = [dn EXCEPT !.pc = "sleep", !.net = "", !.set = @ \/ dn.net = "good"]
  /\ UNCHANGED <<dc, dup>>

DWake ==
  /\ DChronos("sleep")
  /\ dn' = [dn EXCEPT !.pc = "send"]
  /\ UNCHANGED <<dc, dup>>

DhcpInit ==
  /\ dc = [pc |-> IF DOn THEN "begin" ELSE "exit", phase |-> "select", attempt |-> 0, retry |-> 0,
              xid |-> 0, waits |-> 0, late |-> FALSE, srv |-> DNobody, opts |-> DNobody, asked |-> DNobody, offered |-> DNoIp,
              ip |-> DNoIp, conf |-> [ip |-> DNoIp, opts |-> DNobody], resolv |-> DNobody,
              leases |-> IF DOn THEN load.leases ELSE 0, fails |-> IF DOn THEN load.fails ELSE 0]
  /\ dup = {}
  /\ dn = [pc |-> "send", net |-> "", set |-> FALSE,
              fails |-> IF load.part = "chronos" THEN load.fails ELSE 0,
              bad |-> IF load.part = "chronos" THEN load.bad ELSE 0,
              drops |-> IF load.part = "chronos" THEN load.drops ELSE 0]

DhcpNext ==
  \/ DBegin \/ DTransmit \/ DTimeout \/ DBind \/ DRenew
  \/ \E s \in DServers : DReceive(s)
  \/ DAsk \/ DTell \/ DLose \/ DHear \/ DWake

\* What the clients do of themselves, and the time server's answer.
DhcpStep == DBegin \/ DTransmit \/ DTimeout \/ DBind \/ DAsk \/ DTell \/ DHear \/ DWake

(***************************** what must hold ******************************)

\* The kernel is configured with the address that was offered in the client's
\* own transaction and then granted by the server that was asked for it, with
\* the mask and gateway of the same server, whatever old or repeated answers
\* of other servers and transactions arrive in between; a bound client still
\* has that address, the resolver of that server if it names one, and the
\* server to renew with unless the ACK did not name it (main.c:292-350,
\* 423-440).  One exception: an acquisition begun in the second of a refused
\* renewal has the renewal's number, and may take a late ACK of it for its own
\* (main.c:77-83, 345, 430-438); then the address is the one that the client
\* had been granted before, again with what its server says.
DBoundSound ==
  dc.pc = "bound" =>
    /\ dc.conf = [ip |-> dc.ip, opts |-> dc.ip.srv]
    /\ IF dc.late THEN \E p \in dup : p.kind = "renew" /\ p.ip = dc.ip ELSE dc.ip = dc.offered
    /\ dc.opts \in load.dns => dc.resolv = dc.opts
    /\ dc.srv = IF dc.ip.srv \in load.ids THEN dc.ip.srv ELSE DNobody

\* A REQUEST asks a server for what that server offered in the same
\* transaction, and a renewal is for an address that was granted (main.c:329-330,
\* 363-368).
DAsksWhatWasOffered ==
  \A p \in dup : p.kind # "discover" =>
    IF p.kind = "request" THEN p.ip = [srv |-> p.srv, xid |-> p.xid]
    ELSE \E r \in dup : r.kind = "request" /\ r.ip = p.ip

DhcpIntact == DOn => DBoundSound /\ DAsksWhatWasOffered

\* An acquisition or renewal under way; the clock not set though every answer
\* arrives.
DDue ==
  \/ DOn /\ dc.pc \in {"begin", "send", "listen", "acked"}
  \/ load.part = "chronos" /\ load.drops = 0 /\ ~dn.set
=============================================================================
