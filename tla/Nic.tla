-------------------------------- MODULE Nic --------------------------------
(***************************************************************************)
(* The network cards and address resolution: virtio_net.c and rtl8169.c    *)
(* (send and poll), the device table of netdev.c, and the Ethernet and ARP *)
(* layer of eth.c.  The timer interrupt polls the card; a process that     *)
(* resolves an address halts with interrupts on and polls the card itself. *)
(* A frame that must be answered at once, such as an echo request, makes   *)
(* the receive path call arp_resolve in turn.  TCP sends with tcp_lock     *)
(* held, and the timer interrupt takes tcp_lock as well: a CPU that spins  *)
(* on a lock held by a halted sender spins for ever.                       *)
(***************************************************************************)
EXTENDS Integers, Sequences, FiniteSets

CONSTANTS NProc,           \* processes that send
          VIRTQ_SIZE,      \* descriptors of a ring, of either card
          ARP_TABLE_SIZE,
          ArpRounds,       \* rounds of arp_resolve's loop (500 in the code)
          TCP_RETRANSMIT_MAX,
          NestMax          \* bound: calls of arp_resolve in one another that are followed

VARIABLES load, \* the workload of this behaviour
          ncard, \* the rings, shared by the card and its driver
          narp,  \* s_arp_table
          nstk,  \* per process, its nested calls of arp_resolve, outermost first
          ntcp,  \* the holder of tcp_lock, and connections in SYN_SENT as <<address, resends>>
          nwoke, \* processes whose hlt has been ended by an interrupt
          nlog,  \* ghosts: frames arrived, delivered, sent, on the wire, calls
          nodd   \* which of the special situations have happened

nicVars == <<ncard, narp, nstk, ntcp, nwoke, nlog, nodd>>

Desc == 0..(VIRTQ_SIZE - 1)
Entries == 0..(ARP_TABLE_SIZE - 1)

(* eth_init and the ring set-up of virtio_net_init and rtl8169_init: every *)
(* receive descriptor is the card's, every transmit descriptor free.  The  *)
(* first entries of the table may be of addresses resolved long ago.       *)
NoEntry == [valid |-> FALSE, resolved |-> FALSE, ip |-> "none", mac |-> "none"]
NoFrame == [k |-> "none", ip |-> "none", mac |-> "none"]

NicInit ==
    /\ ncard = [avail |-> [i \in Desc |-> i], aidx |-> VIRTQ_SIZE, dev |-> 0,
                used |-> [i \in Desc |-> 0], uidx |-> 0, last |-> 0,
                own |-> [i \in Desc |-> "card"], buf |-> [i \in Desc |-> NoFrame],
                txav |-> [i \in Desc |-> 0], txaidx |-> 0, txuidx |-> 0, txlast |-> 0,
                txhead |-> 0, txbuf |-> [i \in Desc |-> NoFrame], txown |-> [i \in Desc |-> "driver"]]
    /\ narp = [i \in Entries |-> IF load.part = "nic" /\ i < Len(load.known)
                                THEN [valid |-> TRUE, resolved |-> TRUE, ip |-> load.known[i + 1], mac |-> "old"] ELSE NoEntry]
    /\ nstk = [p \in NProc |-> <<>>]
    /\ ntcp = [lock |-> "free", syn |-> {}]
    /\ nwoke = {}
    /\ nlog = [came |-> <<>>, got |-> <<>>, sent |-> <<>>, wire |-> <<>>, calls |-> 0]
    /\ nodd = {}

(* All that the kernel's network code changes, as one record: operators    *)
(* below take and return it, as the C functions call one another.          *)
Only(S) == CHOOSE x \in S : TRUE

World == [c |-> ncard, a |-> narp, t |-> ntcp, l |-> nlog, o |-> nodd]
After(w) == ncard' = w.c /\ narp' = w.a /\ ntcp' = w.t /\ nlog' = w.l /\ nodd' = w.o

(* The CPU runs on: it is caught neither in a poll nor on a lock.          *)
Alive == {"runaway", "spins"} \cap nodd = {}

-----------------------------------------------------------------------------
(* The cards (external): frames in, frames out.                            *)

(* A frame arrives: virtio takes the next available descriptor and posts   *)
(* it on the used ring, the RTL8168 the next descriptor it owns.           *)
Arrive(f) ==
    LET vslot == ncard.avail[ncard.dev % VIRTQ_SIZE]
        rslot == ncard.dev % VIRTQ_SIZE
    IN  /\ Len(nlog.came) < load.frames /\ f \in load.arrive
        /\ \/ /\ load.nic = "virtio" /\ ncard.dev < ncard.aidx
              /\ ncard' = [ncard EXCEPT !.buf[vslot] = f, !.used[ncard.uidx % VIRTQ_SIZE] = vslot,
                                        !.uidx = @ + 1, !.dev = @ + 1]
           \/ /\ load.nic = "rtl" /\ ncard.own[rslot] = "card"
              /\ ncard' = [ncard EXCEPT !.buf[rslot] = f, !.own[rslot] = "driver", !.dev = @ + 1]
        /\ nlog' = [nlog EXCEPT !.came = Append(@, f)]
        /\ UNCHANGED <<narp, nstk, ntcp, nwoke, nodd>>

(* The card sends the next k frames it was given, as their buffers are now.*)
RECURSIVE Transmit(_, _)
Transmit(w, k) ==
    LET s == IF load.nic = "virtio" THEN w.c.txav[w.c.txuidx % VIRTQ_SIZE] ELSE w.c.txuidx % VIRTQ_SIZE
    IN  IF k = 0 THEN w
        ELSE Only({Transmit(x, k - 1) :
                    x \in {[w EXCEPT !.l.wire = Append(@, w.c.txbuf[s]), !.c.txuidx = @ + 1,
                                     !.c.txown[s] = "driver"]}})

Waiting(c) == c.txaidx - c.txuidx

-----------------------------------------------------------------------------
(* The drivers' send.  k: how many frames the card gets out meanwhile.     *)

(* virtio_net_send: the descriptor at tx_head is filled and published, and *)
(* the driver spins for one completion; after a time-out tx_head stays.    *)
virtio_net_send(w, f, k) ==
    LET s == w.c.txhead % VIRTQ_SIZE
        w1 == [w EXCEPT !.c.txbuf[s] = f, !.c.txav[w.c.txaidx % VIRTQ_SIZE] = s, !.c.txaidx = @ + 1]
        w2 == Transmit(w1, IF k < Waiting(w1.c) THEN k ELSE Waiting(w1.c))
    IN  IF w2.c.txuidx # w2.c.txlast
        THEN [w2 EXCEPT !.c.txlast = @ + 1, !.c.txhead = @ + 1]
        ELSE [w2 EXCEPT !.o = @ \cup {"slow"}]

(* rtl8169_send: a frame that finds its descriptor still the chip's is     *)
(* dropped; otherwise OWN is set last and the driver does not wait.        *)
rtl8169_send(w, f, k) ==
    LET s == w.c.txhead % VIRTQ_SIZE
        w1 == [w EXCEPT !.c.txbuf[s] = f, !.c.txown[s] = "card", !.c.txaidx = @ + 1, !.c.txhead = @ + 1]
    IN  IF w.c.txown[s] = "card" THEN [w EXCEPT !.l.sent = SubSeq(@, 1, Len(@) - 1)]
        ELSE Transmit(w1, IF k < Waiting(w1.c) THEN k ELSE Waiting(w1.c))

(* eth_send builds the frame in the one buffer under arp_lock.             *)
eth_send(w, f, k) ==
    LET w1 == [w EXCEPT !.l.sent = Append(@, f)]
    IN  Only({IF load.nic = "virtio" THEN virtio_net_send(x, f, k) ELSE rtl8169_send(x, f, k) : x \in {w1}})

(* The card's queue moves between the driver's calls.                      *)
CardSends ==
    /\ Waiting(ncard) > 0
    /\ LET w == Transmit(World, 1) IN ncard' = w.c /\ nlog' = w.l
    /\ UNCHANGED <<narp, nstk, ntcp, nwoke, nodd>>

-----------------------------------------------------------------------------
(* ARP.                                                                    *)

arp_find(a, ip) == {i \in Entries : a[i].valid /\ a[i].ip = ip}
Resolved(a, ip) == \E i \in arp_find(a, ip) : a[i].resolved
MacOf(a, ip) == a[CHOOSE i \in arp_find(a, ip) : \A j \in arp_find(a, ip) : i <= j].mac

(* arp_insert_pending: nothing for an address that has an entry, else a    *)
(* free slot, else the one with the greatest age.  Ages are only ever set  *)
(* to zero, so that is always the last slot.                               *)
arp_insert_pending(a, ip) ==
    LET free == {i \in Entries : ~a[i].valid}
        at == IF free # {} THEN CHOOSE i \in free : \A j \in free : i <= j ELSE ARP_TABLE_SIZE - 1
    IN  IF arp_find(a, ip) # {} THEN a
        ELSE [a EXCEPT ![at] = [valid |-> TRUE, resolved |-> FALSE, ip |-> ip, mac |-> "none"]]

(* arp_send_request                                                        *)
arp_send_request(w, ip, k) ==
    eth_send([w EXCEPT !.a = arp_insert_pending(@, ip)], [k |-> "ask", ip |-> ip, mac |-> "all"], k)

(* arp_rx_pkt: a reply fills the entry of its sender, if there is one.     *)
arp_rx_pkt(a, f) ==
    [i \in Entries |-> IF i \in arp_find(a, f.ip)
                       THEN [a[i] EXCEPT !.mac = f.mac, !.resolved = TRUE] ELSE a[i]]

Unicast(a, k, ip) == [k |-> k, ip |-> ip, mac |-> MacOf(a, ip)]

(* eth_rx of one frame.  blocks: the answer needs an address that is not   *)
(* known; on the interrupt path arp_resolve then gives up, and the answer  *)
(* is dropped, while in a process it halts and waits.                      *)
Blocks(w, f) == f.k \in {"ping", "seg"} /\ ~Resolved(w.a, f.ip)

(* Segment or echo request: the answer goes out under the lock or without. *)
Answered(w, f, k) ==
    IF Resolved(w.a, f.ip) THEN eth_send(w, Unicast(w.a, IF f.k = "ping" THEN "pong" ELSE "ack", f.ip), k)
    ELSE arp_send_request(w, f.ip, k)

(* tcp_rx takes tcp_lock; the answer to a SYN ends its retransmissions.    *)
tcp_rx(w, f, k) ==
    IF w.t.lock # "free" THEN [w EXCEPT !.o = @ \cup {"spins"}]
    ELSE Answered([w EXCEPT !.t.syn = {e \in @ : e[1] # f.ip}], f, k)

eth_rx(w, f, k) ==
    LET w1 == [w EXCEPT !.l.got = Append(@, f)]
    IN  CASE f.k = "reply" -> [w1 EXCEPT !.a = arp_rx_pkt(@, f)]
          [] f.k = "ping" -> Answered(w1, f, k)
          [] f.k = "seg" -> tcp_rx(w1, f, k)

-----------------------------------------------------------------------------
(* The drivers' poll.                                                      *)

(* Is there a frame to deliver, and in which descriptor?  virtio_net_poll  *)
(* compares indices for inequality only.                                   *)
MoreFrames(c) ==
    IF load.nic = "virtio" THEN c.last # c.uidx ELSE c.own[c.last % VIRTQ_SIZE] = "driver"
NextDesc(c) ==
    IF load.nic = "virtio" THEN c.used[c.last % VIRTQ_SIZE] ELSE c.last % VIRTQ_SIZE

(* After the delivery the descriptor goes back to the card and the         *)
(* driver's position moves on.                                             *)
GiveBack(c, d) ==
    IF load.nic = "virtio"
    THEN [c EXCEPT !.avail[c.aidx % VIRTQ_SIZE] = d, !.aidx = @ + 1, !.last = @ + 1]
    ELSE [c EXCEPT !.own[d] = "card", !.last = @ + 1]

(* The loop of the poll.  inIrq is g_in_netdev_poll.  It ends with no more *)
(* frames, or in a process at a frame whose answer blocks; a position past *)
(* the card's would go on until the 16-bit index comes round.              *)
RECURSIVE Drain(_, _, _)
Drain(w, inIrq, k) ==
    LET d == NextDesc(w.c)
        f == w.c.buf[d]
        w1 == eth_rx(w, f, k)
    IN  IF ~MoreFrames(w.c) THEN [w |-> w, at |-> -1]
        ELSE IF load.nic = "virtio" /\ w.c.last > w.c.uidx
        THEN [w |-> [w EXCEPT !.o = @ \cup {"runaway"}], at |-> -1]
        ELSE IF "spins" \in w1.o THEN [w |-> w1, at |-> -1]
        ELSE IF ~inIrq /\ Blocks(w, f) THEN [w |-> w1, at |-> d]
        ELSE Only({Drain(x, inIrq, k) : x \in {[w1 EXCEPT !.c = GiveBack(@, d)]}})

(* tcp_tick: e is a connection whose retransmission is due, if any.  The   *)
(* SYN, or at last the RST, goes out under tcp_lock and outside            *)
(* netdev_poll_all: to an address that is not known the interrupt handler  *)
(* itself asks and halts, with the lock.                                   *)
tcp_tick(w, due, k) ==
    IF w.t.lock # "free" THEN [w EXCEPT !.o = @ \cup {"spins"}]
    ELSE IF due = {} THEN w
    ELSE LET e == Only(due)
             next == IF e[2] >= TCP_RETRANSMIT_MAX THEN {} ELSE {<<e[1], e[2] + 1>>}
             w1 == [w EXCEPT !.t.syn = (@ \ {e}) \cup next]
         IN  IF Resolved(w.a, e[1]) THEN eth_send(w1, Unicast(w.a, "syn", e[1]), k)
             ELSE arp_send_request([w1 EXCEPT !.t.lock = "tick"], e[1], k)

(* Mutant: the halt is entered with interrupts off, and nobody is woken.   *)
Mut_NicTick(due, k) ==
    LET busy == \E p \in NProc : Len(nstk[p]) > 1
    IN  /\ Alive /\ (MoreFrames(ncard) \/ due # {} \/ ntcp.lock = "tick" \/ \E p \in NProc : nstk[p] # <<>> /\ p \notin nwoke)
        /\ \E r \in {Drain(World, TRUE, k)} : \E w \in {IF "runaway" \in r.w.o THEN r.w ELSE tcp_tick(r.w, due \cap r.w.t.syn, k)} :
             After([w EXCEPT !.o = @ \cup (IF busy /\ MoreFrames(ncard) THEN {"polled twice"} ELSE {})])
        /\ UNCHANGED <<nstk, nwoke>>

(* The timer interrupt, pit_handler: netdev_poll_all, then tcp_tick, while *)
(* some process is halted or no process runs kernel code.                  *)
NicTick(due, k) ==
    LET busy == \E p \in NProc : Len(nstk[p]) > 1
    IN  /\ Alive /\ (MoreFrames(ncard) \/ due # {} \/ ntcp.lock = "tick" \/ \E p \in NProc : nstk[p] # <<>> /\ p \notin nwoke)
        /\ \E r \in {Drain(World, TRUE, k)} : \E w \in {IF "runaway" \in r.w.o THEN r.w ELSE tcp_tick(r.w, due \cap r.w.t.syn, k)} :
             After([w EXCEPT !.o = @ \cup (IF busy /\ MoreFrames(ncard) THEN {"polled twice"} ELSE {})])
        /\ nwoke' = {p \in NProc : nstk[p] # <<>>}
        /\ UNCHANGED nstk

-----------------------------------------------------------------------------
(* arp_resolve in a process.                                               *)

(* A process sends to an address: at once if it is known, else it asks and *)
(* waits.  The call may find the table full and evict another's entry.     *)
(* how: a datagram; tcp_connect, which sends its SYN after it has released *)
(* tcp_lock and leaves it to tcp_tick to send it again; or tcp_conn_send   *)
(* and tcp_conn_close, which keep tcp_lock until the segment is out, on an *)
(* old connection whose address may have left the table since.             *)
Send(p, ip, how, k) ==
    LET held == ntcp.lock # "free" /\ how # "udp"
        w0 == [World EXCEPT !.l.calls = @ + 1, !.t.syn = IF how = "syn" THEN @ \cup {<<ip, 0>>} ELSE @]
        ask == arp_send_request([w0 EXCEPT !.t.lock = IF how = "tcp" THEN p ELSE @], ip, k)
        out == eth_send(w0, Unicast(narp, "data", ip), k)
    IN  /\ nstk[p] = <<>> /\ nlog.calls < load.calls /\ Alive
        /\ \E w \in {IF held THEN [w0 EXCEPT !.t = ntcp, !.o = @ \cup {"spins"}] ELSE IF Resolved(narp, ip) THEN out ELSE ask} :
             After(w)
        /\ nstk' = IF held \/ Resolved(narp, ip) THEN nstk
                   ELSE [nstk EXCEPT ![p] = <<[ip |-> ip, n |-> 0, st |-> "hlt", desc |-> -1, k |-> "data", lk |-> how = "tcp"]>>]
        /\ nwoke' = nwoke \ {p}

Top(p) == nstk[p][Len(nstk[p])]

(* The interrupt of another device ends the halt as well.                  *)
OtherIrq(p) ==
    /\ nstk[p] # <<>> /\ p \notin nwoke /\ Alive /\ load.irqs
    /\ nwoke' = nwoke \cup {p} /\ UNCHANGED <<ncard, narp, nstk, ntcp, nlog, nodd>>

(* The halt is over: the process polls the card itself.  A segment that    *)
(* cannot be answered yet keeps tcp_lock.                                  *)
Poll(p, k) ==
    LET n == Len(nstk[p])
    IN  /\ nstk[p] # <<>> /\ n <= NestMax /\ Alive
        /\ \/ Top(p).st = "hlt" /\ p \in nwoke
           \/ Top(p).st = "poll"
        /\ \E r \in {Drain(World, FALSE, k)} :
             LET f == r.w.c.buf[r.at]
                 lk == r.at # -1 /\ f.k = "seg"
             IN  /\ After([r.w EXCEPT !.t.lock = IF lk THEN p ELSE @,
                                      !.o = @ \cup (IF MoreFrames(ncard) /\ \E q \in NProc : Len(nstk[q]) > 1
                                                    THEN {"polled twice"} ELSE {})])
                 /\ nstk' = IF r.at = -1 THEN [nstk EXCEPT ![p][n].st = "check"]
                            ELSE [nstk EXCEPT ![p] = Append([@ EXCEPT ![n].st = "poll"],
                                     [ip |-> f.ip, n |-> 0, st |-> "hlt", desc |-> r.at, k |-> IF lk THEN "ack" ELSE "pong", lk |-> lk])]
        /\ nwoke' = nwoke \ {p}

Over(ok, n) == ok \/ n + 1 >= ArpRounds

(* The entry is looked up again; after the last round the call fails.  A   *)
(* call made from a poll answers, and that poll's descriptor goes back;    *)
(* whoever took tcp_lock releases it.                                      *)
Check(p, k) ==
    LET t == Top(p)
        n == Len(nstk[p])
        ok == Resolved(narp, t.ip)
        sent == IF ok THEN eth_send(World, Unicast(narp, t.k, t.ip), k) ELSE World
        done == [sent EXCEPT !.t.lock = IF t.lk THEN "free" ELSE @]
    IN  /\ nstk[p] # <<>> /\ Top(p).st = "check" /\ Alive
        /\ IF Over(ok, t.n)
           THEN /\ \E w \in {IF n > 1 THEN [done EXCEPT !.c = GiveBack(@, t.desc)] ELSE done} : After(w)
                /\ nstk' = [nstk EXCEPT ![p] = SubSeq(@, 1, n - 1)]
           ELSE /\ nstk' = [nstk EXCEPT ![p][n] = [t EXCEPT !.n = @ + 1, !.st = "hlt"]]
                /\ UNCHANGED <<ncard, narp, ntcp, nlog, nodd>>
        /\ UNCHANGED nwoke

NicIn(A) == load.part = "nic" /\ A /\ UNCHANGED load

NicNext ==
    NicIn(\/ \E f \in load.arrive : Arrive(f)
          \/ CardSends
          \/ \E k \in load.speed : NicTick({}, k) \/ \E e \in ntcp.syn : NicTick({e}, k)
          \/ \E p \in NProc, k \in load.speed :
                \/ \E s \in load.sends[p] : Send(p, s[1], s[2], k)
                \/ OtherIrq(p) \/ Poll(p, k) \/ Check(p, k))

(* The timer goes on ticking and a process that is not halted runs on.     *)
NicFair ==
    /\ WF_nicVars(NicIn(\E k \in load.speed : NicTick({}, k)))
    /\ \A p \in NProc : WF_nicVars(NicIn(\E k \in load.speed : Poll(p, k) \/ Check(p, k)))

-----------------------------------------------------------------------------
(* Properties.                                                             *)

Quiet == {"polled twice", "runaway"} \cap nodd = {}

IsPrefix(s, t) == Len(s) <= Len(t) /\ \A i \in 1..Len(s) : s[i] = t[i]

(* Each frame the card received is delivered once and in order, and every  *)
(* receive descriptor is in one place: with the card, unread, or being     *)
(* delivered - also when process and interrupt take turns at polling, but  *)
(* not when the card is polled while a process is halted in a delivery.    *)
NicReceive ==
    Quiet =>
      /\ IsPrefix(nlog.got, nlog.came)
      /\ load.nic = "virtio" =>
           LET free == {ncard.avail[i % VIRTQ_SIZE] : i \in ncard.dev..(ncard.aidx - 1)}
               full == {ncard.used[i % VIRTQ_SIZE] : i \in ncard.last..(ncard.uidx - 1)}
           IN  /\ ncard.last <= ncard.uidx
               /\ free \cap full = {} /\ free \cup full = Desc
               /\ ncard.aidx - ncard.dev = Cardinality(free)

(* Frames leave in the order they were handed over, each once and          *)
(* unchanged, unless a transmit timed out: then tx_head stays and the next *)
(* frame overwrites one that was published.                                *)
NicTransmit == "slow" \notin nodd => IsPrefix(nlog.wire, nlog.sent)

(* The ARP table holds one entry per address, and what goes out to an      *)
(* address carries the hardware address of a reply for that address.       *)
NicArp ==
    /\ \A i, j \in Entries : (narp[i].valid /\ narp[j].valid /\ narp[i].ip = narp[j].ip) => i = j
    /\ \A n \in 1..Len(nlog.sent) : nlog.sent[n].k # "ask" =>
          \E m \in 1..Len(nlog.came) :
             nlog.came[m].k = "reply" /\ nlog.came[m].ip = nlog.sent[n].ip /\ nlog.came[m].mac = nlog.sent[n].mac

(* A process is inside arp_resolve, no process is halted inside a delivery *)
(* that another poll repeats, and the CPU does not spin.  It does when the *)
(* timer comes while tcp_lock is held across such a wait, by               *)
(* tcp_conn_send, tcp_conn_close, the answer to a segment or tcp_tick:     *)
(* the interrupt handler waits for the lock, and nobody runs again.        *)
NicDue == load.part = "nic" /\ Quiet /\ "spins" \notin nodd /\ \E p \in NProc : nstk[p] # <<>>
=============================================================================
