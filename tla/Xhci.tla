------------------------------- MODULE Xhci -------------------------------
(***************************************************************************)
(* The USB input path: the xHCI host controller driver (drivers/xhci.c)    *)
(* that xhci_poll runs from the timer interrupt, the boot-protocol         *)
(* keyboard and mouse drivers above it (usb_hid.c, usb_mouse.c) and the    *)
(* PS/2 mouse (ps2_mouse.c) that feeds the same ring.  The controller, the *)
(* ports and the devices are external: they run between any two steps of   *)
(* the driver, which waits for them by spinning with interrupts off.       *)
(***************************************************************************)
EXTENDS Integers, Sequences, FiniteSets

CONSTANTS XHCI_MAX_SLOTS, XHCI_MAX_PORTS, XHCI_CMD_RING_SIZE,
          XHCI_EVT_RING_SIZE, XHCI_TRANSFER_RING_SIZE, MOUSE_BUF_SIZE

VARIABLES load,  \* the workload of this behaviour
          uport, \* the root ports: device, CSC and PRC change bits
          uhc,   \* the controller: ring positions, enabled slots, endpoints
          udrv,  \* the driver: where it stands, its rings, what is pending
          uslot, \* the s_* arrays indexed by slot
          uin,   \* input: s_prev_report, the mouse ring, what was sent and read
          uodd   \* which of the special situations have happened

usbVars == <<uport, uhc, udrv, uslot, uin, uodd>>

Ports == 1..XHCI_MAX_PORTS
Slots == 1..(XHCI_MAX_SLOTS - 1)
Least(S) == CHOOSE x \in S : \A y \in S : x <= y

(* A ring of TRBs; the last entry of a producer's ring is the Link TRB.    *)
(* alloc_page zeroes the page, so no entry has the producer's cycle bit.   *)
NoTrb == [t |-> "none", c |-> 0, slot |-> 0, port |-> 0, ok |-> FALSE]
Trb(t, c, s, p, ok) == [t |-> t, c |-> c, slot |-> s, port |-> p, ok |-> ok]
ZeroRing(n) == [i \in 0..(n - 1) |-> NoTrb]
LinkedRing(n) == [ZeroRing(n) EXCEPT ![n - 1] = Trb("link", 1, 0, 0, TRUE)]

NoSlot == [hid |-> FALSE, type |-> "none", port |-> 0, buf |-> <<>>, enq |-> 0,
           cyc |-> 1, ring |-> LinkedRing(XHCI_TRANSFER_RING_SIZE)]

(* Before xhci_init has run: no controller adopted, nothing allocated.     *)
UsbInit ==
    /\ uport = [p \in Ports |-> [dev |-> "none", csc |-> FALSE]]
    /\ uhc = [enq |-> 0, pcs |-> 1, cdeq |-> 0, ccs |-> 1, on |-> {}, ctl |-> {},
              ep |-> [s \in Slots |-> [deq |-> 0, ccs |-> 1]], posted |-> 0, n |-> 0]
    /\ udrv = [pc |-> "off", deq |-> 0, cyc |-> 1, enq |-> 0, ccyc |-> 1,
               cmds |-> LinkedRing(XHCI_CMD_RING_SIZE), evts |-> ZeroRing(XHCI_EVT_RING_SIZE),
               pend |-> {}, todo |-> {}, step |-> "none", port |-> 0, sid |-> 0,
               active |-> FALSE, read |-> 0]
    /\ uslot = [s \in Slots |-> NoSlot]
    /\ uin = [prev |-> <<>>, keys |-> <<>>, mouse |-> <<>>, ps2 |-> <<>>,
              sent |-> <<>>, due |-> <<>>, down |-> <<>>]
    /\ uodd = {}

-----------------------------------------------------------------------------
(* The controller (external).  It writes an event unless the ring is full, *)
(* which it judges by the dequeue pointer update_erdp last wrote.          *)

EventRoom == (uhc.enq + 1) % XHCI_EVT_RING_SIZE # udrv.deq

Posts(hc, evts, t, s, p, ok) ==
    [evts EXCEPT ![hc.enq] = Trb(t, hc.pcs, s, p, ok)]

Posted(hc) ==
    [hc EXCEPT !.enq = (@ + 1) % XHCI_EVT_RING_SIZE,
               !.pcs = IF hc.enq + 1 = XHCI_EVT_RING_SIZE THEN 1 - @ ELSE @,
               !.posted = @ + 1]

(* Where the controller stops on a slot's transfer ring: it follows the    *)
(* Link TRB, passes over control TRBs of the shared ring and stops at a    *)
(* Normal TRB or at an entry whose cycle bit is not its own.               *)
RECURSIVE Fetch(_, _, _)
Fetch(ring, d, c) ==
    IF ring[d].c # c THEN [deq |-> d, ccs |-> c, found |-> FALSE]
    ELSE IF ring[d].t = "link" THEN Fetch(ring, 0, 1 - c)
    ELSE IF ring[d].t = "normal" THEN [deq |-> d, ccs |-> c, found |-> TRUE]
    ELSE Fetch(ring, d + 1, c)

Armed(s) == Fetch(uslot[s].ring, uhc.ep[s].deq, uhc.ep[s].ccs)

(* A device answers the outstanding interrupt IN transfer: the report goes *)
(* to the slot's buffer and a transfer event to the event ring.  A device  *)
(* that was pulled out answers with an error and leaves the buffer alone.  *)
Report(s, r) ==
    LET a == Armed(s)
        d == uport[uslot[s].port].dev
        gone == d # uslot[s].type
    IN  /\ s \in uhc.on /\ uslot[s].hid /\ a.found /\ EventRoom
        /\ uhc.n < load.reports
        /\ r \in load.says[uslot[s].type]
        /\ uhc' = [Posted(uhc) EXCEPT !.ep[s] = [deq |-> a.deq + 1, ccs |-> a.ccs], !.n = @ + 1]
        /\ udrv' = [udrv EXCEPT !.evts = Posts(uhc, @, "xfer", s, 0, ~gone)]
        /\ uslot' = IF gone THEN uslot ELSE [uslot EXCEPT ![s].buf = r]
        /\ uin' = IF gone THEN uin
                  ELSE IF d = "mouse"
                  THEN [uin EXCEPT !.sent = Append(@, r)]
                  ELSE [uin EXCEPT !.down = r,
                                   !.due = @ \o SelectSeq(r, LAMBDA k :
                                              \A i \in 1..Len(uin.down) : uin.down[i] # k)]
        /\ uodd' = IF gone THEN uodd \cup {"error"} ELSE uodd
        /\ UNCHANGED uport

(* The controller takes the next command of the command ring.              *)
CmdDone ==
    LET c == udrv.cmds[uhc.cdeq]
        free == Slots \ uhc.on
        got == IF c.t = "enable" THEN (IF free = {} THEN 0 ELSE Least(free)) ELSE c.slot
        ok == CASE c.t = "enable" -> free # {}
                [] c.t = "disable" -> TRUE
                [] OTHER -> c.slot \in uhc.on /\ uport[c.port].dev # "none"
        h == [uhc EXCEPT !.cdeq = @ + 1,
                         !.on = CASE c.t = "enable" /\ ok -> @ \cup {got}
                                  [] c.t = "disable" -> @ \ {got}
                                  [] OTHER -> @,
                         !.ep = IF c.t = "configure" /\ ok
                                THEN [@ EXCEPT ![got] = [deq |-> 0, ccs |-> 1]] ELSE @]
    IN  /\ udrv.pc # "off" /\ c.c = uhc.ccs
        /\ IF c.t = "link"
           THEN uhc' = [uhc EXCEPT !.cdeq = 0, !.ccs = 1 - @] /\ UNCHANGED udrv
           ELSE /\ EventRoom
                /\ uhc' = Posted(h)
                /\ udrv' = [udrv EXCEPT !.evts = Posts(uhc, @, "cmd", got, 0, ok)]
        /\ UNCHANGED <<uport, uslot, uin, uodd>>

(* EP0 runs a control transfer: GET_DESCRIPTOR leaves the descriptor in    *)
(* the buffer (here: the interface's protocol), SET_PROTOCOL nothing.      *)
CtlDone(x) ==
    LET d == uport[x.port].dev
    IN  /\ x \in uhc.ctl /\ EventRoom
        /\ uhc' = [Posted(uhc) EXCEPT !.ctl = @ \ {x}]
        /\ udrv' = [udrv EXCEPT !.evts = Posts(uhc, @, "xfer", x.slot, 0, d # "none")]
        /\ uslot' = IF x.get /\ d # "none" THEN [uslot EXCEPT ![x.slot].buf = <<d>>] ELSE uslot
        /\ UNCHANGED <<uport, uin, uodd>>

(* A plug goes in or out: CCS follows, CSC is latched, and a Port Status   *)
(* Change event is posted if no change bit was set before.                 *)
Plug(p, d) ==
    LET now == uport[p].dev
        tell == ~uport[p].csc /\ udrv.pc # "off"
    IN  /\ uhc.n < load.reports /\ p \in load.ports
        /\ (now = "none") # (d = "none")
        /\ d = "none" => load.unplug /\ udrv.pc # "off"
        /\ tell => EventRoom
        /\ uport' = [uport EXCEPT ![p] = [dev |-> d, csc |-> udrv.pc # "off"]]
        /\ uhc' = [IF tell THEN Posted(uhc) ELSE uhc EXCEPT !.n = @ + 1]
        /\ udrv' = IF tell THEN [udrv EXCEPT !.evts = Posts(uhc, @, "port", 0, p, TRUE)] ELSE udrv
        /\ uodd' = uodd \cup (IF d = "none" THEN {"pulled"} ELSE {})
                        \cup (IF uport[p].csc THEN {"replaced"} ELSE {})
                        \cup (IF \E q \in Ports \ {p} : uport[q].dev = "kbd" /\ d = "kbd"
                              THEN {"two keyboards"} ELSE {})
        /\ uin' = IF now = "kbd" THEN [uin EXCEPT !.down = <<>>] ELSE uin
        /\ UNCHANGED uslot

-----------------------------------------------------------------------------
(* Input: the reports the driver hands up.                                 *)

(* usb_hid_process_report: the keys of this report that were not in the    *)
(* previous one are typed, an arrow as its three-character sequence.       *)
Fresh(prev, r) == SelectSeq(r, LAMBDA k : \A i \in 1..Len(prev) : prev[i] # k)

RECURSIVE Typed(_)
Typed(ks) ==
    IF ks = <<>> THEN <<>>
    ELSE (IF Head(ks) = "up" THEN <<"esc", "bracket", "A">> ELSE <<Head(ks)>>) \o Typed(Tail(ks))

usb_hid_process_report(in, r) ==
    [in EXCEPT !.keys = @ \o Typed(Fresh(in.prev, r)), !.prev = r]

(* buf_push of usb_mouse.c: an event that finds the ring full is dropped.  *)
MouseRoom(in) == Len(in.mouse) < MOUSE_BUF_SIZE - 1
buf_push(in, e) == IF MouseRoom(in) THEN [in EXCEPT !.mouse = Append(@, e)] ELSE in

(* usb_mouse_process_report                                                *)
usb_mouse_process_report(in, r) == buf_push(in, r)

(* mouse_read_fn drains what is there (mouse_poll until the ring is empty).*)
MouseRead ==
    /\ uin.mouse # <<>>
    /\ uin' = [uin EXCEPT !.mouse = <<>>, !.sent = SubSeq(@, Len(uin.mouse) + 1, Len(@))]
    /\ UNCHANGED <<uport, uhc, udrv, uslot, uodd>>

(* ps2_mouse_handler: a first byte without the always-one bit is thrown    *)
(* away, three bytes make a packet, an overflowing packet is dropped.      *)
Ps2Handler(in, b) ==
    LET pkt == Append(in.ps2, b)
    IN  IF in.ps2 = <<>> /\ ~b.sync THEN in
        ELSE IF Len(pkt) < 3 THEN [in EXCEPT !.ps2 = pkt]
        ELSE IF pkt[1].over THEN [in EXCEPT !.ps2 = <<>>]
        ELSE buf_push([in EXCEPT !.ps2 = <<>>], <<pkt[1].v, pkt[2].v, pkt[3].v>>)

(* One interrupt per byte of a packet; a byte may be lost on the wire      *)
(* (ps2_mouse_init has unmasked IRQ 12 before the first).                  *)
Ps2Packet(pkt, lost) ==
    LET in0 == uin
        in1 == IF lost = 1 THEN in0 ELSE Ps2Handler(in0, pkt[1])
        in2 == IF lost = 2 THEN in1 ELSE Ps2Handler(in1, pkt[2])
        in3 == IF lost = 3 THEN in2 ELSE Ps2Handler(in2, pkt[3])
    IN  /\ pkt \in load.packets /\ lost \in load.lost
        /\ uhc.n < load.reports
        /\ uhc' = [uhc EXCEPT !.n = @ + 1]
        /\ uin' = IF pkt[1].over THEN in3
                  ELSE [in3 EXCEPT !.sent = Append(@, <<pkt[1].v, pkt[2].v, pkt[3].v>>)]
        /\ uodd' = uodd \cup (IF lost # 0 THEN {"lost byte"} ELSE {})
                        \cup (IF ~MouseRoom(uin) THEN {"full"} ELSE {})
                        \cup (IF \E s \in Slots : uslot[s].hid THEN {"crossed"} ELSE {})
        /\ UNCHANGED <<uport, udrv, uslot>>

-----------------------------------------------------------------------------
(* The driver's rings.                                                     *)

(* enqueue_cmd: at the last entry the Link TRB takes the current cycle bit *)
(* and the producer's cycle bit flips.                                     *)
enqueue_cmd(d, t, s, p) ==
    LET r == [d.cmds EXCEPT ![d.enq] = Trb(t, d.ccyc, s, p, TRUE)]
        last == XHCI_CMD_RING_SIZE - 1
    IN  IF d.enq + 1 = last
        THEN [d EXCEPT !.cmds = [r EXCEPT ![last] = Trb("link", d.ccyc, 0, 0, TRUE)],
                       !.ccyc = 1 - @, !.enq = 0]
        ELSE [d EXCEPT !.cmds = r, !.enq = @ + 1]

(* The driver issues a command and spins for its completion.               *)
Issue(d, t, s, p) == [enqueue_cmd(d, t, s, p) EXCEPT !.pc = "wait", !.step = t]

(* The commands of enumerate_port and of the disconnect branch, which fill *)
(* in the contexts of the slot first.                                      *)
issue_enable_slot(d) == Issue(d, "enable", 0, d.port)
issue_disable_slot(d, s, p) == [Issue(d, "disable", s, p) EXCEPT !.sid = s]
issue_address_device(d, s) == [Issue(d, "address", s, d.port) EXCEPT !.sid = s]
issue_configure_ep(d) == Issue(d, "configure", d.sid, d.port)

(* xhci_schedule_interrupt_in: one Normal TRB; at the wrap the Link TRB is *)
(* rewritten with the flipped cycle bit.                                   *)
xhci_schedule_interrupt_in(sl) ==
    LET last == XHCI_TRANSFER_RING_SIZE - 1
        r == [sl.ring EXCEPT ![sl.enq] = Trb("normal", sl.cyc, 0, 0, TRUE)]
    IN  IF sl.enq + 1 >= last
        THEN [sl EXCEPT !.cyc = 1 - @, !.enq = 0,
                        !.ring = [r EXCEPT ![last] = Trb("link", 1 - sl.cyc, 0, 0, TRUE)]]
        ELSE [sl EXCEPT !.ring = r, !.enq = @ + 1]

Wraps(sl) == sl.enq + 1 >= XHCI_TRANSFER_RING_SIZE - 1

(* issue_control_transfer puts Setup, Data if any, and Status on the ring. *)
RECURSIVE Put(_, _)
Put(sl, ts) ==
    IF ts = <<>> THEN sl
    ELSE Put([sl EXCEPT !.ring[sl.enq] = Trb(Head(ts), sl.cyc, 0, 0, TRUE), !.enq = @ + 1], Tail(ts))

(* Advancing s_evt_dequeue; update_erdp tells the controller.              *)
Advance(d) ==
    [d EXCEPT !.deq = (@ + 1) % XHCI_EVT_RING_SIZE,
              !.cyc = IF d.deq + 1 >= XHCI_EVT_RING_SIZE THEN 1 - @ ELSE @,
              !.read = @ + 1]

Event == udrv.evts[udrv.deq]
EventThere == Event.c = udrv.cyc

(* xhci_init: the controllers in turn, until one comes up and has a device *)
(* connected; that one's ports are enumerated before polling starts.  A    *)
(* controller that does not stop, reset or start in time is passed over.   *)
xhci_init_one == load.board # "broken" /\ \E p \in Ports : uport[p].dev # "none"
XhciInit ==
    /\ udrv.pc = "off"
    /\ udrv' = [udrv EXCEPT !.pc = IF xhci_init_one THEN "enum" ELSE "dead",
                            !.todo = Ports]
    /\ UNCHANGED <<uport, uhc, uslot, uin, uodd>>

(* The timer interrupt calls xhci_poll.                                    *)
XhciTick ==
    /\ udrv.pc = "idle"
    /\ EventThere \/ udrv.pend # {}
    /\ udrv' = [udrv EXCEPT !.pc = "drain"]
    /\ UNCHANGED <<uport, uhc, uslot, uin, uodd>>

(* xhci_poll, one event: a transfer event of a HID slot.  Its completion   *)
(* code is only printed: the buffer goes up and the next transfer is armed.*)
DrainReport ==
    LET s == Event.slot
    IN  /\ udrv.pc = "drain" /\ EventThere
        /\ Event.t = "xfer" /\ uslot[s].hid
        /\ uin' = IF uslot[s].type = "kbd"
                  THEN usb_hid_process_report(uin, uslot[s].buf)
                  ELSE usb_mouse_process_report(uin, uslot[s].buf)
        /\ uslot' = [uslot EXCEPT ![s] = xhci_schedule_interrupt_in(@)]
        /\ udrv' = Advance(udrv)
        /\ uodd' = uodd \cup (IF Wraps(uslot[s]) THEN {"wrapped"} ELSE {})
                        \cup (IF uslot[s].type = "mouse" /\ ~MouseRoom(uin) THEN {"full"} ELSE {})
        /\ UNCHANGED <<uport, uhc>>

(* xhci_poll, one event: a port status change.  The change bits are        *)
(* cleared; a new device is left for the end of the drain, and the slot of *)
(* a device that went is disabled at once.                                 *)
DrainPort ==
    LET p == Event.port
        gone == {s \in Slots : uslot[s].hid /\ uslot[s].port = p}
    IN  /\ udrv.pc = "drain" /\ EventThere /\ Event.t = "port"
        /\ uport' = [uport EXCEPT ![p].csc = FALSE]
        /\ udrv' = IF uport[p].csc /\ uport[p].dev = "none" /\ gone # {}
                   THEN issue_disable_slot(udrv, Least(gone), p)
                   ELSE Advance([udrv EXCEPT !.pend = IF uport[p].csc /\ uport[p].dev # "none"
                                                      THEN @ \cup {p} ELSE @])
        /\ UNCHANGED <<uhc, uslot, uin, uodd>>

(* xhci_poll, one event: anything else is passed over.                     *)
DrainOther ==
    /\ udrv.pc = "drain" /\ EventThere
    /\ Event.t = "cmd" \/ (Event.t = "xfer" /\ ~uslot[Event.slot].hid)
    /\ udrv' = Advance(udrv)
    /\ UNCHANGED <<uport, uhc, uslot, uin, uodd>>

(* The ring is drained: the ports left for later are enumerated.           *)
DrainEnd ==
    /\ udrv.pc = "drain" /\ ~EventThere
    /\ udrv' = [udrv EXCEPT !.pc = "enum", !.todo = udrv.pend, !.pend = {}]
    /\ UNCHANGED <<uport, uhc, uslot, uin, uodd>>

(* enumerate_port up to Enable Slot: nothing to do for a port that has a   *)
(* slot or no device; the reset latches PRC, which the driver clears, and  *)
(* posts a port event; a port that does not come out of reset is left.     *)
Enumerated(p) == \E s \in Slots : uslot[s].hid /\ uslot[s].port = p

enumerate_port(reset) ==
    LET p == Least(udrv.todo)
        d == [udrv EXCEPT !.todo = @ \ {p}, !.port = p]
    IN  /\ udrv.pc = "enum" /\ udrv.todo # {}
        /\ IF Enumerated(p) \/ uport[p].dev = "none"
           THEN reset /\ udrv' = d /\ UNCHANGED <<uhc, uodd>>
           ELSE IF ~reset
           THEN load.timeouts /\ udrv' = d /\ uodd' = uodd \cup {"late"} /\ UNCHANGED uhc
           ELSE /\ UNCHANGED uodd
                /\ IF uport[p].csc
                   THEN udrv' = issue_enable_slot(d) /\ UNCHANGED uhc
                   ELSE /\ EventRoom
                        /\ udrv' = issue_enable_slot([d EXCEPT !.evts = Posts(uhc, @, "port", 0, p, TRUE)])
                        /\ uhc' = Posted(uhc)
        /\ UNCHANGED <<uport, uslot, uin>>

(* All ports done: polling is on.                                          *)
EnumEnd ==
    /\ udrv.pc = "enum" /\ udrv.todo = {}
    /\ udrv' = [udrv EXCEPT !.pc = "idle", !.active = TRUE]
    /\ UNCHANGED <<uport, uhc, uslot, uin, uodd>>

(* What the driver does with the answer it was spinning for.               *)
Stop(d) == [d EXCEPT !.pc = "enum", !.step = "none"]

Kind(step) == IF step \in {"descr", "setproto"} THEN "xfer" ELSE "cmd"

(* After poll_cmd_completion returned in the drain: the slot is forgotten, *)
(* and the loop steps over an event once more (next_trb).                  *)
AfterDisable(d) == Advance([d EXCEPT !.pc = "drain", !.step = "none"])

NextStep(d, sid) ==
    CASE d.step = "enable" -> issue_address_device(d, sid)
      [] d.step = "address" -> issue_configure_ep(d)
      [] d.step = "configure" -> [d EXCEPT !.step = "descr"]
      [] d.step = "descr" -> [d EXCEPT !.step = "setproto"]
      [] d.step = "setproto" -> Stop(d)

Protocol(s) == IF uslot[s].buf = <<"kbd">> \/ uslot[s].buf = <<"mouse">> THEN uslot[s].buf[1] ELSE "none"

(* The rest of enumerate_port after an answer, or of the disconnect branch.*)
(* ok: the command or transfer succeeded; sid: the slot the answer names.  *)
Answer(d, ok, sid) ==
    CASE d.step = "disable" ->
            /\ uslot' = [uslot EXCEPT ![d.sid] = [@ EXCEPT !.hid = FALSE, !.type = "none", !.port = 0]]
            /\ udrv' = AfterDisable(d)
            /\ UNCHANGED uhc
      [] d.step # "disable" /\ ~ok /\ d.step # "setproto" ->
            /\ udrv' = Stop(d)
            /\ UNCHANGED <<uslot, uhc>>
      [] d.step = "enable" /\ ok ->
            /\ uslot' = [uslot EXCEPT ![sid] = [NoSlot EXCEPT !.hid = uslot[sid].hid,
                                                   !.type = uslot[sid].type, !.port = uslot[sid].port]]
            /\ udrv' = NextStep(d, sid)
            /\ UNCHANGED uhc
      [] d.step = "address" /\ ok ->
            /\ udrv' = NextStep(d, sid)
            /\ UNCHANGED <<uslot, uhc>>
      [] d.step = "configure" /\ ok ->
            /\ uslot' = [uslot EXCEPT ![d.sid] = Put(@, <<"setup", "data", "status">>)]
            /\ uhc' = [uhc EXCEPT !.ctl = @ \cup {[slot |-> d.sid, port |-> d.port, get |-> TRUE]}]
            /\ udrv' = NextStep(d, sid)
      [] d.step = "descr" /\ ok ->
            IF Protocol(d.sid) = "none"
            THEN udrv' = Stop(d) /\ UNCHANGED <<uslot, uhc>>
            ELSE /\ uslot' = [uslot EXCEPT ![d.sid] = Put(@, <<"setup", "status">>)]
                 /\ uhc' = [uhc EXCEPT !.ctl = @ \cup {[slot |-> d.sid, port |-> d.port, get |-> FALSE]}]
                 /\ udrv' = NextStep(d, sid)
      [] d.step = "setproto" ->
            /\ uslot' = [uslot EXCEPT ![d.sid] =
                  xhci_schedule_interrupt_in([@ EXCEPT !.hid = TRUE, !.type = Protocol(d.sid),
                                                       !.port = d.port])]
            /\ udrv' = NextStep(d, sid)
            /\ UNCHANGED uhc

(* poll_cmd_completion and the wait of issue_control_transfer: events of   *)
(* another kind are consumed and dropped; a transfer event of any slot is  *)
(* taken for the control transfer's.                                       *)
WaitEvent ==
    LET e == Event
        mine == e.t = Kind(udrv.step)
        drops == \/ e.t = "xfer" /\ uslot[e.slot].hid
                 \/ e.t = "port" /\ uport[e.port].csc
    IN  /\ udrv.pc = "wait" /\ EventThere
        /\ IF mine THEN Answer(Advance(udrv), e.ok, e.slot)
           ELSE udrv' = Advance(udrv) /\ UNCHANGED <<uslot, uhc>>
        /\ uodd' = uodd \cup (IF drops THEN {"skipped"} ELSE {})
                        \cup (IF mine /\ udrv.step = "disable" THEN {"re-entered"} ELSE {})
        /\ UNCHANGED <<uport, uin>>

(* The wait runs out first; the answer may still come.                     *)
WaitTimeout ==
    /\ udrv.pc = "wait" /\ ~EventThere /\ load.timeouts /\ "late" \notin uodd
    /\ Answer(udrv, FALSE, 0)
    /\ uodd' = uodd \cup {"late"} \cup (IF udrv.step = "disable" THEN {"re-entered"} ELSE {})
    /\ UNCHANGED <<uport, uin>>

UsbIn(A) == load.part = "usb" /\ A /\ UNCHANGED load

UsbDriver ==
    \/ XhciInit \/ XhciTick \/ DrainReport \/ DrainPort \/ DrainOther \/ DrainEnd
    \/ enumerate_port(TRUE) \/ EnumEnd \/ WaitEvent

UsbHardware == CmdDone \/ \E x \in uhc.ctl : CtlDone(x)

UsbNext ==
    UsbIn(\/ UsbDriver \/ UsbHardware
          \/ enumerate_port(FALSE) \/ WaitTimeout \/ MouseRead
          \/ \E p \in Ports, d \in load.devs \cup {"none"} : Plug(p, d)
          \/ \E s \in Slots : \E r \in load.says.kbd \cup load.says.mouse : Report(s, r)
          \/ \E pkt \in load.packets, k \in load.lost : Ps2Packet(pkt, k))

(* The timer fires for ever, the driver's loops run on, the controller     *)
(* executes what it was given, and the process reads the mouse.            *)
UsbFair == WF_usbVars(UsbIn(UsbDriver)) /\ WF_usbVars(UsbIn(UsbHardware))

-----------------------------------------------------------------------------
(* Properties.                                                             *)

Reading == {"re-entered"} \cap uodd = {}

(* Pending transfer events of a slot.                                      *)
EventsOf(s) ==
    {i \in 0..(XHCI_EVT_RING_SIZE - 1) :
        /\ udrv.evts[i].t = "xfer" /\ udrv.evts[i].slot = s
        /\ (i - udrv.deq) % XHCI_EVT_RING_SIZE < (uhc.enq - udrv.deq) % XHCI_EVT_RING_SIZE}

(* Slots of a type with a report that was sent and not yet processed.      *)
InFlight(type) == {s \in Slots : uslot[s].hid /\ uslot[s].type = type /\ EventsOf(s) # {}}

(* Every event the controller posts is read once and in order: driver and  *)
(* controller agree on which entries of the event ring are unread, by      *)
(* position and by cycle bit, also where hot-plug enumeration spins for a  *)
(* completion - unless a slot was disabled from within the drain, whose    *)
(* loop then steps over one event more than it read.                       *)
UsbEventsOnce ==
    Reading =>
      /\ uhc.posted - udrv.read = (uhc.enq - udrv.deq) % XHCI_EVT_RING_SIZE
      /\ EventThere <=> uhc.posted # udrv.read

(* No HID device is forgotten: one interrupt IN transfer is outstanding or *)
(* its event unread for every slot in use - unless a spinning wait threw   *)
(* the event away, an answer came after its time-out, a device was pulled, *)
(* or the transfer ring has wrapped, where the Link TRB gets the wrong     *)
(* cycle bit and the controller stops in front of it.                      *)
UsbArmed ==
    (Reading /\ {"skipped", "wrapped", "late", "pulled"} \cap uodd = {}) =>
      \A s \in Slots : uslot[s].hid =>
         (IF Armed(s).found THEN 1 ELSE 0) + Cardinality(EventsOf(s)) = 1

(* A port has one slot at most, and a slot in use is one the controller    *)
(* has enabled and holds a device of the type it was enumerated as, until  *)
(* a device is pulled; all this until an answer comes after its time-out.  *)
UsbSlots ==
    "late" \notin uodd =>
      /\ \A s, t \in Slots : (uslot[s].hid /\ uslot[t].hid /\ uslot[s].port = uslot[t].port) => s = t
      /\ \A s \in Slots : uslot[s].hid =>
            /\ s \in uhc.on \/ udrv.step = "disable"
            /\ "pulled" \notin uodd => uport[uslot[s].port].dev = uslot[s].type

(* Each movement is delivered once, in order, and each key press typed     *)
(* once: what waits in the mouse ring and what lies in a report buffer     *)
(* whose event is unread make up what the mouse sent.  (The order of a USB *)
(* and a PS/2 mouse moved together is that of the interrupts.)  Not after  *)
(* an event was thrown away, an answer came after its time-out, a device   *)
(* was pulled, the mouse ring was full or a PS/2 byte was lost.            *)
UsbInput ==
    (Reading /\ {"skipped", "late", "pulled", "error", "full", "lost byte"} \cap uodd = {}) =>
      /\ LET w == InFlight("mouse")
         IN  Cardinality(w) <= 1 =>
               /\ Len(uin.sent) = Len(uin.mouse) + Cardinality(w)
               /\ (w = {} /\ "crossed" \notin uodd) => uin.mouse = uin.sent
      /\ ("two keyboards" \notin uodd /\ InFlight("kbd") = {}) => uin.keys = Typed(uin.due)

(* Under way: the driver is busy, or an event it should read is unread, and*)
(* no answer of the controller has come after its time-out.                *)
UsbDue ==
    /\ load.part = "usb" /\ Reading /\ "late" \notin uodd
    /\ udrv.pc \in {"drain", "enum", "wait"} \/ (udrv.pc = "idle" /\ EventThere)
=============================================================================
