------------------------------- MODULE Lumen -------------------------------
(***************************************************************************)
(* The compositor process and the programs that draw through it: the       *)
(* window list, focus and drags of user/bin/lumen/compositor.c, the socket *)
(* server of lumen_server.c, the event loop of main.c and the client       *)
(* library user/lib/glyph/lumen_client.c.                                  *)
(*                                                                         *)
(* One pass of the event loop accepts a connection, serves one message of  *)
(* each client, then takes one key and one batch of mouse events; the      *)
(* variable lk.ph says where the loop stands, and the clients run between  *)
(* any two of its steps.  A client writes the header and the body of a     *)
(* request with two calls, so the server may read between them.            *)
(*                                                                         *)
(* Pixels, geometry and dirty rectangles are left out: a press lands on    *)
(* any visible window, on one of the three parts of it that the code tells *)
(* apart, or on the desktop.                                               *)
(***************************************************************************)
EXTENDS Workload, Naturals, FiniteSets, Sequences, SequencesExt

CONSTANTS LClients,     \* the programs that may connect
          LMaxWindows,  \* MAX_WINDOWS
          LMaxClients,  \* LUMEN_MAX_CLIENTS
          LPerClient,   \* LUMEN_MAX_WINDOWS_PER_CLIENT
          LDown         \* events that fit in the socket's ring

VARIABLES lk,   \* the compositor and the server
          lcl   \* the clients and the two directions of their sockets

lvars == <<lk, lcl>>

LOn == load.part = "lumen"
LListed(k) == {k.wins[i] : i \in DOMAIN k.wins}
LChromeless(k, w) == k.w[w].kind \in {"panel", "drop"}
LProxy(k, w) == k.w[w].kind \in {"win", "panel"}

(*************************** the window list *******************************)

\* glyph_window_create: a new window, not yet listed.
LNew(k, kind, c, wid) ==
  [k EXCEPT !.next = @ + 1,
            !.w = [i \in DOMAIN @ \cup {k.next} |->
                     IF i = k.next
                     THEN [kind |-> kind, cli |-> c, wid |-> wid, vis |-> kind # "drop", flag |-> FALSE]
                     ELSE @[i]]]

LFlag(k, w, b) == IF w = 0 THEN k ELSE [k EXCEPT !.w[w].flag = b]

\* A full list refuses the window and says nothing; the ghost remembers it.
comp_add_window(k, w) ==
  IF Len(k.wins) >= LMaxWindows THEN [k EXCEPT !.refused = TRUE]
  ELSE LFlag([k EXCEPT !.wins = Append(@, w), !.focused = w], w, TRUE)

\* An unlisted window is left alone; otherwise focus goes to the top of the
\* list, drags of the window end, and the window is freed.
Mut_comp_remove_window(k, w) ==         \* mutant: a drag goes on with a window that is gone
  IF w \notin LListed(k) THEN k
  ELSE LET ws == SelectSeq(k.wins, LAMBDA v : v # w)
           f  == IF k.focused # w THEN k.focused ELSE IF ws = <<>> THEN 0 ELSE Last(ws)
       IN [k EXCEPT !.wins = ws, !.focused = f,
                    !.w = [v \in DOMAIN @ \ {w} |->
                             [@[v] EXCEPT !.flag = IF v \in LListed(k) THEN v = f ELSE @]]]
comp_remove_window(k, w) ==
  IF w \notin LListed(k) THEN k
  ELSE LET ws == SelectSeq(k.wins, LAMBDA v : v # w)
           f  == IF k.focused # w THEN k.focused ELSE IF ws = <<>> THEN 0 ELSE Last(ws)
       IN [k EXCEPT !.wins = ws, !.focused = f,
                    !.drag = IF @ = w THEN 0 ELSE @,
                    !.dragging = @ /\ k.drag # w,
                    !.cdrag = IF @ = w THEN 0 ELSE @,
                    !.w = [v \in DOMAIN @ \ {w} |->
                             [@[v] EXCEPT !.flag = IF v \in LListed(k) THEN v = f ELSE @]]]

comp_raise_window(k, w) ==
  IF w \notin LListed(k) THEN k
  ELSE [k EXCEPT !.wins = Append(SelectSeq(@, LAMBDA v : v # w), w)]

LFocus(k, w) == LFlag([k EXCEPT !.focused = w], w, TRUE)

\* spawn_terminal, spawn_widgets and the About window: listed, raised, and
\* given the focus whether or not the list had room for them.
LOpen(k, kind) ==
  LET n == LNew(k, kind, "", 0)
  IN LFocus(comp_raise_window(comp_add_window(n, k.next), k.next), k.next)

(***************** what the server writes to a client **********************)

\* The socket is non-blocking: what does not fit is cut off.  cut says so; the
\* server goes on writing, but from here on the client reads its messages at
\* the wrong place, as junk.
LPost(cl, c, ev) ==
  IF cl[c].st = "done" THEN cl
  ELSE IF Len(cl[c].down) >= LDown THEN [cl EXCEPT ![c].cut = TRUE]
  ELSE [cl EXCEPT ![c].down = Append(@, IF cl[c].cut THEN [ev |-> "junk", wid |-> 0] ELSE ev)]

\* proxy_on_close, proxy_on_key and the mouse callbacks of a proxy window.
LTell(k, cl, w, ev) ==
  IF w # 0 /\ LProxy(k, w) THEN LPost(cl, k.w[w].cli, [ev |-> ev, wid |-> k.w[w].wid]) ELSE cl

(***************************** the requests ********************************)

LSlot(k, c) == CHOOSE i \in DOMAIN k.srv : k.srv[i].cli = c

\* A panel gives the focus back: to the topmost visible window with a frame
\* below the top of the list.
LPanelFocus(k, w) ==
  LET below == {i \in 1..(Len(k.wins) - 1) : k.w[k.wins[i]].vis /\ ~LChromeless(k, k.wins[i])}
      f == IF below = {} THEN 0 ELSE k.wins[CHOOSE i \in below : \A j \in below : j <= i]
  IN LFocus(LFlag(k, w, FALSE), f)

handle_create_common(k, cl, c, panel) ==
  LET i == LSlot(k, c)
      w == k.next
      wid == k.srv[i].next
      n == comp_add_window(LNew(k, IF panel THEN "panel" ELSE "win", c, wid), w)
  IN IF Len(k.srv[i].ids) >= LPerClient
     THEN [k |-> k, cl |-> LPost(cl, c, [ev |-> "refuse", wid |-> 0])]
     ELSE [k |-> [(IF panel THEN LPanelFocus(n, w) ELSE n)
                     EXCEPT !.srv[i] = [@ EXCEPT !.ids = Append(@, w), !.next = @ + 1]],
           cl |-> LPost(cl, c, [ev |-> "created", wid |-> wid])]

\* The slot takes the last window of the client's table.
LDropSlot(s, j) == [i \in 1..(Len(s) - 1) |-> IF i = j THEN Last(s) ELSE s[i]]

handle_destroy_window(k, cl, c, wid) ==
  LET i == LSlot(k, c)
      js == {j \in DOMAIN k.srv[i].ids : k.w[k.srv[i].ids[j]].wid = wid}
  IN IF js = {} THEN [k |-> k, cl |-> cl]
     ELSE LET j == CHOOSE x \in js : \A y \in js : x <= y
          IN [k |-> [comp_remove_window(k, k.srv[i].ids[j]) EXCEPT !.srv[i].ids = LDropSlot(@, j)],
              cl |-> cl]

\* invoke_handler: a terminal, the widget window, or another client started.
invoke_handler(k, cl, name) ==
  IF name \in {"term", "widgets"} THEN [k |-> LOpen(k, name), cl |-> cl]
  ELSE [k |-> k,
        cl |-> [c \in LClients |->
                  IF cl[c].st = "none" /\ name = "client" THEN [cl[c] EXCEPT !.st = "idle"] ELSE cl[c]]]

\* lumen_server_read's switch, the body of the request at hand.
LHandle(k, cl, c, req) ==
  CASE req.op = "create"  -> handle_create_common(k, cl, c, FALSE)
    [] req.op = "panel"   -> handle_create_common(k, cl, c, TRUE)
    [] req.op = "destroy" -> handle_destroy_window(k, cl, c, req.arg)
    [] req.op = "invoke"  -> invoke_handler(k, cl, req.arg)
    [] OTHER              -> [k |-> k, cl |-> cl]     \* damage, title, unknown

(************************* one pass of the loop ****************************)

LAt(p) == LOn /\ lk.ph.at = p
LGo(k, p, i) == [k EXCEPT !.ph = [at |-> p, i |-> i]]

\* lumen_server_hangup: every window of the client is removed, the socket is
\* closed, and the last client takes the slot.
LHangup(k, i) ==
  [FoldLeft(LAMBDA a, w : comp_remove_window(a, w), k, k.srv[i].ids) EXCEPT !.srv = LDropSlot(@, i)]

\* lumen_server_accept_fd waits up to half a second for the greeting; the
\* client may be slower than that.
LAccept ==
  /\ LAt("accept")
  /\ IF lk.backlog = <<>> THEN lk' = LGo(lk, "serve", 1) /\ UNCHANGED lcl
     ELSE LET c == Head(lk.backlog)
              k == LGo([lk EXCEPT !.backlog = Tail(@)], "serve", 1)
          IN IF lcl[c].up = <<>>
             THEN lk' = k /\ lcl' = [lcl EXCEPT ![c].shut = TRUE]
             ELSE /\ Head(lcl[c].up).op = "hello"
                  /\ LET cl == [lcl EXCEPT ![c].up = Tail(@)]
                     IN IF Len(lk.srv) >= LMaxClients
                        THEN /\ lk' = k
                             /\ lcl' = [LPost(cl, c, [ev |-> "full", wid |-> 0]) EXCEPT ![c].shut = TRUE]
                        ELSE /\ lk' = [k EXCEPT !.srv = Append(@, [cli |-> c, ids |-> <<>>, next |-> 1])]
                             /\ lcl' = LPost(cl, c, [ev |-> "welcome", wid |-> 0])

LReadable(c) == lcl[c].up # <<>> \/ lcl[c].st = "done"

\* One message of the client in slot i.  The header is taken first; when the
\* body is not there yet the read says EAGAIN and the client is hung up.
LServe ==
  /\ LAt("serve") /\ lk.ph.i <= Len(lk.srv)
  /\ LET i == lk.ph.i
         c == lk.srv[i].cli
         up == lcl[c].up
     IN IF ~LReadable(c) THEN lk' = LGo(lk, "serve", i + 1) /\ UNCHANGED lcl
        ELSE IF Len(up) < 2
        THEN /\ lk' = LHangup(lk, i)
             /\ lcl' = [lcl EXCEPT ![c].up = <<>>, ![c].shut = TRUE]
        ELSE \E r \in {LHandle(lk, [lcl EXCEPT ![c].up = SubSeq(@, 3, Len(@))], c, up[2])} :
               /\ lk' = LGo(r.k, "serve", i + 1)
               /\ lcl' = r.cl

LServed ==
  /\ LAt("serve") /\ lk.ph.i > Len(lk.srv)
  /\ lk' = LGo(lk, "kbd", 0)
  /\ UNCHANGED lcl

\* Ctrl+Alt+T: hide the drop-down terminal and give the focus back, or
\* remember the focus and show it.
LToggle(k) ==
  LET d == 1
      others == {i \in DOMAIN k.wins : k.w[k.wins[i]].vis /\ k.wins[i] # d}
      hide == LFlag([k EXCEPT !.w[d].vis = FALSE], d, FALSE)
      back == IF k.prevf # 0 /\ k.prevf \in LListed(k) THEN k.prevf
              ELSE IF others = {} THEN 0 ELSE k.wins[CHOOSE i \in others : \A j \in others : j <= i]
  IN IF k.w[d].vis THEN LFocus(hide, back)
     ELSE comp_raise_window(
            LFocus([LFlag(k, k.focused, FALSE) EXCEPT !.prevf = k.focused, !.w[d].vis = TRUE], d), d)

\* A key that is no command goes to the focused window; only a window with a
\* key handler passes it on to a client, and a panel has none.
LTyped(k, cl) ==
  IF k.focused # 0 /\ k.w[k.focused].kind = "win" THEN LTell(k, cl, k.focused, "key") ELSE cl

LNoKey == LAt("kbd") /\ lk' = LGo(lk, "mouse", 0) /\ UNCHANGED lcl

LKey ==
  /\ LAt("kbd") /\ lk.keys > 0
  /\ \E key \in load.keyset :
       LET k == LGo([lk EXCEPT !.keys = @ - 1], "mouse", 0)
       IN IF lk.frozen THEN lk' = k /\ UNCHANGED lcl
          ELSE CASE key = "toggle"  -> lk' = LToggle(k) /\ UNCHANGED lcl
                 [] key = "lock"    -> lk' = [k EXCEPT !.frozen = TRUE] /\ UNCHANGED lcl
                 [] key = "install" -> LET r == invoke_handler(k, lcl, "client")
                                       IN lk' = r.k /\ lcl' = r.cl
                 [] OTHER           -> lk' = k /\ lcl' = LTyped(lk, lcl)

\* SIGUSR2 from bastion: the screen is unlocked.
LUnlock ==
  /\ LOn /\ lk.frozen
  /\ lk' = [lk EXCEPT !.frozen = FALSE]
  /\ UNCHANGED lcl

(****************************** the mouse **********************************)

\* comp_handle_mouse: a selection or a drag under way takes the event; else
\* a press goes to the window under the pointer.
LPress(k, cl, hit) ==
  LET w == hit.win
      move == IF k.focused # w /\ ~LChromeless(k, w)
              THEN comp_raise_window(LFocus(LFlag(k, k.focused, FALSE), w), w) ELSE k
  IN IF w = 0 THEN [k |-> [k EXCEPT !.sel = TRUE], cl |-> cl]
     ELSE IF hit.part = "close" /\ ~LChromeless(k, w)
     THEN IF LProxy(k, w) THEN [k |-> k, cl |-> LTell(k, cl, w, "close")]
          ELSE [k |-> comp_remove_window(k, w), cl |-> cl]
     ELSE IF hit.part = "title" /\ ~LChromeless(k, w)
     THEN [k |-> [move EXCEPT !.dragging = TRUE, !.drag = w], cl |-> cl]
     ELSE [k |-> IF LProxy(k, w) \/ k.w[w].kind \in {"term", "drop"}
                 THEN [move EXCEPT !.cdrag = w] ELSE move,
           cl |-> LTell(k, cl, w, "down")]

comp_handle_mouse(k, cl, left, hit) ==
  LET r == IF k.sel THEN [k |-> [k EXCEPT !.sel = left], cl |-> cl]
           ELSE IF k.cdrag # 0
           THEN [k |-> IF left THEN k ELSE [k EXCEPT !.cdrag = 0],
                 cl |-> LTell(k, cl, k.cdrag, IF left THEN "move" ELSE "up")]
           ELSE IF k.dragging
           THEN [k |-> IF left THEN k ELSE [k EXCEPT !.dragging = FALSE, !.drag = 0], cl |-> cl]
           ELSE IF left /\ ~k.left THEN LPress(k, cl, hit)
           ELSE [k |-> k, cl |-> cl]
  IN [r EXCEPT !.k.left = left]

\* The menu and the top bar look at a press first; the compositor then gets
\* the same press.
LMenu(k, left, hit) ==
  IF ~left \/ k.left THEN k
  ELSE IF k.menu
  THEN LET c == [k EXCEPT !.menu = FALSE]
       IN CASE hit.item = "about" -> LOpen(c, "about")
            [] hit.item = "lock"  -> [c EXCEPT !.frozen = TRUE]
            [] OTHER              -> c
  ELSE [k EXCEPT !.menu = hit.item = "bar"]

LNoMouse == LAt("mouse") /\ lk' = LGo(lk, "accept", 0) /\ UNCHANGED lcl

LVisible(k) == {w \in LListed(k) : k.w[w].vis}

\* A batch of mouse events is folded into one, with the last button state.
LMouse ==
  /\ LAt("mouse") /\ lk.mice > 0
  /\ \E left \in BOOLEAN, item \in load.items :
       \E m \in {LMenu(LGo([lk EXCEPT !.mice = @ - 1], "accept", 0), left, [item |-> item])} :
         \E w \in LVisible(m) \cup {0}, part \in load.parts :
           \E r \in {comp_handle_mouse(m, lcl, left, [win |-> w, part |-> part])} :
             lk' = r.k /\ lcl' = r.cl

(***************************** the clients *********************************)

\* lumen_connect: connect, then the greeting in a second call.
LConnect(c) ==
  /\ LOn /\ lcl[c].st = "idle"
  /\ lk' = [lk EXCEPT !.backlog = Append(@, c)]
  /\ lcl' = [lcl EXCEPT ![c].st = "greet"]

LGreet(c) ==
  /\ LOn /\ lcl[c].st = "greet"
  /\ lcl' = [lcl EXCEPT ![c].st = IF lcl[c].shut THEN "fail" ELSE "hello",
                        ![c].up = IF lcl[c].shut THEN @ ELSE Append(@, [op |-> "hello", arg |-> 0])]
  /\ UNCHANGED lk

LWelcome(c) ==
  /\ LOn /\ lcl[c].st = "hello"
  /\ lcl[c].down # <<>> \/ lcl[c].shut
  /\ lcl' = [lcl EXCEPT ![c].st = IF lcl[c].down # <<>> /\ Head(lcl[c].down).ev = "welcome"
                                  THEN "in" ELSE "fail",
                        ![c].down = IF @ = <<>> THEN @ ELSE Tail(@)]
  /\ UNCHANGED lk

LArgs(c, op) ==
  CASE op \in {"damage", "destroy"} -> lcl[c].wins
    [] op = "invoke" -> load.invoke
    [] OTHER -> {0}

\* The header of a request; to a closed socket the write fails and the call
\* is over.
LHeader(c) ==
  /\ LOn /\ lcl[c].st = "in" /\ lcl[c].left > 0
  /\ \E op \in load.ops[c] : \E arg \in LArgs(c, op) :
       lcl' = [lcl EXCEPT ![c].left = @ - 1,
                          ![c].st = IF lcl[c].shut THEN "in" ELSE "half",
                          ![c].req = [op |-> op, arg |-> arg],
                          ![c].up = IF lcl[c].shut THEN @ ELSE Append(@, [op |-> "header", arg |-> 0])]
  /\ UNCHANGED lk

\* The body; the library forgets a destroyed window at once, and waits for
\* the answer to a creation.
LBody(c) ==
  /\ LOn /\ lcl[c].st = "half"
  /\ lcl' = [lcl EXCEPT ![c].st = IF ~lcl[c].shut /\ lcl[c].req.op \in {"create", "panel"}
                                  THEN "wait" ELSE "in",
                        ![c].wins = IF lcl[c].req.op = "destroy" THEN @ \ {lcl[c].req.arg} ELSE @,
                        ![c].up = IF lcl[c].shut THEN @ ELSE Append(@, lcl[c].req)]
  /\ UNCHANGED lk

\* recv_created_reply takes whatever comes next as the answer: an event that
\* was already on its way is read as one, and junk may pass for any.  At the
\* end of the stream recvmsg returns 0 and the answer is read from memory never
\* written.
LReply(c) ==
  /\ LOn /\ lcl[c].st = "wait"
  /\ \/ /\ lcl[c].down # <<>>
        /\ LET ev == Head(lcl[c].down)
               kinds == IF ev.ev = "junk" THEN {"created", "refuse", "fail"} ELSE {ev.ev}
           IN \E kind \in kinds :
                lcl' = [lcl EXCEPT ![c].down = Tail(@),
                                   ![c].st = IF kind \in {"created", "refuse"} THEN "in" ELSE "fail",
                                   ![c].wins = IF kind = "created" THEN @ \cup {ev.wid} ELSE @]
     \/ /\ lcl[c].down = <<>> /\ (lcl[c].shut \/ lcl[c].cut)
        /\ lcl' = [lcl EXCEPT ![c].st = "fail"]
  /\ UNCHANGED lk

\* lumen_wait_event, and what a client does at the end of its stream.
LEvent(c) ==
  /\ LOn /\ lcl[c].st = "in"
  /\ \/ /\ lcl[c].down # <<>>
        /\ lcl' = [lcl EXCEPT ![c].down = Tail(@)]
     \/ /\ lcl[c].down = <<>> /\ (lcl[c].shut \/ lcl[c].cut)
        /\ lcl' = [lcl EXCEPT ![c].st = "fail"]
  /\ UNCHANGED lk

\* The program ends, with or without a call having failed.
LQuit(c) ==
  /\ LOn /\ lcl[c].st \in {"in", "fail"}
  /\ lcl' = [lcl EXCEPT ![c].st = "done", ![c].down = <<>>]
  /\ UNCHANGED lk

LNobody == [st |-> "none", up |-> <<>>, down |-> <<>>, wins |-> {}, req |-> [op |-> "", arg |-> 0],
            left |-> 0, shut |-> FALSE, cut |-> FALSE]

\* At start-up the drop-down terminal is listed and hidden, and the About
\* window is on top with the focus.
LumenInit ==
  /\ lk = [wins |-> <<1, 2>>, focused |-> 2, drag |-> 0, cdrag |-> 0, prevf |-> 0, next |-> 3,
           dragging |-> FALSE, sel |-> FALSE, left |-> FALSE, menu |-> FALSE, frozen |-> FALSE,
           refused |-> FALSE, srv |-> <<>>, backlog |-> <<>>, ph |-> [at |-> "accept", i |-> 0],
           keys |-> IF LOn THEN load.keys ELSE 0, mice |-> IF LOn THEN load.mice ELSE 0,
           w |-> [i \in {1, 2} |-> [kind |-> IF i = 1 THEN "drop" ELSE "about", cli |-> "", wid |-> 0,
                                    vis |-> i = 2, flag |-> i = 2]]]
  /\ lcl = [c \in LClients |->
              IF ~LOn THEN LNobody
              ELSE [LNobody EXCEPT !.st = IF c \in load.up THEN "idle" ELSE "none", !.left = load.calls[c]]]

LumenNext ==
  \/ LAccept \/ LServe \/ LServed \/ LNoKey \/ LKey \/ LUnlock \/ LNoMouse \/ LMouse
  \/ \E c \in LClients : LConnect(c)
  \/ \E c \in LClients : LGreet(c)
  \/ \E c \in LClients : LWelcome(c)
  \/ \E c \in LClients : LHeader(c)
  \/ \E c \in LClients : LBody(c)
  \/ \E c \in LClients : LReply(c)
  \/ \E c \in LClients : LEvent(c)
  \/ \E c \in LClients : LQuit(c)

(***************************** what must hold ******************************)

\* No pointer of the compositor dangles: focus and both kinds of drag name a
\* window that exists, and one on the list unless a full list refused one;
\* the client tables hold existing windows, each once (compositor.c:66-101).
LPointersSound ==
  /\ {lk.focused, lk.drag, lk.cdrag} \ {0} \subseteq DOMAIN lk.w
  /\ LListed(lk) \subseteq DOMAIN lk.w /\ Cardinality(LListed(lk)) = Len(lk.wins)
  /\ ~lk.refused => {lk.focused, lk.drag, lk.cdrag} \ {0} \subseteq LListed(lk)
  /\ lk.dragging <=> lk.drag # 0
  /\ lk.focused # 0 => lk.w[lk.focused].flag
  /\ \A i \in DOMAIN lk.srv : \A j \in DOMAIN lk.srv[i].ids : lk.srv[i].ids[j] \in DOMAIN lk.w

\* No window outlives its client on the screen, and no client's window is off
\* it: the windows listed for clients are those in the tables of connected
\* clients (lumen_server.c:347-371, 429-455).
LNoZombies ==
  LET tabled == UNION {{lk.srv[i].ids[j] : j \in DOMAIN lk.srv[i].ids} : i \in DOMAIN lk.srv}
      listed == {w \in LListed(lk) : LProxy(lk, w)}
  IN /\ listed \subseteq tabled
     /\ ~lk.refused => tabled \subseteq listed
     /\ \A i, j \in DOMAIN lk.srv : lk.srv[i].cli = lk.srv[j].cli => i = j
     /\ \A i \in DOMAIN lk.srv : \A j \in DOMAIN lk.srv[i].ids :
          lk.w[lk.srv[i].ids[j]].cli = lk.srv[i].cli

\* What a connected client believes it owns is what the server shows for it,
\* but for answers and destructions on their way, as long as no event was cut
\* short by a full socket (lumen_client.c:150-312).
LViewsAgree ==
  \A i \in DOMAIN lk.srv :
    LET c == lk.srv[i].cli
        held == {lk.w[lk.srv[i].ids[j]].wid : j \in DOMAIN lk.srv[i].ids}
        coming == {lcl[c].down[j].wid : j \in {x \in DOMAIN lcl[c].down : lcl[c].down[x].ev = "created"}}
        going == {lcl[c].up[j].arg : j \in {x \in DOMAIN lcl[c].up : lcl[c].up[x].op = "destroy"}}
    IN lcl[c].st # "done" /\ ~lcl[c].cut
       => held = lcl[c].wins \cup coming \cup going

LumenIntact == LOn => LPointersSound /\ LNoZombies /\ LViewsAgree

\* A client inside the library, waiting for the server or about to write.
LDue == LOn /\ \E c \in LClients : lcl[c].st \in {"greet", "hello", "half", "wait"}
=============================================================================
