------------------------------- MODULE Glyph -------------------------------
(***************************************************************************)
(* The widget toolkit, user/lib/glyph: a window with a tree of widgets     *)
(* that is built by a program (lumen/widget_test.c does), laid out, drawn  *)
(* when dirty, and driven by clicks, keys and the pointer; and what the    *)
(* compositor then copies to the screen.  The window stands at the corner  *)
(* of the screen, so that window and screen coordinates are the same.      *)
(*                                                                         *)
(* load.types gives the widgets and their types, load.build the calls that *)
(* build the tree, the last of them <<"content", root>>.  A character, a   *)
(* line of text, a tab label and the scroll bar are one unit wide or high; *)
(* padding inside a control is left out.                                   *)
(***************************************************************************)
EXTENDS Workload, Integers, FiniteSets, Sequences, SequencesExt

CONSTANTS GBuf,       \* characters of a text field
          GChildren,  \* children of a widget
          GRows,      \* rows of a list that are seen
          GClient,    \* width and height of the client area
          GBorder,    \* GLYPH_BORDER_WIDTH
          GTitle,     \* GLYPH_TITLEBAR_HEIGHT
          GSteps      \* bound: events of a behaviour

VARIABLES g,  \* w: widgets, s: what each control holds, n: the window
          gk  \* the program: calls made, events so far, ghosts

gvars == <<g, gk>>

GNil == "nil"
GIds == IF load.part = "glyph" THEN DOMAIN load.types ELSE {}
GBoxes == {"hbox", "vbox"}
GFocusable == {"button", "textfield", "checkbox", "list", "tabs", "menubar"}
GType(i) == load.types[i]

(****************************** the base widget ****************************)

\* What the constructors set up; a label or a button is as wide as its text.
glyph_widget_init(i) ==
  LET w == CASE GType(i) = "list" -> 3 [] GType(i) \in {"scrollbar", "checkbox", "label"} -> 1
             [] GType(i) \in {"button", "textfield", "menubar"} -> 2 [] OTHER -> 0
      h == CASE GType(i) \in {"list", "scrollbar"} -> GRows [] GType(i) \in GBoxes \cup {"tabs"} -> 0 [] OTHER -> 1
  IN [par |-> GNil, kids |-> <<>>, x |-> 0, y |-> 0, w |-> w, h |-> h, pw |-> w, ph |-> h,
      dirty |-> TRUE, vis |-> TRUE, hov |-> FALSE, win |-> FALSE, live |-> TRUE]

GControl ==
  [buf |-> [c \in 1..(GBuf + 1) |-> ""], len |-> 0, cur |-> 0, seen |-> <<>>, text |-> <<>>,
   count |-> 0, sel |-> -1, off |-> 0, val |-> 0, max |-> 0,
   panels |-> <<>>, act |-> 1, on |-> FALSE, open |-> 0]

GRect(x, y, w, h) == [x |-> x, y |-> y, w |-> w, h |-> h]
GNoRect == GRect(0, 0, 0, 0)
glyph_rect_empty(r) == r.w <= 0 \/ r.h <= 0
GMin(a, b) == IF a < b THEN a ELSE b
GMax(a, b) == IF a > b THEN a ELSE b
glyph_rect_union(a, b) ==
  IF glyph_rect_empty(a) THEN b
  ELSE IF glyph_rect_empty(b) THEN a
  ELSE LET x == GMin(a.x, b.x)
           y == GMin(a.y, b.y)
       IN GRect(x, y, GMax(a.x + a.w, b.x + b.w) - x, GMax(a.y + a.h, b.y + b.h) - y)

\* Where a widget is in the client area.
GAt(W, i) ==
  LET ax[j \in GIds] == W[j].x + (IF W[j].par = GNil THEN 0 ELSE ax[W[j].par])
      ay[j \in GIds] == W[j].y + (IF W[j].par = GNil THEN 0 ELSE ay[W[j].par])
  IN GRect(ax[i], ay[i], W[i].w, W[i].h)

\* The client area begins inside the frame, and the surface holds both.
client_ox == GBorder
client_oy == GBorder + GTitle
GSurface == GRect(0, 0, GClient + 2 * GBorder, GClient + GTitle + 2 * GBorder)

\* The rectangle is kept as it comes.  A widget's is in client coordinates,
\* that of the whole window is not, and the compositor takes either for window
\* coordinates.
glyph_window_mark_dirty_rect(n, r) ==
  [n EXCEPT !.rect = IF n.dirty THEN glyph_rect_union(n.rect, r) ELSE r, !.dirty = TRUE]
glyph_window_mark_all_dirty(n) == [n EXCEPT !.rect = GSurface, !.dirty = TRUE]

glyph_widget_mark_dirty(q, i) ==
  [q EXCEPT !.w[i].dirty = TRUE,
            !.n = IF q.w[i].win THEN glyph_window_mark_dirty_rect(q.n, GAt(q.w, i)) ELSE q.n]

\* A box gives its visible children their preferred sizes one after the other,
\* boxes among them included, and takes the size they need.
RECURSIVE glyph_box_layout(_, _)
glyph_box_layout(q, b) ==
  LET down == GType(b) = "vbox"
      pad == load.pad
      gap == load.gap
      place(a, c) ==
        LET k == a.q.w[c]
            s == [a.q EXCEPT !.w[c] = [k EXCEPT !.w = k.pw, !.h = k.ph, !.x = IF down THEN pad ELSE a.pos,
                                                !.y = IF down THEN a.pos ELSE pad]]
        IN IF ~k.vis THEN a
           ELSE [q |-> IF GType(c) \in GBoxes THEN glyph_box_layout(s, c) ELSE s,
                 pos |-> a.pos + (IF down THEN k.ph ELSE k.pw) + gap,
                 cross |-> GMax(a.cross, IF down THEN k.pw ELSE k.ph)]
      r == FoldLeft(place, [q |-> q, pos |-> pad, cross |-> 0], q.w[b].kids)
      len == r.pos + pad - (IF q.w[b].kids = <<>> THEN 0 ELSE gap)
      wide == IF down THEN r.cross + 2 * pad ELSE len
      high == IF down THEN len ELSE r.cross + 2 * pad
  IN glyph_widget_mark_dirty([r.q EXCEPT !.w[b] = [@ EXCEPT !.w = wide, !.h = high, !.pw = wide, !.ph = high]], b)

glyph_widget_add_child(q, p, c) ==
  LET s == [q EXCEPT !.w[c].par = p, !.w[c].win = q.w[p].win, !.w[p].kids = Append(@, c)]
      r == IF GType(p) \in GBoxes THEN glyph_box_layout(s, p) ELSE s
  IN IF Len(q.w[p].kids) >= GChildren THEN q ELSE glyph_widget_mark_dirty(r, p)

glyph_widget_remove_child(q, p, c) ==
  LET s == [q EXCEPT !.w[p].kids = SelectSeq(@, LAMBDA k : k # c), !.w[c].par = GNil, !.w[c].win = FALSE]
  IN IF ~Contains(q.w[p].kids, c) THEN q ELSE glyph_widget_mark_dirty(s, p)

\* The widgets of the tree below i, in the order of the walk; only what is
\* shown if shown is set.
RECURSIVE GWalk(_, _, _)
GWalk(W, i, shown) ==
  IF i = GNil \/ (shown /\ ~W[i].vis) THEN <<>>
  ELSE FoldLeft(LAMBDA s, k : s \o GWalk(W, k, shown), <<i>>, W[i].kids)
GBelow(W, i) == ToSet(GWalk(W, i, FALSE))

glyph_widget_destroy_tree(W, i) ==
  LET gone == GBelow(W, i) IN [j \in GIds |-> IF j \in gone THEN [W[j] EXCEPT !.live = FALSE] ELSE W[j]]
glyph_widget_set_window(W, i) ==
  LET all == GBelow(W, i) IN [j \in GIds |-> IF j \in all THEN [W[j] EXCEPT !.win = TRUE] ELSE W[j]]

glyph_window_set_content(q, root) ==
  [q EXCEPT !.w = glyph_widget_set_window(glyph_widget_destroy_tree(q.w, q.n.root), root),
            !.n = glyph_window_mark_all_dirty([@ EXCEPT !.root = root])]

glyph_window_set_focus(q, i) ==
  LET old == IF q.n.focus = GNil THEN q ELSE glyph_widget_mark_dirty(q, q.n.focus)
  IN IF q.n.focus = i THEN q ELSE glyph_widget_mark_dirty([old EXCEPT !.n.focus = i], i)

\* The deepest widget at a point; the last child that has it wins.
RECURSIVE hit_test_recursive(_, _, _, _)
hit_test_recursive(W, i, x, y) ==
  IF i = GNil \/ ~W[i].vis \/ x < W[i].x \/ x >= W[i].x + W[i].w \/ y < W[i].y \/ y >= W[i].y + W[i].h THEN GNil
  ELSE LET hit(k) == hit_test_recursive(W, W[i].kids[k], x - W[i].x, y - W[i].y)
           hits == {k \in DOMAIN W[i].kids : hit(k) # GNil}
       IN IF hits = {} THEN i ELSE hit(Max(hits))

RECURSIVE find_first_focusable(_, _)
find_first_focusable(W, i) ==
  IF ~W[i].vis THEN GNil
  ELSE IF GType(i) \in GFocusable THEN i
  ELSE FoldLeft(LAMBDA f, k : IF f # GNil THEN f ELSE find_first_focusable(W, k), GNil, W[i].kids)

RECURSIVE find_next_focusable(_, _, _, _)
find_next_focusable(W, i, found, cur) ==
  IF ~W[i].vis THEN [hit |-> GNil, found |-> found]
  ELSE IF GType(i) \in GFocusable /\ found THEN [hit |-> i, found |-> found]
  ELSE FoldLeft(LAMBDA a, k : IF a.hit # GNil THEN a ELSE find_next_focusable(W, k, a.found, cur),
                [hit |-> GNil, found |-> found \/ i = cur], W[i].kids)

glyph_widget_focus_next(W, root, cur) ==
  LET next == find_next_focusable(W, root, FALSE, cur).hit
  IN IF cur # GNil /\ next # GNil THEN next ELSE find_first_focusable(W, root)

(******************************** the controls *****************************)

\* The program's callback writes a longer line into its status label.
glyph_label_set_text(q, i, len) == glyph_widget_mark_dirty([q EXCEPT !.w[i].pw = len, !.w[i].w = len], i)
GNotify(q) == IF load.status = GNil THEN q ELSE glyph_label_set_text(q, load.status, 2)

GStr(s) == SubSeq(s.buf, 1, Min({c \in DOMAIN s.buf : s.buf[c] = ""}) - 1)
GTold(q, i) == GNotify([q EXCEPT !.s[i].seen = GStr(q.s[i])])

\* text is a ghost: what was typed, edited as the user sees it.
GTyped(q, i, key) ==
  LET s == q.s[i]
      cell(c) == IF c = s.cur + 1 THEN key ELSE IF c > s.cur + 1 /\ c <= s.len + 1 THEN s.buf[c - 1] ELSE s.buf[c]
      new == [s EXCEPT !.buf = [c \in DOMAIN s.buf |-> IF c = s.len + 2 THEN "" ELSE cell(c)],
                       !.cur = @ + 1, !.len = @ + 1, !.text = InsertAt(@, s.cur + 1, key)]
  IN IF s.len >= GBuf THEN q ELSE GTold(glyph_widget_mark_dirty([q EXCEPT !.s[i] = new], i), i)

GErased(q, i) ==
  LET s == q.s[i]
      cell(c) == IF c >= s.cur /\ c < s.len THEN s.buf[c + 1] ELSE s.buf[c]
      new == [s EXCEPT !.buf = [c \in DOMAIN s.buf |-> IF c = s.len THEN "" ELSE cell(c)],
                       !.cur = @ - 1, !.len = @ - 1, !.text = RemoveAt(@, s.cur)]
  IN IF s.cur = 0 THEN q ELSE GTold(glyph_widget_mark_dirty([q EXCEPT !.s[i] = new], i), i)

textfield_on_key(q, i, key) ==
  CASE key = "del" -> GErased(q, i)
    [] key = "enter" -> GTold(q, i)
    [] key \in {"a", "j", "k"} -> GTyped(q, i, key)
    [] OTHER -> q

textfield_on_mouse(q, i, x) ==
  LET at == GMin(x, q.s[i].len)
  IN IF at = q.s[i].cur THEN q ELSE glyph_widget_mark_dirty([q EXCEPT !.s[i].cur = at], i)

\* A list and its scroll bar, the list's only child.
GBar(q, i) == q.w[i].kids[1]
listview_on_key(q, i, key) ==
  LET s == q.s[i]
      off == CASE key = "j" /\ s.sel + 1 >= s.off + GRows -> s.sel + 2 - GRows
               [] key = "k" /\ s.sel - 1 < s.off -> s.sel - 1
               [] OTHER -> s.off
      moved == IF key = "j" /\ s.sel < s.count - 1 THEN [s EXCEPT !.sel = @ + 1, !.off = off]
               ELSE IF key = "k" /\ s.sel > 0 THEN [s EXCEPT !.sel = @ - 1, !.off = off]
               ELSE s
      r == IF moved = s THEN q ELSE GNotify(glyph_widget_mark_dirty([q EXCEPT !.s[i] = moved], i))
  IN glyph_widget_mark_dirty([r EXCEPT !.s[GBar(q, i)].val = moved.off], GBar(q, i))

listview_on_mouse(q, i, x, y) ==
  LET item == q.s[i].off + y
  IN IF x >= q.w[i].w - 1 \/ item >= q.s[i].count THEN q
     ELSE GNotify(glyph_widget_mark_dirty([q EXCEPT !.s[i].sel = item], i))

glyph_scrollbar_set_range(q, i, top) ==
  glyph_widget_mark_dirty([q EXCEPT !.s[i].max = top, !.s[i].val = GMin(@, top)], i)
glyph_listview_set_items(q, i, count) ==
  LET r == [q EXCEPT !.s[i].count = count, !.s[i].sel = IF count > 0 THEN 0 ELSE -1, !.s[i].off = 0]
  IN glyph_widget_mark_dirty(glyph_scrollbar_set_range(r, GBar(q, i), GMax(count - GRows, 0)), i)

\* The thumb is as long as the page is to the whole, at least one unit.
sb_thumb_h(q, i) == GMin(GMax((GRows * q.w[i].h) \div (q.s[i].max + GRows), 1), q.w[i].h)
lv_scroll_cb(q, i, val) ==
  LET list == q.w[i].par
  IN IF list = GNil \/ GType(list) # "list" THEN q
     ELSE glyph_widget_mark_dirty([q EXCEPT !.s[list].off = val], list)
scrollbar_on_mouse(q, i, y) ==
  LET s == q.s[i]
      th == sb_thumb_h(q, i)
      usable == q.w[i].h - th
      up == y - (th \div 2)
      val == IF up < 0 THEN 0 ELSE GMin((up * s.max) \div usable, s.max)
  IN IF s.max <= 0 \/ usable <= 0 \/ val = s.val THEN q
     ELSE lv_scroll_cb(glyph_widget_mark_dirty([q EXCEPT !.s[i].val = val], i), i, val)

\* A click in the row of labels hides one panel and shows another.
tabs_on_mouse(q, i, x, y) ==
  LET s == q.s[i]
      to == x + 1
  IN IF y >= 1 \/ to > Len(s.panels) \/ to = s.act THEN q
     ELSE GNotify(glyph_widget_mark_dirty([q EXCEPT !.w[s.panels[s.act]].vis = FALSE, !.w[s.panels[to]].vis = TRUE,
                                                    !.s[i].act = to], i))

glyph_tabs_add(q, i, p) ==
  LET n == Len(q.s[i].panels) + 1
      a == glyph_widget_add_child([q EXCEPT !.w[p].x = 0, !.w[p].y = 1, !.w[p].vis = (n = q.s[i].act)], i, p)
      r == [a EXCEPT !.s[i].panels = Append(@, p)]
      wide == Max({n} \cup {r.w[k].w : k \in ToSet(r.s[i].panels)})
      high == 1 + Max({0} \cup {r.w[k].h : k \in ToSet(r.s[i].panels)})
  IN glyph_widget_mark_dirty([r EXCEPT !.w[i] = [@ EXCEPT !.w = wide, !.h = high, !.pw = wide, !.ph = high]], i)

\* Two menus, side by side; a second click closes one.
menubar_on_mouse(q, i, x, y) ==
  LET to == IF y < 1 /\ x < 2 /\ q.s[i].open # x + 1 THEN x + 1 ELSE 0
  IN glyph_widget_mark_dirty([q EXCEPT !.s[i].open = to], i)
menubar_on_key(q, i, key) ==
  IF key = "esc" /\ q.s[i].open # 0 THEN glyph_widget_mark_dirty([q EXCEPT !.s[i].open = 0], i) ELSE q

checkbox_on_mouse(q, i) == GNotify(glyph_widget_mark_dirty([q EXCEPT !.s[i].on = ~@], i))
glyph_button_set_state(q, i) == glyph_widget_mark_dirty([q EXCEPT !.s[i].on = TRUE], i)
button_on_mouse(q, i) == IF q.s[i].on THEN q ELSE GNotify(q)

GOnMouse(q, i, x, y) ==
  CASE GType(i) = "textfield" -> textfield_on_mouse(q, i, x)
    [] GType(i) = "list"      -> listview_on_mouse(q, i, x, y)
    [] GType(i) = "scrollbar" -> scrollbar_on_mouse(q, i, y)
    [] GType(i) = "tabs"      -> tabs_on_mouse(q, i, x, y)
    [] GType(i) = "menubar"   -> menubar_on_mouse(q, i, x, y)
    [] GType(i) = "checkbox"  -> checkbox_on_mouse(q, i)
    [] GType(i) = "button"    -> button_on_mouse(q, i)
    [] OTHER -> q
GOnKey(q, i, key) ==
  CASE GType(i) = "textfield" -> textfield_on_key(q, i, key)
    [] GType(i) = "list"      -> listview_on_key(q, i, key)
    [] GType(i) = "menubar"   -> menubar_on_key(q, i, key)
    [] OTHER -> q

(*********************************** steps *********************************)

\* The program builds its tree; a list comes with its scroll bar.
GCall(q, call) ==
  CASE call[1] = "content" -> glyph_window_set_content(q, call[2])
    [] call[1] = "items"   -> glyph_listview_set_items(q, call[2], call[3])
    [] call[1] = "disable" -> glyph_button_set_state(q, call[2])
    [] call[1] = "add"     -> IF GType(call[2]) = "tabs" THEN glyph_tabs_add(q, call[2], call[3])
                              ELSE glyph_widget_add_child(q, call[2], call[3])
    [] call[1] = "remove"  -> glyph_widget_remove_child(q, call[2], call[3])

\* Ghosts: grown, a call changed what a box around it was laid out for; late, a
\* tree was added below a widget that already had a window; loose, the focused
\* widget left the tree; again, a list was filled a second time; dragged, the
\* scroll bar was used.
GCalled(call) ==
  [gk EXCEPT
     !.grown = @ \/ (call[1] = "add" /\ g.w[call[2]].par # GNil),
     !.late  = @ \/ (call[1] = "add" /\ g.w[call[2]].win /\ g.w[call[3]].kids # <<>>),
     !.loose = @ \/ (call[1] = "remove" /\ g.n.focus \in GBelow(g.w, call[3]))
                 \/ (call[1] = "content" /\ g.n.focus # GNil),
     !.again = @ \/ (call[1] = "items" /\ g.s[call[2]].count # 0)]

GBuild ==
  /\ load.part = "glyph" /\ gk.done < Len(load.build)
  /\ LET call == load.build[gk.done + 1]
     IN g' = GCall(g, call) /\ gk' = [GCalled(call) EXCEPT !.done = @ + 1]

GUp == load.part = "glyph" /\ gk.done = Len(load.build) /\ ~g.n.closed /\ gk.steps < GSteps
GStep == gk' = [gk EXCEPT !.steps = @ + 1]

\* A call made while the window is in use.
GLater(call) ==
  /\ GUp /\ ~gk.loose
  /\ call[1] = "add" => ~Contains(g.w[call[2]].kids, call[3])
  /\ call[1] = "content" => g.n.root # call[2]
  /\ g' = GCall(g, call)
  /\ gk' = [GCalled(call) EXCEPT !.steps = @ + 1]

\* glyph_window_dispatch_mouse: the close button, or the widget at the point of
\* the client area, which gets the focus before it gets the click.
GInClient(x, y) == x \in 0..(GClient - 1) /\ y \in 0..(GClient - 1)

GClose ==
  /\ GUp /\ load.close
  /\ g' = [g EXCEPT !.n.closed = TRUE, !.w = glyph_widget_destroy_tree(@, g.n.root)]
  /\ GStep

glyph_window_dispatch_mouse(x, y) ==
  /\ GUp /\ ~gk.loose
  /\ LET cx == x - client_ox
         cy == y - client_oy
         hit == IF GInClient(cx, cy) THEN hit_test_recursive(g.w, g.n.root, cx, cy) ELSE GNil
         r == IF hit # GNil /\ GType(hit) \in GFocusable THEN glyph_window_set_focus(g, hit) ELSE g
         at == GAt(g.w, hit)
     IN /\ hit # GNil
        /\ g' = GOnMouse(r, hit, cx - at.x, cy - at.y)
        /\ gk' = [gk EXCEPT !.steps = @ + 1, !.dragged = @ \/ GType(hit) = "scrollbar"]

glyph_window_dispatch_key(key) ==
  /\ GUp /\ ~gk.loose
  /\ g' = IF key = "tab"
          THEN LET next == glyph_widget_focus_next(g.w, g.n.root, g.n.focus)
               IN IF next = GNil THEN g ELSE glyph_window_set_focus(g, next)
          ELSE IF g.n.focus = GNil THEN g ELSE GOnKey(g, g.n.focus, key)
  /\ GStep

glyph_window_update_hover(x, y) ==
  /\ GUp /\ g.n.root # GNil
  /\ LET cx == x - client_ox
         cy == y - client_oy
         hit == IF GInClient(cx, cy) THEN hit_test_recursive(g.w, g.n.root, cx, cy) ELSE GNil
         turn(q, i) == IF q.w[i].hov = (i = hit) THEN q
                       ELSE glyph_widget_mark_dirty([q EXCEPT !.w[i].hov = (i = hit)], i)
     IN g' = FoldLeft(turn, g, GWalk(g.w, g.n.root, FALSE))
  /\ GStep

\* Frame and widgets are drawn anew into the surface.
glyph_window_render(q) ==
  LET drawn == ToSet(GWalk(q.w, q.n.root, TRUE))
  IN [q EXCEPT !.w = [i \in GIds |-> IF i \in drawn THEN [@[i] EXCEPT !.dirty = FALSE] ELSE @[i]],
               !.n.dirty = FALSE, !.n.rect = GNoRect]

\* The cells of the surface in a rectangle, and where a rectangle of the
\* client area is in the window.
GCells(r) ==
  {c \in (0..(GSurface.w - 1)) \X (0..(GSurface.h - 1)) :
     /\ c[1] >= r.x /\ c[1] < r.x + r.w
     /\ c[2] >= r.y /\ c[2] < r.y + r.h}
GDrawnAt(r) == GRect(r.x + client_ox, r.y + client_oy, r.w, r.h)
GChanged(q) == UNION {GCells(GDrawnAt(GAt(q.w, i))) : i \in {j \in ToSet(GWalk(q.w, q.n.root, TRUE)) : q.w[j].dirty}}

\* comp_composite: a dirty window that meets its rectangle is drawn, and the
\* rectangle is copied to the screen.  Ghosts: stale, the cells whose change
\* did not get there; missed, the cells that would have if the rectangle had
\* been moved by the frame.
comp_composite ==
  /\ GUp /\ g.n.dirty /\ GCells(g.n.rect) # {}
  /\ LET shown == GCells(g.n.rect)
     IN g' = [glyph_window_render(g) EXCEPT !.n.stale = (@ \cup GChanged(g)) \ shown,
                                            !.n.missed = (@ \cup GCells(GDrawnAt(g.n.rect))) \ shown]
  /\ GStep

\* Another window came, went, was raised or was dropped: everything is drawn
\* and copied.
GFullRedraw ==
  /\ GUp /\ g.n.stale # {}
  /\ g' = [glyph_window_render([g EXCEPT !.n = glyph_window_mark_all_dirty(@)]) EXCEPT !.n.stale = {}, !.n.missed = {}]
  /\ GStep

GlyphInit ==
  /\ g = [w |-> [i \in GIds |-> glyph_widget_init(i)], s |-> [i \in GIds |-> GControl],
          n |-> [root |-> GNil, focus |-> GNil, dirty |-> TRUE, rect |-> GSurface, closed |-> FALSE,
                stale |-> {}, missed |-> {}]]
  /\ gk = [done |-> 0, steps |-> 0, grown |-> FALSE, late |-> FALSE, loose |-> FALSE, again |-> FALSE, dragged |-> FALSE]

GlyphNext ==
  \/ GBuild \/ GClose \/ comp_composite \/ GFullRedraw
  \/ \E call \in (IF load.part = "glyph" THEN load.later ELSE {}) : GLater(call)
  \/ \E x \in 0..(GSurface.w - 1), y \in 0..(GSurface.h - 1) : glyph_window_dispatch_mouse(x, y)
  \/ \E x \in 0..(GSurface.w - 1), y \in 0..(GSurface.h - 1) :
       x - client_ox = y - client_oy /\ glyph_window_update_hover(x, y)
  \/ \E key \in {"tab", "a", "j", "k", "del", "enter", "esc"} : glyph_window_dispatch_key(key)

(***************************** what must hold ******************************)

GTree == GWalk(g.w, g.n.root, FALSE)
GShown == GWalk(g.w, g.n.root, TRUE)
GOpen == load.part = "glyph" /\ ~g.n.closed

\* Nobody types into what cannot be seen: the focus is on a widget of the tree
\* that takes it and is shown, also after the tab it was on was left
\* (window.c:271-273, 335-348, tabs.c:72-80).
GFocusSeen ==
  GOpen /\ ~gk.loose /\ g.n.focus # GNil => g.n.focus \in ToSet(GShown) /\ GType(g.n.focus) \in GFocusable

\* Tab goes round all the widgets that can be reached, in the order of the tree,
\* whatever is hidden (widget.c:153-204).
GTabGoesRound ==
  GOpen /\ g.n.root # GNil =>
    LET stops == SelectSeq(GShown, LAMBDA i : GType(i) \in GFocusable)
    IN \A k \in DOMAIN stops : glyph_widget_focus_next(g.w, g.n.root, stops[k]) = stops[(k % Len(stops)) + 1]

\* What changed is reported: a widget that is shown and dirty lies, in client
\* coordinates, in the window's rectangle, and what the screen does not show
\* of the widgets is what the missing offset of that rectangle leaves out, the
\* lowest rows and the last columns of what changed; a full redraw brings them
\* (widget.c:98-118, window.c:233-237, 351-389, compositor.c:304-314, 447-450).
\* Nothing is said after a tree was added below a widget that had a window.
GInside(a, b) == a.x >= b.x /\ a.y >= b.y /\ a.x + a.w <= b.x + b.w /\ a.y + a.h <= b.y + b.h
GClip(r) == GRect(r.x, r.y, GMin(r.w, GClient - r.x), GMin(r.h, GClient - r.y))
GDirtySeen ==
  GOpen /\ ~gk.late =>
    /\ \A i \in ToSet(GShown) :
         g.w[i].dirty /\ ~glyph_rect_empty(GClip(GAt(g.w, i))) => g.n.dirty /\ GInside(GClip(GAt(g.w, i)), g.n.rect)
    /\ g.n.stale \subseteq g.n.missed

\* A box holds its visible children side by side and whole, boxes in boxes
\* included (box.c:40-100).
GApart(a, b) == a.x + a.w <= b.x \/ b.x + b.w <= a.x \/ a.y + a.h <= b.y \/ b.y + b.h <= a.y
GLaidOut ==
  load.part = "glyph" /\ ~gk.grown /\ gk.steps = 0 =>
    \A b \in GIds : GType(b) \in GBoxes /\ g.w[b].live =>
      LET kids == {i \in ToSet(g.w[b].kids) : g.w[i].vis}
      IN \A i \in kids : /\ GInside(GRect(g.w[i].x, g.w[i].y, g.w[i].w, g.w[i].h), GRect(0, 0, g.w[b].w, g.w[b].h))
                         /\ \A j \in kids \ {i} : GApart(g.w[i], g.w[j])

\* A field holds what was typed, with the cursor in it and an end after it, and
\* the program was told of it (textfield.c:48-105).
GTextSound ==
  \A i \in GIds : LET s == g.s[i] IN s.cur <= s.len /\ s.len = Len(s.text) /\ GStr(s) = s.text

\* A list shows items it has, one of them selected, and its bar stands where the
\* list does; the selection stays in view unless the bar was moved
\* (listview.c:49-172, scrollbar.c:48-112).
GListSound ==
  \A i \in GIds : GType(i) = "list" /\ g.w[i].kids # <<>> /\ g.w[i].live =>
    LET s == g.s[i] IN
    /\ (s.count > 0) = (s.sel >= 0) /\ s.sel < s.count
    /\ s.off >= 0 /\ s.off <= GMax(s.count - GRows, 0)
    /\ ~gk.again => g.s[GBar(g, i)].val = s.off
    /\ s.count > 0 /\ ~gk.dragged => s.sel >= s.off /\ s.sel < s.off + GRows

\* The tree is one: a child names its parent, every widget of it is alive and
\* knows its window, one at most is under the pointer, and one panel of a tab
\* container is shown (widget.c:57-96, window.c:391-416, tabs.c:57-115).
GTreeSound ==
  GOpen =>
    /\ \A i \in ToSet(GTree) : /\ g.w[i].live /\ (gk.late \/ g.w[i].win)
                               /\ \A k \in ToSet(g.w[i].kids) : g.w[k].par = i
                               /\ Len(g.w[i].kids) <= GChildren
    /\ Cardinality({i \in ToSet(GTree) : g.w[i].hov}) <= 1
    /\ \A i \in ToSet(GTree) : GType(i) = "tabs" /\ g.s[i].panels # <<>> =>
         {k \in ToSet(g.s[i].panels) : g.w[k].vis} = {g.s[i].panels[g.s[i].act]}

GlyphIntact ==
  GFocusSeen /\ GTabGoesRound /\ GDirtySeen /\ GLaidOut /\ GTextSound /\ GListSound /\ GTreeSound
=============================================================================
