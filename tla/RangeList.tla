----------------------------- MODULE RangeList -----------------------------
(***************************************************************************)
(* The unsorted free list of address ranges that the kernel keeps twice:   *)
(* for its own virtual addresses (mm/kva.c) and for each process's mmap    *)
(* area (syscall/sys_memory.c).  Allocation is best fit; removing entry i  *)
(* moves the last entry into its place.  A range [va, n] is n pages from   *)
(* page va.                                                                *)
(*                                                                         *)
(* Below it the table of a process's mappings (mm/vma.c): a page of slots  *)
(* of which the first n are valid, sorted by address.  An entry is a range *)
(* with a protection and a type.  Slots past n keep what was last written  *)
(* there.                                                                  *)
(***************************************************************************)
EXTENDS Integers, Sequences

End(r) == r.va + r.n
PagesOf(r) == r.va .. End(r) - 1
Apart(r, q) == End(r) <= q.va \/ End(q) <= r.va
IsFirst(S, i) == i \in S /\ \A j \in S : i <= j
First(S) == CHOOSE i \in S : IsFirst(S, i)

\* list[i] = list[--count]
DropAt(l, i) == [k \in 1..Len(l) - 1 |-> IF k = i THEN l[Len(l)] ELSE l[k]]

\* The first of the smallest entries of at least n pages.
Fits(l, n) == {i \in DOMAIN l : l[i].n >= n}
IsBest(l, n, i) ==
  /\ i \in Fits(l, n)
  /\ \A j \in Fits(l, n) : l[i].n < l[j].n \/ (l[i].n = l[j].n /\ i <= j)
TakeAt(l, i, n) ==
  IF l[i].n = n THEN DropAt(l, i)
  ELSE [l EXCEPT ![i] = [va |-> l[i].va + n, n |-> l[i].n - n]]

\* The first entry that range r continues or precedes decides how r merges.
Touching(l, r) == {i \in DOMAIN l : End(l[i]) = r.va \/ End(r) = l[i].va}
AddNew(l, r, max) == IF Len(l) < max THEN Append(l, r) ELSE l

\* r continues entry i, which may now reach another entry.
Mut_MergeAfter(l, i, r) ==
  LET m == [l EXCEPT ![i] = [va |-> l[i].va, n |-> l[i].n + r.n]]
      J == {j \in DOMAIN l \ {i} : l[j].va = End(m[i])}
  IN  IF J = {} THEN m ELSE DropAt(m, First(J))
MergeAfter(l, i, r) ==
  LET m == [l EXCEPT ![i] = [va |-> l[i].va, n |-> l[i].n + r.n]]
      J == {j \in DOMAIN l \ {i} : l[j].va = End(m[i])}
      j == First(J)
  IN  IF J = {} THEN m
      ELSE DropAt([m EXCEPT ![i] = [va |-> m[i].va, n |-> m[i].n + m[j].n]], j)

\* r precedes entry i.
MergeBefore(l, i, r) == [l EXCEPT ![i] = [va |-> r.va, n |-> l[i].n + r.n]]

\* ... and, in mmap_free_insert only, another entry may now reach it.
MergeBoth(l, i, r) ==
  LET m == MergeBefore(l, i, r)
      J == {j \in DOMAIN l \ {i} : End(l[j]) = r.va}
      j == First(J)
  IN  IF J = {} THEN m
      ELSE DropAt([m EXCEPT ![j] = [va |-> m[j].va, n |-> m[j].n + m[i].n]], i)

-----------------------------------------------------------------------------
(*************************** the mapping table *****************************)

NoEntry == [va |-> 0, n |-> 0, prot |-> 0, type |-> "none"]
Gone == -1              \* in place of a protection: the range is removed

EmptyTable(cap) == [slot |-> [k \in 1..cap |-> NoEntry], n |-> 0]
Capacity(t) == Len(t.slot)
Entries(t) == {t.slot[k] : k \in 1..t.n}

CanMerge(a, b) == a.prot = b.prot /\ a.type = b.type /\ End(a) = b.va

\* Entry i is replaced by the sequence ps; what follows is shifted.
Replace(t, i, ps) ==
  LET d == Len(ps) - 1 IN
  [slot |-> [k \in DOMAIN t.slot |->
               IF k \in i..i + d THEN ps[k - i + 1]
               ELSE IF k > i + d /\ k <= t.n + d THEN t.slot[k - d]
               ELSE t.slot[k]],
   n |-> t.n + d]

InsertAt(t, i, e) ==
  [slot |-> [k \in DOMAIN t.slot |->
               IF k = i THEN e ELSE IF k > i /\ k <= t.n + 1 THEN t.slot[k - 1] ELSE t.slot[k]],
   n |-> t.n + 1]

Put(t, i, e) == [t EXCEPT !.slot[i] = e]

\* The first entry that does not lie below va.
Index(t, va) == First({k \in 1..t.n + 1 : k = t.n + 1 \/ t.slot[k].va >= va})

vma_insert(t, e) ==
  LET i == Index(t, e.va)
      left == [t.slot[i - 1] EXCEPT !.n = @ + e.n]
  IN  IF e.n = 0 THEN t
      ELSE IF i > 1 /\ CanMerge(t.slot[i - 1], e)
           THEN IF i <= t.n /\ CanMerge(left, t.slot[i])
                THEN Put(Replace(t, i, <<>>), i - 1, [left EXCEPT !.n = @ + t.slot[i].n])
                ELSE Put(t, i - 1, left)
      ELSE IF i <= t.n /\ CanMerge(e, t.slot[i])
           THEN Put(t, i, [e EXCEPT !.n = @ + t.slot[i].n])
      ELSE IF t.n >= Capacity(t) THEN t
      ELSE InsertAt(t, i, e)

\* What is left of entry e below and above range r, and the part inside.
Cut(e, lo, hi) == [e EXCEPT !.va = lo, !.n = hi - lo]
Below(e, r) == IF e.va < r.va THEN <<Cut(e, e.va, r.va)>> ELSE <<>>
Mut_Above(e, r) == <<>>
Above(e, r) == IF End(r) < End(e) THEN <<Cut(e, End(r), End(e))>> ELSE <<>>
Inside(e, r) ==
  Cut(e, IF e.va < r.va THEN r.va ELSE e.va, IF End(r) < End(e) THEN End(r) ELSE End(e))

Pieces(e, r, prot) ==
  IF prot = Gone THEN Below(e, r) \o Above(e, r)
  ELSE Below(e, r) \o <<[Inside(e, r) EXCEPT !.prot = prot]>> \o Above(e, r)

\* The loop of vma_remove and vma_update_prot: every entry that meets r is
\* replaced by its pieces, unless the table has no room for them.  A turn of
\* the loop, on the table and the index, leaves one entry fewer to look at,
\* so that the loop has as many turns as the table has entries.
Turn(x, r, prot) ==
  LET t == x.t
      e == t.slot[x.i]
      ps == Pieces(e, r, prot)
  IN  IF Apart(e, r) \/ e.prot = prot \/ t.n + Len(ps) - 1 > Capacity(t)
      THEN [t |-> t, i |-> x.i + 1]
      ELSE [t |-> Replace(t, x.i, ps), i |-> x.i + Len(ps)]

Turns(t, r, prot) ==
  LET w[k \in 0..t.n] == IF k = 0 THEN [t |-> t, i |-> 1] ELSE Turn(w[k - 1], r, prot)
  IN  w
Walk(t, r, prot) == Turns(t, r, prot)[t.n].t

vma_remove(t, r) == IF r.n = 0 THEN t ELSE Walk(t, r, Gone)
vma_update_prot(t, r, prot) == IF r.n = 0 THEN t ELSE Walk(t, r, prot)
vma_clear(t) == [t EXCEPT !.n = 0]
=============================================================================
