----------------------------- MODULE Vma_proofs -----------------------------
(***************************************************************************)
(* The mapping table shows every page as it is, for every size of the      *)
(* table and of the address space.  The inductive invariant VmaIInv says   *)
(* that the valid entries are in order and apart, and that some entry      *)
(* shows page v with a protection and a type exactly when v is mapped so.  *)
(* Order is what makes vma_insert's search find the right neighbours; the  *)
(* loop of vma_remove and vma_update_prot is followed turn by turn, since  *)
(* an entry it replaces by up to three shifts all that it has not seen.    *)
(***************************************************************************)
EXTENDS Vma, WellFoundedInduction, TLAPS

-----------------------------------------------------------------------------
(* Tables, and what their entries show. *)

Shows(e, v, p, y) == v \in PagesOf(e) /\ e.prot = p /\ e.type = y
Has(t, a, b, v, p, y) == \E j \in a..b : Shows(t.slot[j], v, p, y)
Mapping(e) == e \in Entry /\ End(e) <= MaxVa + 1

Tables == [slot : [1..VMA_CAPACITY -> Entry \cup {NoEntry}], n : 0..VMA_CAPACITY]
InOrder(s, n) == \A j, k \in 1..n : j < k => End(s[j]) <= s[k].va
TableOK(t) ==
  /\ t \in Tables
  /\ \A k \in 1..t.n : Mapping(t.slot[k])
  /\ InOrder(t.slot, t.n)

\* u is t with ps in place of the entries a to b.
Spliced(u, t, a, b, ps) ==
  /\ u \in Tables
  /\ u.n = (t.n - ((b - a) + 1)) + Len(ps)
  /\ \A k \in 1..a-1 : u.slot[k] = t.slot[k]
  /\ \A k \in 1..Len(ps) : u.slot[(a - 1) + k] = ps[k]
  /\ \A k \in b+1..t.n : u.slot[(k - ((b - a) + 1)) + Len(ps)] = t.slot[k]

\* The fields of an entry are numbers, and an entry is never empty.
LEMMA EntryNumbers ==
  ASSUME NEW e \in Entry
  PROVE  /\ e.va \in Nat \ {0} /\ e.n \in Nat \ {0} /\ End(e) \in Nat /\ e.va < End(e)
         /\ e.prot \in Prots /\ e.type \in Types
<1>1. MaxVa \in Nat
  BY VmaAssumption, Zenon
<1>2. e.va \in 1..MaxVa /\ e.n \in 1..MaxVa /\ e.prot \in Prots /\ e.type \in Types
  BY Zenon DEF Entry, Pages
<1> QED BY <1>1, <1>2 DEF End

\* A splice of mappings that lie between the entries they stand between keeps
\* the table in order.
LEMMA SplicedKeeps ==
  ASSUME NEW t, TableOK(t), NEW u, NEW ps, NEW a \in 1..t.n + 1, NEW b \in a-1..t.n, Len(ps) \in Nat,
         Spliced(u, t, a, b, ps),
         \A k \in 1..Len(ps) : Mapping(ps[k]),
         InOrder(ps, Len(ps)),
         \A j \in 1..a-1, k \in 1..Len(ps) : End(t.slot[j]) <= ps[k].va,
         \A j \in 1..Len(ps), k \in b+1..t.n : End(ps[j]) <= t.slot[k].va
  PROVE  TableOK(u)
<1> DEFINE L == Len(ps)
           c == (b - a) + 1
<1>0. VMA_CAPACITY \in Nat /\ t.n \in 0..VMA_CAPACITY /\ u.n \in 0..VMA_CAPACITY /\ u \in Tables
  BY VmaAssumption, Zenon DEF TableOK, Tables, Spliced
<1>1. /\ t.n \in Nat /\ u.n \in Nat /\ L \in Nat /\ a \in Int /\ b \in Int /\ c \in Nat /\ 1 <= a /\ a <= b + 1 /\ b <= t.n
      /\ b = (a + c) - 1
  BY <1>0
<1>2. u.n = (t.n - c) + L
  BY Zenon DEF Spliced
<1> HIDE DEF L, c
<1>3. \A k \in 1..a-1 : u.slot[k] = t.slot[k]
  BY Zenon DEF Spliced
<1>4. \A k \in a..(a + L) - 1 : u.slot[k] = ps[(k - a) + 1] /\ (k - a) + 1 \in 1..L
  <2>1. ASSUME NEW k \in a..(a + L) - 1 PROVE u.slot[k] = ps[(k - a) + 1] /\ (k - a) + 1 \in 1..L
    <3>1. (k - a) + 1 \in 1..L /\ (a - 1) + ((k - a) + 1) = k
      BY <1>1, <2>1
    <3> QED BY <3>1, Zenon DEF Spliced, L
  <2> QED BY <2>1, Zenon
<1>5. \A k \in a + L..u.n : u.slot[k] = t.slot[(k + c) - L] /\ (k + c) - L \in b+1..t.n
  <2>1. ASSUME NEW k \in a + L..u.n PROVE u.slot[k] = t.slot[(k + c) - L] /\ (k + c) - L \in b+1..t.n
    <3>1. (k + c) - L \in b+1..t.n /\ (((k + c) - L) - c) + L = k
      BY <1>1, <1>2, <2>1
    <3> QED BY <3>1, Zenon DEF Spliced, L, c
  <2> QED BY <2>1, Zenon
<1>6. \A k \in 1..u.n : k \in 1..a-1 \/ k \in a..(a + L) - 1 \/ k \in a + L..u.n
  BY <1>1
<1>7. /\ \A k \in 1..a-1 : k \in 1..t.n
      /\ \A k \in b+1..t.n : k \in 1..t.n
  BY <1>1
<1>8. \A k \in 1..u.n : Mapping(u.slot[k])
  BY <1>3, <1>4, <1>5, <1>6, <1>7, Zenon DEF TableOK, L
<1>9. ASSUME NEW j \in 1..u.n, NEW k \in 1..u.n, j < k
      PROVE  End(u.slot[j]) <= u.slot[k].va
  <2>1. CASE k \in 1..a-1
    <3>1. j \in 1..a-1
      BY <1>1, <1>9, <2>1
    <3> QED BY <3>1, <2>1, <1>3, <1>7, <1>9, Zenon DEF TableOK, InOrder
  <2>2. CASE k \in a..(a + L) - 1
    <3>1. CASE j \in 1..a-1
      BY <3>1, <2>2, <1>3, <1>4, Zenon DEF L
    <3>2. CASE j \in a..(a + L) - 1
      <4>1. (j - a) + 1 < (k - a) + 1
        BY <1>1, <1>9, <2>2, <3>2
      <4>2. End(ps[(j - a) + 1]) <= ps[(k - a) + 1].va
        BY <4>1, <3>2, <2>2, <1>4, Zenon DEF InOrder, L
      <4> QED BY <4>2, <3>2, <2>2, <1>4, Zenon
    <3>3. ~(j \in a + L..u.n)
      BY <1>1, <1>9, <2>2
    <3> QED BY <3>1, <3>2, <3>3, <1>6, Zenon
  <2>3. CASE k \in a + L..u.n
    <3>0. (k + c) - L \in b+1..t.n /\ (k + c) - L \in 1..t.n /\ u.slot[k] = t.slot[(k + c) - L]
      BY <1>5, <2>3, <1>7, Zenon
    <3>1. CASE j \in 1..a-1
      <4>1. j < (k + c) - L
        BY <1>1, <3>0, <3>1
      <4> QED BY <4>1, <3>0, <3>1, <1>3, <1>7, Zenon DEF TableOK, InOrder
    <3>2. CASE j \in a..(a + L) - 1
      BY <3>2, <3>0, <1>4, Zenon DEF L
    <3>3. CASE j \in a + L..u.n
      <4>1. (j + c) - L < (k + c) - L
        BY <1>1, <1>9, <2>3, <3>3
      <4>2. (j + c) - L \in 1..t.n /\ u.slot[j] = t.slot[(j + c) - L]
        BY <1>5, <3>3, <1>7, Zenon
      <4> QED BY <4>1, <4>2, <3>0, Zenon DEF TableOK, InOrder
    <3> QED BY <3>1, <3>2, <3>3, <1>6, Zenon
  <2> QED BY <2>1, <2>2, <2>3, <1>6, Zenon
<1> QED BY <1>0, <1>8, <1>9, Zenon DEF TableOK, InOrder

\* A spliced table shows what the entries before, the pieces and the entries
\* after show.
LEMMA SplicedShows ==
  ASSUME NEW t, TableOK(t), NEW u, NEW ps, NEW a \in 1..t.n + 1, NEW b \in a-1..t.n, Len(ps) \in Nat,
         Spliced(u, t, a, b, ps), NEW v, NEW p, NEW y
  PROVE  /\ Has(u, 1, (a + Len(ps)) - 1, v, p, y)
              <=> Has(t, 1, a - 1, v, p, y) \/ \E k \in 1..Len(ps) : Shows(ps[k], v, p, y)
         /\ Has(u, a + Len(ps), u.n, v, p, y) <=> Has(t, b + 1, t.n, v, p, y)
<1> DEFINE L == Len(ps)
           c == (b - a) + 1
<1>0. VMA_CAPACITY \in Nat /\ t.n \in 0..VMA_CAPACITY /\ u.n \in 0..VMA_CAPACITY
  BY VmaAssumption, Zenon DEF TableOK, Tables, Spliced
<1>1. /\ t.n \in Nat /\ u.n \in Nat /\ L \in Nat /\ a \in Int /\ b \in Int /\ c \in Nat /\ 1 <= a /\ a <= b + 1 /\ b <= t.n
      /\ b = (a + c) - 1
  BY <1>0
<1>2. u.n = (t.n - c) + L
  BY Zenon DEF Spliced
<1> HIDE DEF L, c
<1>3. \A k \in 1..a-1 : u.slot[k] = t.slot[k]
  BY Zenon DEF Spliced
<1>4. \A k \in 1..L : u.slot[(a - 1) + k] = ps[k]
  BY Zenon DEF Spliced, L
<1>5. \A k \in b+1..t.n : u.slot[(k - c) + L] = t.slot[k]
  BY Zenon DEF Spliced, L, c
<1>6. ASSUME NEW j \in 1..(a + L) - 1, Shows(u.slot[j], v, p, y)
      PROVE  Has(t, 1, a - 1, v, p, y) \/ \E k \in 1..L : Shows(ps[k], v, p, y)
  <2>1. CASE j \in 1..a-1
    BY <2>1, <1>3, <1>6, Zenon DEF Has
  <2>2. CASE j \notin 1..a-1
    <3>1. (j - a) + 1 \in 1..L /\ (a - 1) + ((j - a) + 1) = j
      BY <1>1, <1>6, <2>2
    <3> QED BY <3>1, <1>4, <1>6, Zenon
  <2> QED BY <2>1, <2>2, Zenon
<1>7. ASSUME NEW j \in 1..a-1, Shows(t.slot[j], v, p, y)
      PROVE  Has(u, 1, (a + L) - 1, v, p, y)
  <2>1. j \in 1..(a + L) - 1
    BY <1>1
  <2> QED BY <2>1, <1>3, <1>7, Zenon DEF Has
<1>8. ASSUME NEW k \in 1..L, Shows(ps[k], v, p, y)
      PROVE  Has(u, 1, (a + L) - 1, v, p, y)
  <2>1. (a - 1) + k \in 1..(a + L) - 1
    BY <1>1
  <2> QED BY <2>1, <1>4, <1>8, Zenon DEF Has
<1>9. ASSUME NEW j \in a + L..u.n, Shows(u.slot[j], v, p, y)
      PROVE  Has(t, b + 1, t.n, v, p, y)
  <2>1. (j + c) - L \in b+1..t.n /\ (((j + c) - L) - c) + L = j
    BY <1>1, <1>2
  <2> QED BY <2>1, <1>5, <1>9, Zenon DEF Has
<1>10. ASSUME NEW k \in b+1..t.n, Shows(t.slot[k], v, p, y)
       PROVE  Has(u, a + L, u.n, v, p, y)
  <2>1. (k - c) + L \in a + L..u.n
    BY <1>1, <1>2
  <2> QED BY <2>1, <1>5, <1>10, Zenon DEF Has
<1> QED BY <1>6, <1>7, <1>8, <1>9, <1>10, Zenon DEF Has, L

\* What the entries a to c show, the entries a to b or b + 1 to c show.
LEMMA HasSplit ==
  ASSUME NEW t, NEW m \in Nat, NEW k \in 0..m, NEW v, NEW p, NEW y
  PROVE  Has(t, 1, m, v, p, y) <=> Has(t, 1, k, v, p, y) \/ Has(t, k + 1, m, v, p, y)
<1>1. \A j : j \in 1..m <=> j \in 1..k \/ j \in k+1..m
  OBVIOUS
<1> QED BY <1>1, Zenon DEF Has

\* What entry e becomes when range r is removed, or given protection prot.
Becomes(e, r, prot, v, p, y) ==
  /\ v \in PagesOf(e) /\ e.type = y
  /\ IF v \in PagesOf(r) THEN prot # Gone /\ p = prot ELSE p = e.prot

\* c is the part of e from lo to hi, with protection q.
IsPart(c, e, lo, hi, q) == Mapping(c) /\ c.va = lo /\ End(c) = hi /\ c.prot = q /\ c.type = e.type

\* Cut makes the part of an entry from lo to hi.
LEMMA CutIs ==
  ASSUME NEW e, Mapping(e), NEW lo \in Int, NEW hi \in Int, e.va <= lo, lo < hi, hi <= End(e)
  PROVE  /\ IsPart(Cut(e, lo, hi), e, lo, hi, e.prot)
         /\ \A q \in Prots : IsPart([Cut(e, lo, hi) EXCEPT !.prot = q], e, lo, hi, q)
<1> DEFINE c == Cut(e, lo, hi)
<1>0. MaxVa \in Nat /\ e \in Entry /\ End(e) <= MaxVa + 1
  BY VmaAssumption, Zenon DEF Mapping
<1>1. e.va \in Nat \ {0} /\ e.n \in Nat \ {0} /\ End(e) = e.va + e.n /\ e.n \in 1..MaxVa
  <2>1. e.n \in 1..MaxVa
    BY <1>0, Zenon DEF Entry, Pages
  <2> QED BY <2>1, <1>0, EntryNumbers, Zenon DEF End
<1>2. lo \in 1..MaxVa /\ hi - lo \in 1..MaxVa /\ lo + (hi - lo) = hi
  BY <1>0, <1>1
<1>3. /\ c = [va |-> lo, n |-> hi - lo, prot |-> e.prot, type |-> e.type]
      /\ e.prot \in Prots /\ e.type \in Types
  <2>1. e = [va |-> e.va, n |-> e.n, prot |-> e.prot, type |-> e.type]
    BY <1>0, Zenon DEF Entry
  <2>2. c = [e EXCEPT !.va = lo, !.n = hi - lo]
    BY Zenon DEF Cut
  <2> QED BY <2>1, <2>2, <1>0, Zenon DEF Entry
<1> HIDE DEF c
<1>4. c \in Entry /\ c.va = lo /\ c.n = hi - lo /\ c.prot = e.prot /\ c.type = e.type
  BY <1>2, <1>3, Zenon DEF Entry, Pages
<1>5. End(c) = hi
  BY <1>2, <1>4, Zenon DEF End
<1>6. ASSUME NEW q \in Prots
      PROVE  IsPart([c EXCEPT !.prot = q], e, lo, hi, q)
  <2> DEFINE m == [c EXCEPT !.prot = q]
  <2>1. m = [va |-> lo, n |-> hi - lo, prot |-> q, type |-> e.type]
    BY <1>3
  <2> HIDE DEF m
  <2>2. m \in Entry /\ m.va = lo /\ m.n = hi - lo /\ m.prot = q /\ m.type = e.type
    BY <1>2, <1>3, <2>1, Zenon DEF Entry, Pages
  <2>3. End(m) = hi
    BY <1>2, <2>2, Zenon DEF End
  <2>4. hi <= MaxVa + 1
    BY <1>0, <1>1
  <2> QED BY <2>2, <2>3, <2>4, Zenon DEF Mapping, IsPart, m
<1>7. hi <= MaxVa + 1
  BY <1>0, <1>1
<1> QED BY <1>4, <1>5, <1>6, <1>7, Zenon DEF Mapping, IsPart, c

\* x, if it is there.
Opt(c, x) == IF c = 1 THEN <<x>> ELSE <<>>

\* ps is made of b, m and a, as far as they are there, in this order.
Assembled(ps, b, m, a, B, M, A) ==
  /\ Len(ps) = (B + M) + A
  /\ \A k \in 1..Len(ps) : (B = 1 /\ ps[k] = b) \/ (M = 1 /\ ps[k] = m) \/ (A = 1 /\ ps[k] = a)
  /\ B = 1 => \E k \in 1..Len(ps) : ps[k] = b
  /\ M = 1 => \E k \in 1..Len(ps) : ps[k] = m
  /\ A = 1 => \E k \in 1..Len(ps) : ps[k] = a
  /\ \A j, k \in 1..Len(ps) : j < k =>
       \/ B = 1 /\ M = 1 /\ ps[j] = b /\ ps[k] = m
       \/ B = 1 /\ A = 1 /\ ps[j] = b /\ ps[k] = a
       \/ M = 1 /\ A = 1 /\ ps[j] = m /\ ps[k] = a

\* The concatenation of two sequences.
LEMMA ConcatIs ==
  ASSUME NEW S, NEW s1 \in Seq(S), NEW s2 \in Seq(S)
  PROVE  /\ s1 \o s2 \in Seq(S)
         /\ Len(s1 \o s2) = Len(s1) + Len(s2)
         /\ \A i \in 1..Len(s1) + Len(s2) :
              (s1 \o s2)[i] = IF i <= Len(s1) THEN s1[i] ELSE s2[i - Len(s1)]
  OBVIOUS

\* Pieces in order, of which any may be missing, put together.
LEMMA ThreeParts ==
  ASSUME NEW b, NEW m, NEW a, NEW B \in {0, 1}, NEW M \in {0, 1}, NEW A \in {0, 1},
         NEW ps, ps = Opt(B, b) \o Opt(M, m) \o Opt(A, a)
  PROVE  Assembled(ps, b, m, a, B, M, A)
<1> DEFINE S == {b, m, a}
           o == Opt(B, b) \o Opt(M, m)
<1>1. \A c \in {0, 1}, x \in S : Opt(c, x) \in Seq(S) /\ Len(Opt(c, x)) = c /\ (c = 1 => Opt(c, x)[1] = x)
  <2> SUFFICES ASSUME NEW c \in {0, 1}, NEW x \in S
               PROVE  Opt(c, x) \in Seq(S) /\ Len(Opt(c, x)) = c /\ (c = 1 => Opt(c, x)[1] = x)
    BY Zenon
  <2> HIDE DEF S
  <2>1. CASE c = 1
    <3>1. Opt(c, x) = <<x>>
      BY <2>1, Zenon DEF Opt
    <3> QED BY <3>1, <2>1
  <2>2. CASE c = 0
    <3>1. Opt(c, x) = <<>>
      BY <2>2 DEF Opt
    <3> QED BY <3>1, <2>2
  <2> QED BY <2>1, <2>2, Zenon
<1>2. b \in S /\ m \in S /\ a \in S
  BY Zenon
<1> HIDE DEF S
<1>2a. /\ Opt(B, b) \in Seq(S) /\ Len(Opt(B, b)) = B
       /\ Opt(M, m) \in Seq(S) /\ Len(Opt(M, m)) = M
       /\ Opt(A, a) \in Seq(S) /\ Len(Opt(A, a)) = A
  BY <1>1, <1>2, Zenon
<1>3. /\ o \in Seq(S) /\ Len(o) = B + M
      /\ \A i \in 1..B + M : o[i] = IF i <= B THEN Opt(B, b)[i] ELSE Opt(M, m)[i - B]
  <2>1. /\ Opt(B, b) \o Opt(M, m) \in Seq(S)
        /\ Len(Opt(B, b) \o Opt(M, m)) = Len(Opt(B, b)) + Len(Opt(M, m))
        /\ \A i \in 1..Len(Opt(B, b)) + Len(Opt(M, m)) :
             (Opt(B, b) \o Opt(M, m))[i] =
                IF i <= Len(Opt(B, b)) THEN Opt(B, b)[i] ELSE Opt(M, m)[i - Len(Opt(B, b))]
    BY <1>2a, ConcatIs, Zenon
  <2> QED BY <2>1, <1>2a, Zenon
<1> HIDE DEF o
<1>4. /\ Len(o \o Opt(A, a)) = (B + M) + A
      /\ \A i \in 1..(B + M) + A : (o \o Opt(A, a))[i] = IF i <= B + M THEN o[i] ELSE Opt(A, a)[i - (B + M)]
  <2>1. /\ Len(o \o Opt(A, a)) = Len(o) + Len(Opt(A, a))
        /\ \A i \in 1..Len(o) + Len(Opt(A, a)) :
             (o \o Opt(A, a))[i] = IF i <= Len(o) THEN o[i] ELSE Opt(A, a)[i - Len(o)]
    BY <1>2a, <1>3, ConcatIs, Zenon
  <2> QED BY <2>1, <1>2a, <1>3, Zenon
<1>5. ps = o \o Opt(A, a)
  BY Zenon DEF o
<1>6. Len(ps) = (B + M) + A
  BY <1>4, <1>5, Zenon
<1>7. B = 1 => ps[1] = b
  <2>1. SUFFICES ASSUME B = 1 PROVE ps[1] = b
    BY Zenon
  <2>2. 1 \in 1..(B + M) + A /\ 1 <= B + M /\ 1 \in 1..B + M /\ 1 <= B
    BY <2>1
  <2>3. ps[1] = o[1]
    BY <2>2, <1>4, <1>5, Zenon
  <2>4. o[1] = Opt(B, b)[1]
    BY <2>2, <1>3, Zenon
  <2> QED BY <2>1, <2>3, <2>4, <1>1, <1>2, Zenon
<1>8. M = 1 => ps[B + 1] = m
  <2>1. SUFFICES ASSUME M = 1 PROVE ps[B + 1] = m
    BY Zenon
  <2>2. B + 1 \in 1..(B + M) + A /\ B + 1 <= B + M /\ B + 1 \in 1..B + M /\ ~(B + 1 <= B) /\ (B + 1) - B = 1
    BY <2>1
  <2>3. ps[B + 1] = o[B + 1]
    BY <2>2, <1>4, <1>5, Zenon
  <2>4. o[B + 1] = Opt(M, m)[1]
    BY <2>2, <1>3, Zenon
  <2> QED BY <2>1, <2>3, <2>4, <1>1, <1>2, Zenon
<1>9. A = 1 => ps[(B + M) + 1] = a
  <2>1. SUFFICES ASSUME A = 1 PROVE ps[(B + M) + 1] = a
    BY Zenon
  <2>2. /\ (B + M) + 1 \in 1..(B + M) + A /\ ~((B + M) + 1 <= B + M)
        /\ ((B + M) + 1) - (B + M) = 1
    BY <2>1
  <2>3. ps[(B + M) + 1] = Opt(A, a)[1]
    BY <2>2, <1>4, <1>5, Zenon
  <2> QED BY <2>1, <2>3, <1>1, <1>2, Zenon
<1>10. /\ B = 1 => 1 \in 1..Len(ps)
       /\ M = 1 => B + 1 \in 1..Len(ps)
       /\ A = 1 => (B + M) + 1 \in 1..Len(ps)
  BY <1>6
<1>11. \A k \in 1..Len(ps) : (B = 1 /\ k = 1) \/ (M = 1 /\ k = B + 1) \/ (A = 1 /\ k = (B + M) + 1)
  BY <1>6
<1>12. \A j, k \in 1..Len(ps) : j < k =>
              \/ B = 1 /\ M = 1 /\ j = 1 /\ k = B + 1
              \/ B = 1 /\ A = 1 /\ j = 1 /\ k = (B + M) + 1
              \/ M = 1 /\ A = 1 /\ j = B + 1 /\ k = (B + M) + 1
  BY <1>6
<1> QED BY <1>6, <1>7, <1>8, <1>9, <1>10, <1>11, <1>12, Zenon DEF Assembled

\* Does e begin below r, or end above it?
Low(e, r) == IF e.va < r.va THEN 1 ELSE 0
High(e, r) == IF End(r) < End(e) THEN 1 ELSE 0

\* The fields of a range are numbers, and a range is never empty.
LEMMA RangeNumbers ==
  ASSUME NEW r \in Ranges
  PROVE  r.va \in Nat /\ r.n \in Nat \ {0} /\ End(r) \in Nat /\ r.va < End(r) /\ r.va \in 1..MaxVa /\ End(r) <= MaxVa + 1
<1>1. MaxVa \in Nat
  BY VmaAssumption, Zenon
<1>2. r.va \in 1..MaxVa /\ r.n \in 1..MaxVa /\ End(r) <= MaxVa + 1
  BY Zenon DEF Ranges, Pages
<1> QED BY <1>1, <1>2 DEF End

\* The pieces vma_remove and vma_update_prot put in place of an entry that
\* meets r are in order, inside the entry, and show what it becomes.
LEMMA PiecesDo ==
  ASSUME NEW e, Mapping(e), NEW r \in Ranges, ~Apart(e, r),
         NEW prot, prot = Gone \/ prot \in Prots, NEW ps, ps = Pieces(e, r, prot)
  PROVE  /\ Len(ps) \in Nat /\ Len(ps) <= e.n /\ Len(ps) <= (Low(e, r) + High(e, r)) + 1
         /\ \A k \in 1..Len(ps) : Mapping(ps[k]) /\ e.va <= ps[k].va /\ End(ps[k]) <= End(e)
         /\ InOrder(ps, Len(ps))
         /\ \A v, p, y : (\E k \in 1..Len(ps) : Shows(ps[k], v, p, y)) <=> Becomes(e, r, prot, v, p, y)
<1> DEFINE ev == e.va
           ee == End(e)
           rv == r.va
           re == End(r)
           lo == IF ev < rv THEN rv ELSE ev
           hi == IF re < ee THEN re ELSE ee
           b == Cut(e, ev, rv)
           m == [Inside(e, r) EXCEPT !.prot = prot]
           a == Cut(e, re, ee)
           B == Low(e, r)
           M == IF prot = Gone THEN 0 ELSE 1
           A == High(e, r)
<1>0. /\ ev \in Int /\ ee \in Int /\ rv \in Int /\ re \in Int /\ ev < ee /\ rv < re
      /\ e.n \in Int /\ ee = ev + e.n
  <2>1. e \in Entry
    BY Zenon DEF Mapping
  <2>2. ev \in Nat \ {0} /\ ee \in Nat /\ ev < ee /\ rv \in Nat /\ re \in Nat /\ rv < re /\ e.n \in Nat \ {0}
    BY <2>1, EntryNumbers, RangeNumbers, Zenon
  <2>3. ee = ev + e.n
    BY Zenon DEF End
  <2> QED BY <2>2, <2>3
<1>1. ev < re /\ rv < ee
  <2>1. ~(ee <= rv) /\ ~(re <= ev)
    BY Zenon DEF Apart
  <2> HIDE DEF ev, ee, rv, re
  <2> QED BY <2>1, <1>0
<1>2. B \in {0, 1} /\ M \in {0, 1} /\ A \in {0, 1}
  BY Zenon DEF Low, High
<1>3. /\ B = 1 <=> ev < rv
      /\ A = 1 <=> re < ee
      /\ M = 1 <=> prot # Gone
  BY DEF Low, High
<1>4. ps = Opt(B, b) \o Opt(M, m) \o Opt(A, a)
  <2>1. Opt(B, b) = Below(e, r)
    <3>1. CASE ev < rv
      BY <3>1, <1>3, Zenon DEF Below, Opt
    <3>2. CASE ~(ev < rv)
      BY <3>2, <1>3, Zenon DEF Below, Opt
    <3> QED BY <3>1, <3>2, Zenon
  <2>2. Opt(A, a) = Above(e, r)
    <3>1. CASE re < ee
      BY <3>1, <1>3, Zenon DEF Above, Opt
    <3>2. CASE ~(re < ee)
      BY <3>2, <1>3, Zenon DEF Above, Opt
    <3> QED BY <3>1, <3>2, Zenon
  <2>3. CASE prot # Gone
    <3>1. Opt(M, m) = <<m>>
      BY <2>3, <1>3, Zenon DEF Opt
    <3>2. ps = Below(e, r) \o <<m>> \o Above(e, r)
      BY <2>3, Zenon DEF Pieces
    <3> QED BY <2>1, <2>2, <3>1, <3>2, Zenon
  <2>4. CASE prot = Gone
    <3>1. Opt(M, m) = <<>>
      BY <2>4, <1>3, Zenon DEF Opt
    <3>2. ps = Below(e, r) \o Above(e, r)
      BY <2>4, Zenon DEF Pieces
    <3>3. Below(e, r) = <<b>> \/ Below(e, r) = <<>>
      BY Zenon DEF Below
    <3> HIDE DEF b
    <3>4. Below(e, r) \o <<>> = Below(e, r)
      BY <3>3
    <3> QED BY <2>1, <2>2, <3>1, <3>2, <3>4, Zenon
  <2> QED BY <2>3, <2>4, Zenon
<1>5. ev < rv => IsPart(b, e, ev, rv, e.prot)
  <2>1. ev <= ev /\ rv <= ee
    BY <1>0, <1>1
  <2> QED BY <2>1, <1>0, CutIs, Zenon
<1>6. re < ee => IsPart(a, e, re, ee, e.prot)
  <2>1. ev <= re /\ ee <= ee
    BY <1>0, <1>1
  <2> QED BY <2>1, <1>0, CutIs, Zenon
<1>7. prot # Gone => IsPart(m, e, lo, hi, prot)
  <2>1. lo \in Int /\ hi \in Int /\ ev <= lo /\ lo < hi /\ hi <= ee
    BY <1>0, <1>1
  <2>2. Inside(e, r) = Cut(e, lo, hi)
    BY Zenon DEF Inside
  <2> HIDE DEF lo, hi
  <2> QED BY <2>1, <2>2, CutIs, Zenon
<1>8. lo \in Int /\ hi \in Int /\ ev <= lo /\ rv <= lo /\ lo < hi /\ hi <= ee /\ hi <= re
      /\ (ev < rv => lo = rv) /\ (~(ev < rv) => lo = ev) /\ (re < ee => hi = re) /\ (~(re < ee) => hi = ee)
  BY <1>0, <1>1
<1> HIDE DEF ev, ee, rv, re, lo, hi, b, m, a, B, M, A
<1>9. Assembled(ps, b, m, a, B, M, A)
  BY <1>2, <1>4, ThreeParts, Zenon
<1>10. Len(ps) \in Nat /\ Len(ps) <= e.n /\ Len(ps) <= (B + A) + 1
  <2>1. Len(ps) = (B + M) + A
    BY <1>9, Zenon DEF Assembled
  <2> QED BY <2>1, <1>0, <1>1, <1>2, <1>3
<1>11. ASSUME NEW k \in 1..Len(ps)
       PROVE  Mapping(ps[k]) /\ ev <= ps[k].va /\ End(ps[k]) <= ee
  <2>1. CASE B = 1 /\ ps[k] = b
    <3>1. ev <= ev /\ rv <= ee
      BY <1>0, <1>1
    <3> QED BY <2>1, <3>1, <1>3, <1>5, Zenon DEF IsPart
  <2>2. CASE M = 1 /\ ps[k] = m
    BY <2>2, <1>3, <1>7, <1>8, Zenon DEF IsPart
  <2>3. CASE A = 1 /\ ps[k] = a
    <3>1. ev <= re /\ ee <= ee
      BY <1>0, <1>1
    <3> QED BY <2>3, <3>1, <1>3, <1>6, Zenon DEF IsPart
  <2> QED BY <2>1, <2>2, <2>3, <1>9, Zenon DEF Assembled
<1>12. InOrder(ps, Len(ps))
  <2> SUFFICES ASSUME NEW j \in 1..Len(ps), NEW k \in 1..Len(ps), j < k
               PROVE  End(ps[j]) <= ps[k].va
    BY Zenon DEF InOrder
  <2>0. rv <= lo /\ rv <= re /\ hi <= re
    BY <1>0, <1>8
  <2>1. CASE B = 1 /\ M = 1 /\ ps[j] = b /\ ps[k] = m
    BY <2>1, <2>0, <1>3, <1>5, <1>7, Zenon DEF IsPart
  <2>2. CASE B = 1 /\ A = 1 /\ ps[j] = b /\ ps[k] = a
    BY <2>2, <2>0, <1>3, <1>5, <1>6, Zenon DEF IsPart
  <2>3. CASE M = 1 /\ A = 1 /\ ps[j] = m /\ ps[k] = a
    BY <2>3, <2>0, <1>3, <1>6, <1>7, Zenon DEF IsPart
  <2> QED BY <2>1, <2>2, <2>3, <1>9, Zenon DEF Assembled
<1>13. ASSUME NEW v, NEW p, NEW y
       PROVE  (\E k \in 1..Len(ps) : Shows(ps[k], v, p, y)) <=> Becomes(e, r, prot, v, p, y)
  <2>1. (\E k \in 1..Len(ps) : Shows(ps[k], v, p, y)) <=>
          (B = 1 /\ Shows(b, v, p, y)) \/ (M = 1 /\ Shows(m, v, p, y)) \/ (A = 1 /\ Shows(a, v, p, y))
    BY <1>9, Zenon DEF Assembled
  <2>2. B = 1 => (Shows(b, v, p, y) <=> v \in ev..rv - 1 /\ p = e.prot /\ y = e.type)
    BY <1>3, <1>5, Zenon DEF IsPart, Shows, PagesOf
  <2>3. A = 1 => (Shows(a, v, p, y) <=> v \in re..ee - 1 /\ p = e.prot /\ y = e.type)
    BY <1>3, <1>6, Zenon DEF IsPart, Shows, PagesOf
  <2>4. M = 1 => (Shows(m, v, p, y) <=> v \in lo..hi - 1 /\ p = prot /\ y = e.type)
    BY <1>3, <1>7, Zenon DEF IsPart, Shows, PagesOf
  <2>5. Becomes(e, r, prot, v, p, y) <=>
          /\ v \in ev..ee - 1 /\ y = e.type
          /\ IF v \in rv..re - 1 THEN prot # Gone /\ p = prot ELSE p = e.prot
    BY Zenon DEF Becomes, PagesOf, ev, ee, rv, re
  <2>6. v \in ev..ee - 1 /\ v \in rv..re - 1 <=> v \in lo..hi - 1
    <3>1. CASE v \in Int
      BY <3>1, <1>0, <1>8
    <3>2. CASE v \notin Int
      BY <3>2, <1>0, <1>8
    <3> QED BY <3>1, <3>2, Zenon
  <2>7. v \in ev..ee - 1 /\ v \notin rv..re - 1 <=> (B = 1 /\ v \in ev..rv - 1) \/ (A = 1 /\ v \in re..ee - 1)
    <3>1. CASE v \in Int
      BY <3>1, <1>0, <1>1, <1>3
    <3>2. CASE v \notin Int
      BY <3>2, <1>0
    <3> QED BY <3>1, <3>2, Zenon
  <2> QED BY <2>1, <2>2, <2>3, <2>4, <2>5, <2>6, <2>7, <1>3, Zenon
<1> QED BY <1>10, <1>11, <1>12, <1>13, Zenon DEF ev, ee, B, A

\* A non-empty set of naturals has a least element.
LEMMA NatMin ==
  ASSUME NEW T, T \subseteq Nat, T # {}
  PROVE  \E x \in T : \A y \in T : x <= y
<1>1. \E R : IsWellFoundedOn(R, Nat) /\ \A x, y \in Nat : y < x => <<y, x>> \in R
  <2>1. \A x, y \in Nat : y < x => <<y, x>> \in OpToRel(<, Nat)
    BY Zenon DEF OpToRel
  <2> QED BY <2>1, NatLessThanWellFounded, Zenon
<1>2. PICK R : IsWellFoundedOn(R, Nat) /\ \A x, y \in Nat : y < x => <<y, x>> \in R
  BY <1>1, Zenon
<1>3. \E x \in T : \A y \in T : ~(<<y, x>> \in R)
  BY <1>2, WFMin, Zenon
<1>4. PICK x \in T : \A y \in T : ~(<<y, x>> \in R)
  BY <1>3, Zenon
<1>5. ASSUME NEW y \in T PROVE x <= y
  <2>1. x \in Nat /\ y \in Nat
    BY Zenon
  <2>2. ~(y < x)
    BY <1>2, <1>4, <2>1, Zenon
  <2> QED BY <2>1, <2>2
<1> QED BY <1>5, Zenon

\* Induction over the naturals up to n, for a set in place of a predicate.
LEMMA SetInduction ==
  ASSUME NEW P, NEW n \in Nat, 0 \in P, \A i \in 0..n-1 : i \in P => i+1 \in P
  PROVE  \A i \in 0..n : i \in P
<1> DEFINE T == {i \in 0..n : i \notin P}
<1>1. SUFFICES ASSUME T # {} PROVE FALSE
  BY Zenon
<1>2. PICK x \in T : \A y \in T : x <= y
  <2>1. T \subseteq Nat
    OBVIOUS
  <2> HIDE DEF T
  <2> QED BY <1>1, <2>1, NatMin, Zenon
<1>3. x # 0 /\ x \in 1..n /\ x - 1 \in 0..n-1
  BY <1>2
<1>4. x - 1 \in P
  BY <1>2, <1>3
<1>5. x-1+1 \in P
  BY <1>3, <1>4, Zenon
<1> QED BY <1>5, <1>3

\* The parts of a table, and its capacity.
LEMMA TableParts ==
  ASSUME NEW t, TableOK(t)
  PROVE  /\ t.n \in Nat /\ t.n <= VMA_CAPACITY /\ VMA_CAPACITY \in Nat
         /\ t = [slot |-> t.slot, n |-> t.n]
         /\ t.slot \in [1..VMA_CAPACITY -> Entry \cup {NoEntry}]
         /\ DOMAIN t.slot = 1..VMA_CAPACITY /\ Capacity(t) = VMA_CAPACITY
<1>1. VMA_CAPACITY \in Nat /\ t \in Tables
  BY VmaAssumption, Zenon DEF TableOK
<1>2. t.n \in 0..VMA_CAPACITY /\ t.slot \in [1..VMA_CAPACITY -> Entry \cup {NoEntry}]
  BY <1>1, Zenon DEF Tables
<1>3. t = [slot |-> t.slot, n |-> t.n]
  BY <1>1, Zenon DEF Tables
<1>4. DOMAIN t.slot = 1..VMA_CAPACITY
  BY <1>2, Zenon
<1>5. t.slot \in Seq(Entry \cup {NoEntry})
  BY <1>1, <1>2
<1>6. Len(t.slot) = VMA_CAPACITY
  BY <1>1, <1>4, <1>5
<1> QED BY <1>1, <1>2, <1>3, <1>4, <1>6 DEF Capacity

\* Replace splices: vma_shift_left and vma_shift_right move every entry behind
\* by as much as the pieces need, and lose none.
LEMMA ReplaceIs ==
  ASSUME NEW t, TableOK(t), NEW i \in 1..t.n, NEW ps, Len(ps) \in Nat,
         \A k \in 1..Len(ps) : Mapping(ps[k]),
         t.n + Len(ps) <= VMA_CAPACITY + 1
  PROVE  Spliced(Replace(t, i, ps), t, i, i, ps)
<1> DEFINE L == Len(ps)
           d == L - 1
           E == Entry \cup {NoEntry}
           u == Replace(t, i, ps)
           f(k) == IF k \in i..i + d THEN ps[k - i + 1]
                   ELSE IF k > i + d /\ k <= t.n + d THEN t.slot[k - d]
                   ELSE t.slot[k]
<1>1. /\ t.n \in Nat /\ VMA_CAPACITY \in Nat /\ t.n <= VMA_CAPACITY
      /\ t.slot \in [1..VMA_CAPACITY -> E] /\ DOMAIN t.slot = 1..VMA_CAPACITY
  BY TableParts, Zenon
<1>2. i \in Int /\ 1 <= i /\ i <= t.n /\ L \in Nat /\ t.n + L <= VMA_CAPACITY + 1
  BY <1>1
<1>3. u = [slot |-> [k \in 1..VMA_CAPACITY |-> f(k)], n |-> t.n + d]
  BY <1>1, Zenon DEF Replace
<1>4. u.n = t.n + d /\ u.slot = [k \in 1..VMA_CAPACITY |-> f(k)]
  <2> DEFINE g == [k \in 1..VMA_CAPACITY |-> f(k)]
             z == t.n + d
  <2>1. u = [slot |-> g, n |-> z]
    BY <1>3, Zenon
  <2> HIDE DEF g, z, u
  <2>2. u.n = z /\ u.slot = g
    BY <2>1, Zenon
  <2> QED BY <2>2, Zenon DEF g, z
<1> HIDE DEF u, E, L
<1>5. ASSUME NEW k \in 1..VMA_CAPACITY PROVE f(k) \in E
  <2>1. CASE k \in i..i + d
    <3>1. k - i + 1 \in 1..L
      BY <1>1, <1>2, <2>1
    <3>2. ps[k - i + 1] \in Entry
      BY <3>1, Zenon DEF Mapping, L
    <3> QED BY <2>1, <3>2, Zenon DEF E
  <2>2. CASE k \notin i..i + d /\ k > i + d /\ k <= t.n + d
    <3>1. k - d \in 1..VMA_CAPACITY
      BY <1>1, <1>2, <2>2
    <3> QED BY <2>2, <3>1, <1>1, Zenon
  <2>3. CASE k \notin i..i + d /\ ~(k > i + d /\ k <= t.n + d)
    BY <2>3, <1>1, Zenon
  <2> QED BY <2>1, <2>2, <2>3, Zenon
<1>6. u \in Tables
  <2>1. t.n + d \in 0..VMA_CAPACITY
    BY <1>1, <1>2
  <2>2. [k \in 1..VMA_CAPACITY |-> f(k)] \in [1..VMA_CAPACITY -> E]
    BY <1>5, Zenon
  <2> HIDE DEF d, f
  <2> QED BY <1>3, <2>1, <2>2, Zenon DEF Tables, E
<1>7. u.n = (t.n - ((i - i) + 1)) + L
  <2>1. \A x, y, z \in Int : x + (z - 1) = (x - ((y - y) + 1)) + z
    OBVIOUS
  <2>2. t.n \in Int /\ i \in Int /\ L \in Int
    BY <1>1, <1>2
  <2>3. t.n + d = (t.n - ((i - i) + 1)) + L
    BY <2>1, <2>2, Zenon
  <2> QED BY <2>3, <1>4, Zenon
<1>8. ASSUME NEW k \in 1..i-1 PROVE u.slot[k] = t.slot[k]
  <2>1. k \in 1..VMA_CAPACITY /\ k \notin i..i + d /\ ~(k > i + d)
    BY <1>1, <1>2, <1>8
  <2> QED BY <2>1, <1>4, Zenon
<1>9. ASSUME NEW k \in 1..L PROVE u.slot[(i - 1) + k] = ps[k]
  <2>1. (i - 1) + k \in 1..VMA_CAPACITY /\ (i - 1) + k \in i..i + d /\ ((i - 1) + k) - i + 1 = k
    BY <1>1, <1>2, <1>9
  <2> QED BY <2>1, <1>4, Zenon
<1>10. ASSUME NEW k \in i+1..t.n PROVE u.slot[(k - ((i - i) + 1)) + L] = t.slot[k]
  <2>1. /\ (k - ((i - i) + 1)) + L = k + d
        /\ k + d \in 1..VMA_CAPACITY /\ k + d \notin i..i + d /\ k + d > i + d /\ k + d <= t.n + d
        /\ (k + d) - d = k
    BY <1>1, <1>2, <1>10
  <2> QED BY <2>1, <1>4, Zenon
<1> QED BY <1>6, <1>7, <1>8, <1>9, <1>10, Zenon DEF Spliced, u, L

\* Entries m places apart in the table begin at least m pages apart.
LEMMA Gaps ==
  ASSUME NEW t, TableOK(t)
  PROVE  \A m \in 0..t.n : \A j \in 1..t.n : j + m <= t.n => t.slot[j].va + m <= t.slot[j + m].va
<1> DEFINE P == {m \in Nat : \A j \in 1..t.n : j + m <= t.n => t.slot[j].va + m <= t.slot[j + m].va}
<1>0. t.n \in Nat
  BY TableParts, Zenon
<1>a. \A j \in 1..t.n : t.slot[j].va \in Nat /\ End(t.slot[j]) \in Nat /\ t.slot[j].va < End(t.slot[j])
  BY EntryNumbers, Zenon DEF TableOK, Mapping
<1>1. 0 \in P
  <2>1. \A j \in 1..t.n : j + 0 = j /\ t.slot[j].va + 0 = t.slot[j].va /\ t.slot[j].va <= t.slot[j].va
    BY <1>a
  <2> QED BY <2>1, Zenon
<1>2. ASSUME NEW m \in Nat, m \in P PROVE m + 1 \in P
  <2> SUFFICES ASSUME NEW j \in 1..t.n, j + (m + 1) <= t.n
               PROVE  t.slot[j].va + (m + 1) <= t.slot[j + (m + 1)].va
    OBVIOUS
  <2>1. j + m \in 1..t.n /\ j + (m + 1) \in 1..t.n /\ j + m < j + (m + 1) /\ j + m <= t.n
    BY <1>0
  <2>2. t.slot[j].va + m <= t.slot[j + m].va
    BY <1>2, <2>1, Zenon
  <2>3. End(t.slot[j + m]) <= t.slot[j + (m + 1)].va
    BY <2>1, Zenon DEF TableOK, InOrder
  <2>4. /\ t.slot[j].va \in Nat
        /\ t.slot[j + m].va \in Nat /\ End(t.slot[j + m]) \in Nat /\ t.slot[j + m].va < End(t.slot[j + m])
        /\ t.slot[j + (m + 1)].va \in Nat
    BY <2>1, <1>a, Zenon
  <2> QED BY <2>2, <2>3, <2>4
<1>3. \A m \in 0..t.n : m \in P
  <2> HIDE DEF P
  <2>1. \A m \in 0..t.n-1 : m \in P => m + 1 \in P
    BY <1>2, <1>0
  <2> QED BY <1>0, <1>1, <2>1, SetInduction, Zenon
<1> QED BY <1>3, Zenon

\* An entry has room below and above it for a page of every other entry.
LEMMA Places ==
  ASSUME NEW t, TableOK(t), NEW i \in 1..t.n
  PROVE  i <= t.slot[i].va /\ End(t.slot[i]) + (t.n - i) <= MaxVa + 1
<1>0. t.n \in Nat /\ MaxVa \in Nat
  BY TableParts, VmaAssumption, Zenon
<1>a. \A j \in 1..t.n : t.slot[j].va \in Nat \ {0} /\ End(t.slot[j]) \in Nat /\ t.slot[j].va < End(t.slot[j])
  BY EntryNumbers, Zenon DEF TableOK, Mapping
<1>b. \A j \in 1..t.n : End(t.slot[j]) <= MaxVa + 1
  BY Zenon DEF TableOK, Mapping
<1>1. i <= t.slot[i].va
  <2>1. 1 \in 1..t.n /\ i - 1 \in 0..t.n /\ 1 + (i - 1) <= t.n /\ 1 + (i - 1) = i
    BY <1>0
  <2>2. t.slot[1].va + (i - 1) <= t.slot[i].va
    BY <2>1, Gaps, Zenon
  <2>3. t.slot[1].va \in Nat \ {0} /\ t.slot[i].va \in Nat \ {0}
    BY <2>1, <1>a, Zenon
  <2> QED BY <2>2, <2>3, <1>0
<1>2. CASE i = t.n
  <2>1. End(t.slot[i]) \in Nat /\ End(t.slot[i]) <= MaxVa + 1
    BY <1>a, <1>b, Zenon
  <2> QED BY <2>1, <1>0, <1>1, <1>2
<1>3. CASE i # t.n
  <2>1. i + 1 \in 1..t.n /\ t.n \in 1..t.n /\ t.n - (i + 1) \in 0..t.n /\ (i + 1) + (t.n - (i + 1)) <= t.n
        /\ (i + 1) + (t.n - (i + 1)) = t.n /\ i < i + 1
    BY <1>0, <1>3
  <2>2. t.slot[i + 1].va + (t.n - (i + 1)) <= t.slot[t.n].va
    BY <2>1, Gaps, Zenon
  <2>3. End(t.slot[i]) <= t.slot[i + 1].va
    BY <2>1, Zenon DEF TableOK, InOrder
  <2>4. End(t.slot[t.n]) <= MaxVa + 1
    BY <2>1, <1>b, Zenon
  <2>5. /\ End(t.slot[i]) \in Nat /\ t.slot[i + 1].va \in Nat
        /\ t.slot[t.n].va \in Nat /\ End(t.slot[t.n]) \in Nat /\ t.slot[t.n].va < End(t.slot[t.n])
    BY <2>1, <1>a, Zenon
  <2> QED BY <2>2, <2>3, <2>4, <2>5, <1>0, <1>1
<1> QED BY <1>2, <1>3, Zenon

-----------------------------------------------------------------------------
(* The loop of vma_remove and vma_update_prot. *)

\* How many of the first k entries r cuts in two, at its beginning and its end.
CutsLow(t, r, k) == \E j \in 1..k : ~Apart(t.slot[j], r) /\ t.slot[j].va < r.va
CutsHigh(t, r, k) == \E j \in 1..k : ~Apart(t.slot[j], r) /\ End(r) < End(t.slot[j])
Cuts(t, r, k) == (IF CutsLow(t, r, k) THEN 1 ELSE 0) + (IF CutsHigh(t, r, k) THEN 1 ELSE 0)

\* How many of the two ends of r have cut an entry, as the walk goes on.
LEMMA CutsGrow ==
  ASSUME NEW t, TableOK(t), NEW r \in Ranges, NEW k \in 0..t.n - 1, NEW e, e = t.slot[k + 1]
  PROVE  /\ Cuts(t, r, k) \in 0..2 /\ Cuts(t, r, k + 1) \in 0..2
         /\ Cuts(t, r, k) <= Cuts(t, r, k + 1)
         /\ ~Apart(e, r) => Cuts(t, r, k) + (Low(e, r) + High(e, r)) <= Cuts(t, r, k + 1)
<1>0. t.n \in Nat
  BY TableParts, Zenon
<1>1. /\ \A j \in 1..k : j \in 1..k + 1
      /\ k + 1 \in 1..k + 1 /\ k + 1 \in 1..t.n
      /\ \A j \in 1..k : j \in 1..t.n /\ j < k + 1
  BY <1>0
<1>2. CutsLow(t, r, k) => CutsLow(t, r, k + 1)
  BY <1>1, Zenon DEF CutsLow
<1>3. CutsHigh(t, r, k) => CutsHigh(t, r, k + 1)
  BY <1>1, Zenon DEF CutsHigh
<1>4. /\ e.va \in Nat /\ End(e) \in Nat /\ e.va < End(e)
      /\ r.va \in Nat /\ End(r) \in Nat /\ r.va < End(r)
  BY <1>1, EntryNumbers, RangeNumbers, Zenon DEF TableOK, Mapping
<1>5. ASSUME NEW j \in 1..k, ~Apart(t.slot[j], r), ~Apart(e, r)
      PROVE  ~(e.va < r.va) /\ ~(End(r) < End(t.slot[j]))
  <2>1. End(t.slot[j]) <= e.va
    BY <1>1, Zenon DEF TableOK, InOrder
  <2>2. t.slot[j].va \in Nat /\ End(t.slot[j]) \in Nat
    BY <1>1, EntryNumbers, Zenon DEF TableOK, Mapping
  <2>3. ~(End(t.slot[j]) <= r.va) /\ ~(End(r) <= e.va)
    BY <1>5, Zenon DEF Apart
  <2> QED BY <2>1, <2>2, <2>3, <1>4
<1>6. ~Apart(e, r) /\ e.va < r.va => ~CutsLow(t, r, k) /\ CutsLow(t, r, k + 1)
  BY <1>1, <1>5, Zenon DEF CutsLow
<1>7. ~Apart(e, r) /\ End(r) < End(e) => ~CutsHigh(t, r, k) /\ CutsHigh(t, r, k + 1)
  <2>1. ~Apart(e, r) => ~CutsHigh(t, r, k)
    BY <1>5, Zenon DEF CutsHigh
  <2>2. ~Apart(e, r) /\ End(r) < End(e) => CutsHigh(t, r, k + 1)
    BY <1>1, Zenon DEF CutsHigh
  <2> QED BY <2>1, <2>2, Zenon
<1>8. Cuts(t, r, k) \in 0..2 /\ Cuts(t, r, k + 1) \in 0..2 /\ Cuts(t, r, k) <= Cuts(t, r, k + 1)
  BY <1>2, <1>3 DEF Cuts
<1>9. ~Apart(e, r) => Cuts(t, r, k) + (Low(e, r) + High(e, r)) <= Cuts(t, r, k + 1)
  BY <1>2, <1>3, <1>6, <1>7 DEF Cuts, Low, High
<1> QED BY <1>8, <1>9, Zenon

\* Does the table have room for what the loop may add?  A table of the size
\* of the address space always has; otherwise two free slots are enough.
Room(t) == MaxVa <= VMA_CAPACITY \/ t.n + 2 <= VMA_CAPACITY

\* After k turns of the loop over t.
Walked(x, k, t, r, prot) ==
  /\ x = [t |-> x.t, i |-> x.i] /\ TableOK(x.t)
  /\ x.i = ((k + 1) + x.t.n) - t.n /\ 1 <= x.i
  /\ \A j \in k+1..t.n : x.t.slot[(j + x.t.n) - t.n] = t.slot[j]
  /\ \A v, p, y : Has(x.t, 1, x.i - 1, v, p, y) <=> \E j \in 1..k : Becomes(t.slot[j], r, prot, v, p, y)
  /\ x.t.n <= t.n + Cuts(t, r, k)

\* A turn that leaves its entry as it is: the entry is apart from r, or has
\* the protection already.
LEMMA TurnSkips ==
  ASSUME NEW t, TableOK(t), NEW r \in Ranges, NEW prot, NEW k \in 0..t.n - 1, NEW x, Walked(x, k, t, r, prot),
         Apart(t.slot[k + 1], r) \/ t.slot[k + 1].prot = prot
  PROVE  Walked([t |-> x.t, i |-> x.i + 1], k + 1, t, r, prot)
<1> DEFINE u == x.t
           i == x.i
           e == t.slot[k + 1]
           w == [t |-> u, i |-> i + 1]
<1>0. t.n \in Nat /\ u.n \in Nat
  BY TableParts, Zenon DEF Walked
<1>1. i = ((k + 1) + u.n) - t.n /\ i \in Nat /\ 1 <= i /\ i - 1 \in Nat /\ i \in 1..u.n /\ k + 1 \in 1..t.n /\ k + 1 \in k+1..t.n
  <2>1. i = ((k + 1) + u.n) - t.n /\ 1 <= i
    BY Zenon DEF Walked
  <2> HIDE DEF u, i
  <2> QED BY <2>1, <1>0
<1>2. w.t = u /\ w.i = i + 1 /\ w = [t |-> w.t, i |-> w.i]
  BY Zenon
<1> HIDE DEF u, i, e, w
<1>3. u.slot[i] = e /\ TableOK(u)
  BY <1>1, Zenon DEF Walked, u, i, e
<1>4. Mapping(e)
  BY <1>1, <1>3, Zenon DEF TableOK
<1>5. \A v, p, y : Shows(e, v, p, y) <=> Becomes(e, r, prot, v, p, y)
  <2>1. CASE Apart(e, r)
    <3>1. \A v : v \in PagesOf(e) => v \notin PagesOf(r)
      <4>1. /\ e.va \in Nat /\ End(e) \in Nat /\ r.va \in Nat /\ End(r) \in Nat
        BY <1>4, EntryNumbers, RangeNumbers, Zenon DEF Mapping
      <4>2. End(e) <= r.va \/ End(r) <= e.va
        BY <2>1, Zenon DEF Apart
      <4>3. ASSUME NEW v, v \in e.va..End(e) - 1 PROVE v \notin r.va..End(r) - 1
        BY <4>1, <4>2, <4>3
      <4> QED BY <4>3, Zenon DEF PagesOf
    <3> QED BY <3>1, Zenon DEF Shows, Becomes
  <2>2. CASE e.prot = prot
    <3>1. prot # Gone
      <4>1. e.prot \in Prots /\ Prots \subseteq Nat
        BY <1>4, EntryNumbers, VmaAssumption, Zenon DEF Mapping
      <4> QED BY <4>1, <2>2 DEF Gone
    <3> QED BY <2>2, <3>1, Zenon DEF Shows, Becomes
  <2> QED BY <2>1, <2>2, Zenon DEF e
<1>6. \A v, p, y : Has(u, 1, i, v, p, y) <=> Has(u, 1, i - 1, v, p, y) \/ Shows(e, v, p, y)
  <2>1. \A j : j \in 1..i <=> j \in 1..i - 1 \/ j = i
    BY <1>1
  <2> QED BY <2>1, <1>3, Zenon DEF Has
<1>7. \A v, p, y : (\E j \in 1..k + 1 : Becomes(t.slot[j], r, prot, v, p, y)) <=>
                    (\E j \in 1..k : Becomes(t.slot[j], r, prot, v, p, y)) \/ Becomes(e, r, prot, v, p, y)
  <2>1. \A j : j \in 1..k + 1 <=> j \in 1..k \/ j = k + 1
    BY <1>0
  <2> QED BY <2>1, Zenon DEF e
<1>8. i + 1 = (((k + 1) + 1) + u.n) - t.n /\ 1 <= i + 1 /\ (i + 1) - 1 = i
  BY <1>0, <1>1
<1>9. \A j \in (k + 1) + 1..t.n : u.slot[(j + u.n) - t.n] = t.slot[j]
  <2>1. \A j \in (k + 1) + 1..t.n : j \in k+1..t.n
    BY <1>0
  <2> QED BY <2>1, Zenon DEF Walked, u
<1>10. u.n <= t.n + Cuts(t, r, k + 1)
  <2>1. Cuts(t, r, k) \in 0..2 /\ Cuts(t, r, k + 1) \in 0..2 /\ Cuts(t, r, k) <= Cuts(t, r, k + 1)
    BY CutsGrow, Zenon
  <2>2. u.n <= t.n + Cuts(t, r, k)
    BY Zenon DEF Walked, u
  <2> QED BY <2>1, <2>2, <1>0
<1>11. \A v, p, y : Has(u, 1, i - 1, v, p, y) <=> \E j \in 1..k : Becomes(t.slot[j], r, prot, v, p, y)
  BY Zenon DEF Walked, u, i
<1>12. \A v, p, y : Has(u, 1, (i + 1) - 1, v, p, y) <=> \E j \in 1..k + 1 : Becomes(t.slot[j], r, prot, v, p, y)
  BY <1>5, <1>6, <1>7, <1>8, <1>11, Zenon
<1>13. Walked(w, k + 1, t, r, prot)
  BY <1>2, <1>3, <1>8, <1>9, <1>10, <1>12, Zenon DEF Walked
<1> QED BY <1>13, Zenon DEF w, u, i

\* With room in the table at the start, a turn always finds room for its
\* pieces: at most the first and the last entry that meet r are cut.
LEMMA RoomForPieces ==
  ASSUME NEW t, TableOK(t), Room(t), NEW r \in Ranges, NEW prot, prot = Gone \/ prot \in Prots,
         NEW k \in 0..t.n - 1, NEW x, Walked(x, k, t, r, prot), ~Apart(t.slot[k + 1], r)
  PROVE  LET L == Len(Pieces(t.slot[k + 1], r, prot)) IN
         /\ L \in Nat /\ x.t.n + L <= VMA_CAPACITY + 1
         /\ (x.t.n - 1) + L <= t.n + Cuts(t, r, k + 1)
<1> DEFINE u == x.t
           i == x.i
           e == t.slot[k + 1]
           ps == Pieces(e, r, prot)
           L == Len(ps)
<1>0. t.n \in Nat /\ u.n \in Nat /\ VMA_CAPACITY \in Nat /\ MaxVa \in Nat /\ u.n <= VMA_CAPACITY
  BY TableParts, VmaAssumption, Zenon DEF Walked
<1>1. i = ((k + 1) + u.n) - t.n /\ i \in 1..u.n /\ k + 1 \in k+1..t.n /\ k + 1 \in 1..t.n
  <2>1. i = ((k + 1) + u.n) - t.n /\ 1 <= i
    BY Zenon DEF Walked
  <2> HIDE DEF u, i
  <2> QED BY <2>1, <1>0
<1>2. u.slot[i] = e /\ TableOK(u) /\ Mapping(e)
  <2>1. u.slot[i] = e /\ TableOK(u)
    BY <1>1, Zenon DEF Walked
  <2>2. Mapping(e)
    BY <1>1, Zenon DEF TableOK
  <2> QED BY <2>1, <2>2, Zenon
<1>3. L \in Nat /\ L <= e.n /\ L <= (Low(e, r) + High(e, r)) + 1
  <2> HIDE DEF e
  <2> QED BY <1>2, PiecesDo, Zenon DEF e
<1>4. Cuts(t, r, k) \in 0..2 /\ Cuts(t, r, k + 1) \in 0..2 /\ Cuts(t, r, k) + (Low(e, r) + High(e, r)) <= Cuts(t, r, k + 1)
  BY CutsGrow, Zenon
<1>5. u.n <= t.n + Cuts(t, r, k)
  BY Zenon DEF Walked
<1>6. e.va \in Nat /\ e.n \in Nat /\ End(e) = e.va + e.n
  BY <1>2, EntryNumbers, Zenon DEF Mapping, End
<1>7. i <= e.va /\ End(e) + (u.n - i) <= MaxVa + 1
  BY <1>1, <1>2, Places, Zenon
<1>8. Low(e, r) \in {0, 1} /\ High(e, r) \in {0, 1}
  BY Zenon DEF Low, High
<1> HIDE DEF u, i, e, ps, L
<1>9. (u.n - 1) + L <= t.n + Cuts(t, r, k + 1)
  BY <1>0, <1>3, <1>4, <1>5, <1>8
<1>10. CASE MaxVa <= VMA_CAPACITY
  <2>1. i \in Nat
    BY <1>0, <1>1
  <2>2. u.n + L <= VMA_CAPACITY + 1
    BY <2>1, <1>0, <1>3, <1>6, <1>7, <1>10
  <2> QED BY <2>2, <1>3, <1>9, Zenon DEF u, L, ps, e
<1>11. CASE t.n + 2 <= VMA_CAPACITY
  <2>1. u.n + L <= VMA_CAPACITY + 1
    BY <1>0, <1>3, <1>4, <1>9, <1>11
  <2> QED BY <2>1, <1>3, <1>9, Zenon DEF u, L, ps, e
<1> QED BY <1>10, <1>11, Zenon DEF Room

\* A turn that replaces its entry by the pieces.
LEMMA TurnReplaces ==
  ASSUME NEW t, TableOK(t), Room(t), NEW r \in Ranges, NEW prot, prot = Gone \/ prot \in Prots,
         NEW k \in 0..t.n - 1, NEW x, Walked(x, k, t, r, prot), ~Apart(t.slot[k + 1], r),
         NEW ps, ps = Pieces(t.slot[k + 1], r, prot)
  PROVE  Walked([t |-> Replace(x.t, x.i, ps), i |-> x.i + Len(ps)], k + 1, t, r, prot)
<1> DEFINE s == x.t
           i == x.i
           e == t.slot[k + 1]
           L == Len(ps)
           u == Replace(s, i, ps)
           w == [t |-> u, i |-> i + L]
<1>0. t.n \in Nat /\ s.n \in Nat
  BY TableParts, Zenon DEF Walked
<1>1. i = ((k + 1) + s.n) - t.n /\ i \in Nat /\ i \in 1..s.n /\ i \in 1..s.n + 1 /\ i \in i-1..s.n
      /\ k + 1 \in 1..t.n /\ k + 1 \in k+1..t.n
  <2>1. i = ((k + 1) + s.n) - t.n /\ 1 <= i
    BY Zenon DEF Walked
  <2> HIDE DEF s, i
  <2> QED BY <2>1, <1>0
<1>2. w.t = u /\ w.i = i + L /\ w = [t |-> w.t, i |-> w.i]
  BY Zenon
<1>3. L \in Nat /\ s.n + L <= VMA_CAPACITY + 1 /\ (s.n - 1) + L <= t.n + Cuts(t, r, k + 1)
  BY RoomForPieces, Zenon
<1> HIDE DEF s, i, e, w
<1>4. s.slot[i] = e /\ TableOK(s)
  BY <1>1, Zenon DEF Walked, s, i, e
<1>5. Mapping(e)
  BY <1>1, <1>4, Zenon DEF TableOK
<1>6. /\ \A m \in 1..L : Mapping(ps[m]) /\ e.va <= ps[m].va /\ End(ps[m]) <= End(e)
      /\ InOrder(ps, L)
      /\ \A v, p, y : (\E m \in 1..L : Shows(ps[m], v, p, y)) <=> Becomes(e, r, prot, v, p, y)
  BY <1>5, PiecesDo, Zenon DEF e
<1>7. Spliced(u, s, i, i, ps)
  BY <1>1, <1>3, <1>4, <1>6, ReplaceIs, Zenon
<1> HIDE DEF u
<1>8. TableOK(u)
  <2>0. \A j \in 1..s.n : s.slot[j].va \in Nat /\ End(s.slot[j]) \in Nat
    BY <1>4, EntryNumbers, Zenon DEF TableOK, Mapping
  <2>1. \A m \in 1..L : ps[m].va \in Nat /\ End(ps[m]) \in Nat
    BY <1>6, EntryNumbers, Zenon DEF Mapping
  <2>2. e.va \in Nat /\ End(e) \in Nat
    BY <1>5, EntryNumbers, Zenon DEF Mapping
  <2>3. ASSUME NEW j \in 1..i-1, NEW m \in 1..L PROVE End(s.slot[j]) <= ps[m].va
    <3>1. j \in 1..s.n /\ j < i
      BY <1>0, <1>1
    <3>2. End(s.slot[j]) <= e.va
      BY <3>1, <1>1, <1>4, Zenon DEF TableOK, InOrder
    <3>3. e.va <= ps[m].va /\ End(s.slot[j]) \in Nat /\ ps[m].va \in Nat
      BY <3>1, <2>0, <2>1, <1>6, Zenon
    <3> QED BY <3>2, <3>3, <2>2
  <2>4. ASSUME NEW m \in 1..L, NEW j \in i+1..s.n PROVE End(ps[m]) <= s.slot[j].va
    <3>1. j \in 1..s.n /\ i < j
      BY <1>0, <1>1
    <3>2. End(e) <= s.slot[j].va
      BY <3>1, <1>1, <1>4, Zenon DEF TableOK, InOrder
    <3>3. End(ps[m]) <= End(e) /\ s.slot[j].va \in Nat /\ End(ps[m]) \in Nat
      BY <3>1, <2>0, <2>1, <1>6, Zenon
    <3> QED BY <3>2, <3>3, <2>2
  <2> QED BY <2>3, <2>4, <1>1, <1>3, <1>4, <1>6, <1>7, SplicedKeeps, Zenon
<1>9. u.n = (s.n - 1) + L
  <2>1. u.n = (s.n - ((i - i) + 1)) + L
    BY <1>7, Zenon DEF Spliced
  <2> QED BY <2>1, <1>1
<1>9a. /\ t.n \in Int /\ s.n \in Int /\ L \in Nat /\ i \in Int /\ k \in Int /\ 1 <= i
       /\ i = ((k + 1) + s.n) - t.n /\ u.n = (s.n - 1) + L
  BY <1>0, <1>1, <1>3, <1>9
<1>10. i + L = (((k + 1) + 1) + u.n) - t.n /\ 1 <= i + L
  <2> HIDE DEF L
  <2> QED BY <1>9a
<1>11. ASSUME NEW j \in (k + 1) + 1..t.n PROVE u.slot[(j + u.n) - t.n] = t.slot[j]
  <2>1. j \in k+1..t.n /\ (j + s.n) - t.n \in i+1..s.n
        /\ (j + u.n) - t.n = (((j + s.n) - t.n) - ((i - i) + 1)) + L
    <3> HIDE DEF L
    <3> QED BY <1>9a
  <2>2. u.slot[(j + u.n) - t.n] = s.slot[(j + s.n) - t.n]
    BY <2>1, <1>7, Zenon DEF Spliced
  <2>3. s.slot[(j + s.n) - t.n] = t.slot[j]
    BY <2>1, Zenon DEF Walked, s
  <2> QED BY <2>2, <2>3, Zenon
<1>12. \A v, p, y : Has(u, 1, (i + L) - 1, v, p, y) <=> \E j \in 1..k + 1 : Becomes(t.slot[j], r, prot, v, p, y)
  <2> SUFFICES ASSUME NEW v, NEW p, NEW y
               PROVE  Has(u, 1, (i + L) - 1, v, p, y) <=> \E j \in 1..k + 1 : Becomes(t.slot[j], r, prot, v, p, y)
    BY Zenon
  <2>1. Has(u, 1, (i + L) - 1, v, p, y) <=> Has(s, 1, i - 1, v, p, y) \/ \E m \in 1..L : Shows(ps[m], v, p, y)
    <3>1. i \in 1..s.n + 1 /\ i \in i-1..s.n /\ L \in Nat /\ TableOK(s)
      BY <1>1, <1>3, <1>4, Zenon
    <3> QED BY <3>1, <1>7, SplicedShows, Zenon
  <2>2. Has(s, 1, i - 1, v, p, y) <=> \E j \in 1..k : Becomes(t.slot[j], r, prot, v, p, y)
    BY Zenon DEF Walked, s, i
  <2>3. \A j : j \in 1..k + 1 <=> j \in 1..k \/ j = k + 1
    BY <1>0
  <2>4. (\E j \in 1..k + 1 : Becomes(t.slot[j], r, prot, v, p, y)) <=>
          (\E j \in 1..k : Becomes(t.slot[j], r, prot, v, p, y)) \/ Becomes(e, r, prot, v, p, y)
    BY <2>3, Zenon DEF e
  <2> QED BY <2>1, <2>2, <2>4, <1>6, Zenon
<1>13. u.n <= t.n + Cuts(t, r, k + 1)
  BY <1>3, <1>9, Zenon
<1>14. Walked(w, k + 1, t, r, prot)
  BY <1>2, <1>8, <1>10, <1>11, <1>12, <1>13, Zenon DEF Walked
<1> QED BY <1>14, Zenon DEF w, u, s, i

\* Every turn of the loop keeps what the turns so far have established.
LEMMA TurnDoes ==
  ASSUME NEW t, TableOK(t), Room(t), NEW r \in Ranges, NEW prot, prot = Gone \/ prot \in Prots,
         NEW k \in 0..t.n - 1, NEW x, Walked(x, k, t, r, prot)
  PROVE  Walked(Turn(x, r, prot), k + 1, t, r, prot)
<1> DEFINE s == x.t
           i == x.i
           e == t.slot[k + 1]
           ps == Pieces(e, r, prot)
<1>0. t.n \in Nat /\ s.n \in Nat /\ VMA_CAPACITY \in Nat
  BY TableParts, Zenon DEF Walked
<1>1. k + 1 \in k+1..t.n /\ i = ((k + 1) + s.n) - t.n
  <2>1. i = ((k + 1) + s.n) - t.n
    BY Zenon DEF Walked
  <2> QED BY <2>1, <1>0
<1>2. s.slot[i] = e /\ Capacity(s) = VMA_CAPACITY
  BY <1>1, TableParts, Zenon DEF Walked
<1>3. CASE Apart(e, r) \/ e.prot = prot
  <2>1. Turn(x, r, prot) = [t |-> s, i |-> i + 1]
    BY <1>2, <1>3, Zenon DEF Turn
  <2> QED BY <2>1, <1>3, TurnSkips, Zenon
<1>4. CASE ~Apart(e, r) /\ e.prot # prot
  <2>1. Len(ps) \in Nat /\ s.n + Len(ps) <= VMA_CAPACITY + 1
    BY <1>4, RoomForPieces, Zenon
  <2>2. ~(s.n + Len(ps) - 1 > VMA_CAPACITY)
    <3> HIDE DEF s, ps
    <3> QED BY <2>1, <1>0
  <2>3. Turn(x, r, prot) = [t |-> Replace(s, i, ps), i |-> i + Len(ps)]
    BY <1>2, <1>4, <2>2, Zenon DEF Turn
  <2> QED BY <2>3, <1>4, TurnReplaces, Zenon
<1> QED BY <1>3, <1>4, Zenon

\* One unfolding of the loop Turns.
NextTurns(w, t, r, prot) ==
  [k \in 0..t.n |-> IF k = 0 THEN [t |-> t, i |-> 1] ELSE Turn(w[k - 1], r, prot)]

\* The recursive function Turns satisfies its equation.
LEMMA TurnsDef ==
  ASSUME NEW t, t.n \in Nat, NEW r, NEW prot
  PROVE  Turns(t, r, prot) = NextTurns(Turns(t, r, prot), t, r, prot)
<1> DEFINE s == [t |-> t, i |-> 1]
           Loop(w, m) == [k \in 0..m |-> IF k = 0 THEN s ELSE Turn(w[k - 1], r, prot)]
           P == {m \in Nat : \E w : w = Loop(w, m)}
<1> HIDE DEF s
<1>1. 0 \in P
  <2> DEFINE w == [k \in 0..0 |-> s]
  <2>1. w = Loop(w, 0)
    OBVIOUS
  <2> QED BY <2>1, Zenon
<1>2. ASSUME NEW m \in Nat, m \in P PROVE m + 1 \in P
  <2>1. PICK w : w = Loop(w, m)
    BY <1>2, Zenon
  <2> DEFINE v == [k \in 0..m+1 |-> IF k \in 0..m THEN w[k] ELSE Turn(w[m], r, prot)]
  <2>2. ASSUME NEW k \in 0..m+1 PROVE v[k] = IF k = 0 THEN s ELSE Turn(v[k - 1], r, prot)
    <3>1. CASE k = 0
      <4>1. k \in 0..m
        BY <3>1
      <4> QED BY <4>1, <3>1, <2>1, Zenon
    <3>2. CASE k # 0 /\ k \in 0..m
      <4>1. k - 1 \in 0..m /\ k - 1 \in 0..m+1
        BY <3>2
      <4>2. w[k] = Turn(w[k - 1], r, prot)
        BY <2>1, <3>2, Zenon
      <4> QED BY <4>1, <4>2, <3>2, Zenon
    <3>3. CASE k = m + 1
      <4>1. k - 1 = m /\ k # 0 /\ k \notin 0..m /\ m \in 0..m /\ m \in 0..m+1
        BY <3>3
      <4> QED BY <4>1, Zenon
    <3>4. k = 0 \/ (k # 0 /\ k \in 0..m) \/ k = m + 1
      OBVIOUS
    <3> QED BY <3>1, <3>2, <3>3, <3>4, Zenon
  <2>3. v = Loop(v, m + 1)
    BY <2>2, Zenon
  <2> HIDE DEF v
  <2>4. \E u : u = Loop(u, m + 1)
    BY <2>3, Zenon
  <2> QED BY <2>4
<1>3. t.n \in P
  <2> HIDE DEF P
  <2>1. \A m \in 0..t.n-1 : m \in P => m + 1 \in P
    BY <1>2
  <2>2. \A m \in 0..t.n : m \in P
    BY <1>1, <2>1, SetInduction, Zenon
  <2> QED BY <2>2
<1>4. \E w : w = NextTurns(w, t, r, prot)
  BY <1>3, Zenon DEF NextTurns, s
<1> QED BY <1>4, Zenon DEF Turns, NextTurns

\* u shows what the entries of t have become.
Changed(u, t, r, prot) ==
  /\ TableOK(u)
  /\ \A v, p, y : Has(u, 1, u.n, v, p, y) <=> \E j \in 1..t.n : Becomes(t.slot[j], r, prot, v, p, y)

\* The whole loop: the table stays in order and shows, for every entry, what
\* it becomes; no entry is skipped by the shifts and none is seen twice.
LEMMA WalkDoes ==
  ASSUME NEW t, TableOK(t), Room(t), NEW r \in Ranges, NEW prot, prot = Gone \/ prot \in Prots,
         NEW u, u = Walk(t, r, prot)
  PROVE  Changed(u, t, r, prot)
<1> DEFINE w == Turns(t, r, prot)
           P == {k \in Nat : Walked(w[k], k, t, r, prot)}
<1>0. t.n \in Nat
  BY TableParts, Zenon
<1>a. w = NextTurns(w, t, r, prot)
  BY <1>0, TurnsDef, Zenon
<1> HIDE DEF w
<1>1. ASSUME NEW k \in 0..t.n
      PROVE  w[k] = IF k = 0 THEN [t |-> t, i |-> 1] ELSE Turn(w[k - 1], r, prot)
  <2> DEFINE f(j) == IF j = 0 THEN [t |-> t, i |-> 1] ELSE Turn(w[j - 1], r, prot)
  <2>1. w = [j \in 0..t.n |-> f(j)]
    BY <1>a, Zenon DEF NextTurns
  <2> HIDE DEF f
  <2>2. w[k] = f(k)
    BY <2>1, Zenon
  <2> QED BY <2>2, Zenon DEF f
<1>2. 0 \in P
  <2> DEFINE x == [t |-> t, i |-> 1]
  <2>1. w[0] = x
    <3>1. 0 \in 0..t.n
      BY <1>0
    <3> QED BY <3>1, <1>1, Zenon
  <2>2. x.t = t /\ x.i = 1 /\ x = [t |-> x.t, i |-> x.i]
    BY Zenon
  <2> HIDE DEF x
  <2>3. 1 = ((0 + 1) + t.n) - t.n /\ 1 <= 1 /\ \A j \in 0+1..t.n : (j + t.n) - t.n = j
    BY <1>0
  <2>4. \A j : j \notin 1..0 /\ j \notin 1..1 - 1
    OBVIOUS
  <2>5. Cuts(t, r, 0) \in 0..2
    BY DEF Cuts
  <2>6. t.n <= t.n + Cuts(t, r, 0)
    BY <2>5, <1>0
  <2>7. Walked(x, 0, t, r, prot)
    BY <2>2, <2>3, <2>4, <2>6, Zenon DEF Walked, Has
  <2> QED BY <2>1, <2>7, Zenon
<1>3. ASSUME NEW k \in 0..t.n-1, k \in P PROVE k + 1 \in P
  <2>1. k \in Nat /\ k + 1 \in 0..t.n /\ k + 1 # 0 /\ (k + 1) - 1 = k /\ k + 1 \in Nat
    BY <1>0
  <2>2. w[k + 1] = Turn(w[k], r, prot)
    BY <2>1, <1>1, Zenon
  <2>3. Walked(w[k], k, t, r, prot)
    BY <1>3, Zenon
  <2>4. Walked(Turn(w[k], r, prot), k + 1, t, r, prot)
    BY <2>3, TurnDoes, Zenon
  <2> QED BY <2>1, <2>2, <2>4, Zenon
<1>4. Walked(w[t.n], t.n, t, r, prot)
  <2>1. t.n \in P
    <3> HIDE DEF P
    <3>1. \A k \in 0..t.n : k \in P
      BY <1>0, <1>2, <1>3, SetInduction, Zenon
    <3> QED BY <3>1, <1>0
  <2> QED BY <2>1, Zenon
<1>5. u = w[t.n].t
  BY Zenon DEF Walk, w
<1>6. w[t.n].i - 1 = u.n
  <2>1. w[t.n].i = ((t.n + 1) + u.n) - t.n /\ TableOK(u)
    BY <1>4, <1>5, Zenon DEF Walked
  <2>2. u.n \in Nat
    BY <2>1, TableParts, Zenon
  <2> QED BY <2>1, <2>2, <1>0
<1> QED BY <1>4, <1>5, <1>6, Zenon DEF Walked, Changed

-----------------------------------------------------------------------------
(* vma_insert. *)

\* Put changes one slot.
LEMMA PutIs ==
  ASSUME NEW t \in Tables, NEW k \in 1..VMA_CAPACITY, NEW m \in Entry
  PROVE  /\ Put(t, k, m) \in Tables /\ Put(t, k, m).n = t.n
         /\ \A j \in 1..VMA_CAPACITY : Put(t, k, m).slot[j] = IF j = k THEN m ELSE t.slot[j]
<1> DEFINE E == Entry \cup {NoEntry}
           f == [t.slot EXCEPT ![k] = m]
<1>1. t = [slot |-> t.slot, n |-> t.n] /\ t.slot \in [1..VMA_CAPACITY -> E] /\ t.n \in 0..VMA_CAPACITY
  BY Zenon DEF Tables
<1>2. m \in E
  BY Zenon
<1> HIDE DEF E
<1>3. f \in [1..VMA_CAPACITY -> E] /\ \A j \in 1..VMA_CAPACITY : f[j] = IF j = k THEN m ELSE t.slot[j]
  BY <1>1, <1>2, Zenon
<1>4. Put(t, k, m) = [slot |-> f, n |-> t.n]
  <2>1. Put(t, k, m) = [t EXCEPT !.slot = f]
    BY Zenon DEF Put
  <2> HIDE DEF f
  <2> QED BY <1>1, <2>1, Zenon
<1> HIDE DEF f
<1>5. Put(t, k, m).n = t.n /\ Put(t, k, m).slot = f
  BY <1>4
<1>6. Put(t, k, m) \in Tables
  BY <1>1, <1>3, <1>4 DEF Tables, E
<1> QED BY <1>3, <1>5, <1>6, Zenon

\* m is one mapping that shows what a and b, which meets it, show.
Joined(m, a, b) ==
  /\ Mapping(m) /\ m.va = a.va /\ End(m) = End(b) /\ m.prot = b.prot /\ m.type = b.type
  /\ \A v, p, y : Shows(m, v, p, y) <=> Shows(a, v, p, y) \/ Shows(b, v, p, y)

\* Two entries that vma_can_merge accepts show as one what they show as two.
LEMMA JoinShows ==
  ASSUME NEW a, NEW b, Mapping(a), Mapping(b), CanMerge(a, b), NEW m, m = [a EXCEPT !.n = @ + b.n]
  PROVE  Joined(m, a, b)
<1>0. MaxVa \in Nat /\ a \in Entry /\ b \in Entry /\ End(b) <= MaxVa + 1 /\ End(a) = b.va /\ a.prot = b.prot /\ a.type = b.type
  BY VmaAssumption, Zenon DEF Mapping, CanMerge
<1>1. /\ a.va \in Nat \ {0} /\ a.n \in Nat \ {0} /\ b.va \in Nat \ {0} /\ b.n \in Nat \ {0}
      /\ End(b) = b.va + b.n /\ End(a) = a.va + a.n /\ a.va \in 1..MaxVa
      /\ a.prot \in Prots /\ a.type \in Types
  BY <1>0, EntryNumbers, Zenon DEF End, Entry, Pages
<1>2. a.n + b.n \in 1..MaxVa /\ a.va + (a.n + b.n) = End(b)
  BY <1>0, <1>1
<1>3. m = [va |-> a.va, n |-> a.n + b.n, prot |-> a.prot, type |-> a.type]
  <2>1. a = [va |-> a.va, n |-> a.n, prot |-> a.prot, type |-> a.type]
    BY <1>0, Zenon DEF Entry
  <2>2. m = [a EXCEPT !.n = a.n + b.n]
    BY Zenon
  <2> QED BY <2>1, <2>2, Zenon
<1>4. m \in Entry /\ m.va = a.va /\ m.n = a.n + b.n /\ m.prot = b.prot /\ m.type = b.type
  BY <1>0, <1>1, <1>2, <1>3, Zenon DEF Entry, Pages
<1>5. End(m) = End(b)
  BY <1>2, <1>4, Zenon DEF End
<1>6. \A v : v \in a.va..End(b) - 1 <=> v \in a.va..End(a) - 1 \/ v \in b.va..End(b) - 1
  BY <1>0, <1>1
<1>7. \A v, p, y : Shows(m, v, p, y) <=> Shows(a, v, p, y) \/ Shows(b, v, p, y)
  BY <1>0, <1>4, <1>5, <1>6, Zenon DEF Shows, PagesOf
<1> QED BY <1>0, <1>4, <1>5, <1>7, Zenon DEF Mapping, Joined

\* One entry alone.
LEMMA HasOne ==
  ASSUME NEW t, NEW k \in Int, NEW v, NEW p, NEW y
  PROVE  Has(t, k, k, v, p, y) <=> Shows(t.slot[k], v, p, y)
<1>1. \A j : j \in k..k <=> j = k
  OBVIOUS
<1> QED BY <1>1, Zenon DEF Has

\* e joins t as one entry m, which takes the place of the entries a to b.
Adds(u, t, e) ==
  TableOK(u) /\ \A v, p, y : Has(u, 1, u.n, v, p, y) <=> Has(t, 1, t.n, v, p, y) \/ Shows(e, v, p, y)

\* A splice by one mapping that shows the replaced entries and e adds e.
LEMMA SpliceAdds ==
  ASSUME NEW t, TableOK(t), NEW u, NEW a \in 1..t.n + 1, NEW b \in a-1..t.n, NEW m, Mapping(m), NEW e,
         Spliced(u, t, a, b, <<m>>),
         \A j \in 1..a-1 : End(t.slot[j]) <= m.va,
         \A j \in b+1..t.n : End(m) <= t.slot[j].va,
         \A v, p, y : Shows(m, v, p, y) <=> Has(t, a, b, v, p, y) \/ Shows(e, v, p, y)
  PROVE  Adds(u, t, e)
<1> DEFINE ps == <<m>>
<1>0. t.n \in Nat
  BY TableParts, Zenon
<1>1. Len(ps) = 1 /\ ps[1] = m
  BY Zenon
<1>2. Spliced(u, t, a, b, ps)
  BY Zenon
<1> HIDE DEF ps
<1>3. \A k : k \in 1..Len(ps) <=> k = 1
  BY <1>1
<1>4. Len(ps) \in Nat /\ ~(1 < 1)
  BY <1>1
<1>5. TableOK(u)
  <2>1. \A k \in 1..Len(ps) : Mapping(ps[k])
    BY <1>1, <1>3, Zenon
  <2>2. InOrder(ps, Len(ps))
    <3>1. \A j, k \in 1..Len(ps) : ~(j < k)
      BY <1>1
    <3> QED BY <3>1, Zenon DEF InOrder
  <2>3. \A j \in 1..a-1, k \in 1..Len(ps) : End(t.slot[j]) <= ps[k].va
    BY <1>1, <1>3, Zenon
  <2>4. \A j \in 1..Len(ps), k \in b+1..t.n : End(ps[j]) <= t.slot[k].va
    BY <1>1, <1>3, Zenon
  <2> QED BY <2>1, <2>2, <2>3, <2>4, <1>2, <1>4, SplicedKeeps, Zenon
<1>6. u.n \in Nat /\ u.n = (t.n - ((b - a) + 1)) + 1
  BY <1>1, <1>2, <1>5, TableParts, Zenon DEF Spliced
<1>7. ASSUME NEW v, NEW p, NEW y
      PROVE  Has(u, 1, u.n, v, p, y) <=> Has(t, 1, t.n, v, p, y) \/ Shows(e, v, p, y)
  <2>1. /\ Has(u, 1, (a + Len(ps)) - 1, v, p, y)
              <=> Has(t, 1, a - 1, v, p, y) \/ \E k \in 1..Len(ps) : Shows(ps[k], v, p, y)
        /\ Has(u, a + Len(ps), u.n, v, p, y) <=> Has(t, b + 1, t.n, v, p, y)
    BY <1>2, <1>4, SplicedShows, Zenon
  <2>2. /\ (a + Len(ps)) - 1 = a /\ a + Len(ps) = a + 1 /\ a \in 0..u.n /\ a - 1 \in 0..b /\ b \in 0..t.n /\ b \in Nat
        /\ (a - 1) + 1 = a
    BY <1>0, <1>1, <1>6
  <2>3. Has(u, 1, u.n, v, p, y) <=> Has(u, 1, a, v, p, y) \/ Has(u, a + 1, u.n, v, p, y)
    BY <2>2, <1>6, HasSplit, Zenon
  <2>4. Has(t, 1, t.n, v, p, y) <=> Has(t, 1, b, v, p, y) \/ Has(t, b + 1, t.n, v, p, y)
    BY <2>2, <1>0, HasSplit, Zenon
  <2>5. Has(t, 1, b, v, p, y) <=> Has(t, 1, a - 1, v, p, y) \/ Has(t, (a - 1) + 1, b, v, p, y)
    BY <2>2, HasSplit, Zenon
  <2>6. (\E k \in 1..Len(ps) : Shows(ps[k], v, p, y)) <=> Shows(m, v, p, y)
    BY <1>1, <1>3, Zenon
  <2> QED BY <2>1, <2>2, <2>3, <2>4, <2>5, <2>6, Zenon
<1> QED BY <1>5, <1>7, Zenon DEF Adds

\* The search of vma_insert finds the place: what is before e ends at or
\* below it, what is behind begins at or above its end.
LEMMA IndexIs ==
  ASSUME NEW t, TableOK(t), NEW e, Mapping(e), \A k \in 1..t.n : Apart(t.slot[k], e), NEW i, i = Index(t, e.va)
  PROVE  /\ i \in 1..t.n + 1
         /\ \A j \in 1..i-1 : End(t.slot[j]) <= e.va
         /\ \A j \in i..t.n : End(e) <= t.slot[j].va
<1> DEFINE S == {k \in 1..t.n + 1 : k = t.n + 1 \/ t.slot[k].va >= e.va}
<1>0. t.n \in Nat /\ e.va \in Nat /\ End(e) \in Nat /\ e.va < End(e)
  BY TableParts, EntryNumbers, Zenon DEF Mapping
<1>1. i \in S /\ \A j \in S : i <= j
  <2>1. S \subseteq Nat /\ t.n + 1 \in S
    BY <1>0
  <2>2. i = First(S)
    BY Zenon DEF Index
  <2> HIDE DEF S
  <2>3. \E x \in S : IsFirst(S, x)
    <3>1. S # {}
      BY <2>1, Zenon
    <3> QED BY <2>1, <3>1, NatMin, Zenon DEF IsFirst
  <2>4. IsFirst(S, i)
    BY <2>2, <2>3, Zenon DEF First
  <2> QED BY <2>4, Zenon DEF IsFirst
<1>2. i \in 1..t.n + 1 /\ i \in Nat
  BY <1>0, <1>1
<1>3. \A j \in 1..t.n : /\ t.slot[j].va \in Nat /\ End(t.slot[j]) \in Nat /\ t.slot[j].va < End(t.slot[j])
                        /\ End(t.slot[j]) <= e.va \/ End(e) <= t.slot[j].va
  BY EntryNumbers, Zenon DEF TableOK, Mapping, Apart
<1>4. ASSUME NEW j \in 1..i-1 PROVE End(t.slot[j]) <= e.va
  <2>1. j \in 1..t.n /\ j \in 1..t.n + 1 /\ j # t.n + 1 /\ ~(i <= j)
    BY <1>0, <1>2
  <2>2. ~(t.slot[j].va >= e.va)
    BY <2>1, <1>1, Zenon
  <2>3. /\ t.slot[j].va \in Nat /\ End(t.slot[j]) \in Nat
        /\ End(t.slot[j]) <= e.va \/ End(e) <= t.slot[j].va
    BY <2>1, <1>3, Zenon
  <2> QED BY <2>2, <2>3, <1>0
<1>5. ASSUME NEW j \in i..t.n PROVE End(e) <= t.slot[j].va
  <2>1. j \in 1..t.n /\ i \in 1..t.n /\ i # t.n + 1 /\ (i < j \/ i = j)
    BY <1>0, <1>2
  <2>2. t.slot[i].va >= e.va
    BY <2>1, <1>1, Zenon
  <2>3. i < j => End(t.slot[i]) <= t.slot[j].va
    BY <2>1, Zenon DEF TableOK, InOrder
  <2>4. /\ t.slot[i].va \in Nat /\ End(t.slot[i]) \in Nat /\ t.slot[i].va < End(t.slot[i])
        /\ t.slot[j].va \in Nat /\ End(t.slot[j]) \in Nat /\ t.slot[j].va < End(t.slot[j])
        /\ End(t.slot[j]) <= e.va \/ End(e) <= t.slot[j].va
    BY <2>1, <1>3, Zenon
  <2>5. t.slot[j].va >= e.va
    <3>1. CASE i < j
      BY <3>1, <2>2, <2>3, <2>4, <1>0
    <3>2. CASE i = j
      BY <3>2, <2>2, Zenon
    <3> QED BY <3>1, <3>2, <2>1, Zenon
  <2> QED BY <2>4, <2>5, <1>0
<1> QED BY <1>2, <1>4, <1>5, Zenon

\* A table in order with room has a free slot for a mapping apart from all.
LEMMA RoomForOne ==
  ASSUME NEW t, TableOK(t), Room(t), NEW e, Mapping(e), NEW i \in 1..t.n + 1,
         \A j \in 1..i-1 : End(t.slot[j]) <= e.va,
         \A j \in i..t.n : End(e) <= t.slot[j].va
  PROVE  t.n + 1 <= VMA_CAPACITY
<1>0. /\ t.n \in Nat /\ VMA_CAPACITY \in Nat /\ MaxVa \in Nat /\ i \in Nat
      /\ e.va \in Nat \ {0} /\ End(e) \in Nat /\ e.va < End(e) /\ End(e) <= MaxVa + 1
  <2>1. t.n \in Nat /\ VMA_CAPACITY \in Nat /\ MaxVa \in Nat
    BY TableParts, VmaAssumption, Zenon
  <2>2. e.va \in Nat \ {0} /\ End(e) \in Nat /\ e.va < End(e) /\ End(e) <= MaxVa + 1
    BY EntryNumbers, Zenon DEF Mapping
  <2> QED BY <2>1, <2>2
<1>1. \A j \in 1..t.n : t.slot[j].va \in Nat /\ End(t.slot[j]) \in Nat /\ t.slot[j].va < End(t.slot[j])
  BY EntryNumbers, Zenon DEF TableOK, Mapping
<1>2. i <= e.va
  <2>1. CASE i = 1
    BY <2>1, <1>0
  <2>2. CASE i # 1
    <3>1. i - 1 \in 1..t.n /\ i - 1 \in 1..i-1
      BY <2>2, <1>0
    <3>2. i - 1 <= t.slot[i - 1].va /\ End(t.slot[i - 1]) <= e.va
      BY <3>1, Places, Zenon
    <3>3. t.slot[i - 1].va \in Nat /\ End(t.slot[i - 1]) \in Nat /\ t.slot[i - 1].va < End(t.slot[i - 1])
      BY <3>1, <1>1, Zenon
    <3> QED BY <3>2, <3>3, <1>0
  <2> QED BY <2>1, <2>2, Zenon
<1>3. CASE MaxVa <= VMA_CAPACITY
  <2>1. CASE i = t.n + 1
    BY <2>1, <1>0, <1>2, <1>3
  <2>2. CASE i # t.n + 1
    <3>1. i \in 1..t.n /\ i \in i..t.n
      BY <2>2, <1>0
    <3>2. End(t.slot[i]) + (t.n - i) <= MaxVa + 1 /\ End(e) <= t.slot[i].va
      BY <3>1, Places, Zenon
    <3>3. t.slot[i].va \in Nat /\ End(t.slot[i]) \in Nat /\ t.slot[i].va < End(t.slot[i])
      BY <3>1, <1>1, Zenon
    <3> QED BY <3>2, <3>3, <1>0, <1>2, <1>3
  <2> QED BY <2>1, <2>2, Zenon
<1>4. CASE t.n + 2 <= VMA_CAPACITY
  BY <1>0, <1>4
<1> QED BY <1>3, <1>4, Zenon DEF Room

\* vma_insert extends one neighbour.
LEMMA PutSplices ==
  ASSUME NEW t, TableOK(t), NEW k \in 1..t.n, NEW m, Mapping(m)
  PROVE  Spliced(Put(t, k, m), t, k, k, <<m>>)
<1> DEFINE u == Put(t, k, m)
           ps == <<m>>
<1>0. t.n \in Nat /\ VMA_CAPACITY \in Nat /\ t.n <= VMA_CAPACITY /\ t \in Tables /\ m \in Entry
  BY TableParts, Zenon DEF TableOK, Mapping
<1>1. k \in 1..VMA_CAPACITY /\ k \in Nat
  BY <1>0
<1>2. u \in Tables /\ u.n = t.n /\ \A j \in 1..VMA_CAPACITY : u.slot[j] = IF j = k THEN m ELSE t.slot[j]
  BY <1>0, <1>1, PutIs, Zenon
<1>3. Len(ps) = 1 /\ ps[1] = m
  BY Zenon
<1> HIDE DEF u, ps
<1>4. u.n = (t.n - ((k - k) + 1)) + Len(ps)
  <2>1. t.n = (t.n - ((k - k) + 1)) + 1
    BY <1>0, <1>1
  <2> QED BY <2>1, <1>2, <1>3, Zenon
<1>5. ASSUME NEW j \in 1..k-1 PROVE u.slot[j] = t.slot[j]
  <2>1. j \in 1..VMA_CAPACITY /\ j # k
    BY <1>0, <1>1
  <2> QED BY <2>1, <1>2, Zenon
<1>6. ASSUME NEW j \in 1..Len(ps) PROVE u.slot[(k - 1) + j] = ps[j]
  <2>1. j = 1 /\ (k - 1) + j = k
    BY <1>1, <1>3
  <2> QED BY <2>1, <1>1, <1>2, <1>3, Zenon
<1>7. ASSUME NEW j \in k+1..t.n PROVE u.slot[(j - ((k - k) + 1)) + Len(ps)] = t.slot[j]
  <2>1. j \in 1..VMA_CAPACITY /\ j # k /\ (j - ((k - k) + 1)) + Len(ps) = j
    BY <1>0, <1>1, <1>3
  <2> QED BY <2>1, <1>2, Zenon
<1> QED BY <1>2, <1>4, <1>5, <1>6, <1>7, Zenon DEF Spliced, u, ps

\* vma_insert closes the gap between two neighbours: they become one entry.
LEMMA CloseSplices ==
  ASSUME NEW t, TableOK(t), NEW i \in 2..t.n, NEW m, Mapping(m)
  PROVE  Spliced(Put(Replace(t, i, <<>>), i - 1, m), t, i - 1, i, <<m>>)
<1> DEFINE s == Replace(t, i, <<>>)
           u == Put(s, i - 1, m)
           ps == <<m>>
<1>0. t.n \in Nat /\ VMA_CAPACITY \in Nat /\ t.n <= VMA_CAPACITY /\ m \in Entry
  BY TableParts, Zenon DEF TableOK, Mapping
<1>1. i \in 1..t.n /\ i \in Nat /\ i - 1 \in 1..VMA_CAPACITY /\ i - 1 \in Nat
  BY <1>0
<1>2. Spliced(s, t, i, i, <<>>)
  <2> DEFINE qs == <<>>
  <2>1. Len(qs) = 0
    BY Zenon
  <2> HIDE DEF qs
  <2>2. Len(qs) \in Nat /\ t.n + Len(qs) <= VMA_CAPACITY + 1 /\ \A k : k \notin 1..Len(qs)
    BY <2>1, <1>0
  <2>3. Spliced(Replace(t, i, qs), t, i, i, qs)
    BY <2>2, <1>1, ReplaceIs, Zenon
  <2> QED BY <2>3, Zenon DEF qs
<1>3. /\ s \in Tables /\ s.n = t.n - 1
      /\ \A k \in 1..i-1 : s.slot[k] = t.slot[k]
      /\ \A k \in i+1..t.n : s.slot[k - 1] = t.slot[k]
  <2> DEFINE qs == <<>>
  <2>1. Len(qs) = 0
    BY Zenon
  <2> HIDE DEF qs, s
  <2>2. Spliced(s, t, i, i, qs)
    BY <1>2, Zenon DEF qs
  <2>3. (t.n - ((i - i) + 1)) + Len(qs) = t.n - 1
    BY <2>1, <1>0, <1>1
  <2>4. \A k \in i+1..t.n : (k - ((i - i) + 1)) + Len(qs) = k - 1
    BY <2>1, <1>0, <1>1
  <2> QED BY <2>2, <2>3, <2>4, Zenon DEF Spliced
<1> HIDE DEF s
<1>4. u \in Tables /\ u.n = t.n - 1 /\ \A j \in 1..VMA_CAPACITY : u.slot[j] = IF j = i - 1 THEN m ELSE s.slot[j]
  <2>1. s \in Tables /\ i - 1 \in 1..VMA_CAPACITY /\ m \in Entry
    BY <1>0, <1>1, <1>3, Zenon
  <2>2. u \in Tables /\ u.n = s.n /\ \A j \in 1..VMA_CAPACITY : u.slot[j] = IF j = i - 1 THEN m ELSE s.slot[j]
    BY <2>1, PutIs, Zenon
  <2> QED BY <2>2, <1>3, Zenon
<1>5. Len(ps) = 1 /\ ps[1] = m
  BY Zenon
<1> HIDE DEF u, ps
<1>6. u.n = (t.n - ((i - (i - 1)) + 1)) + Len(ps)
  <2>1. t.n - 1 = (t.n - ((i - (i - 1)) + 1)) + 1
    BY <1>0, <1>1
  <2> QED BY <2>1, <1>4, <1>5, Zenon
<1>7. ASSUME NEW j \in 1..(i - 1)-1 PROVE u.slot[j] = t.slot[j]
  <2>1. j \in 1..VMA_CAPACITY /\ j # i - 1 /\ j \in 1..i-1
    BY <1>0, <1>1
  <2> QED BY <2>1, <1>3, <1>4, Zenon
<1>8. ASSUME NEW j \in 1..Len(ps) PROVE u.slot[((i - 1) - 1) + j] = ps[j]
  <2>1. j = 1 /\ ((i - 1) - 1) + j = i - 1
    BY <1>1, <1>5
  <2> QED BY <2>1, <1>1, <1>4, <1>5, Zenon
<1>9. ASSUME NEW j \in i+1..t.n PROVE u.slot[(j - ((i - (i - 1)) + 1)) + Len(ps)] = t.slot[j]
  <2>1. j - 1 \in 1..VMA_CAPACITY /\ j - 1 # i - 1 /\ (j - ((i - (i - 1)) + 1)) + Len(ps) = j - 1
    BY <1>0, <1>1, <1>5
  <2> QED BY <2>1, <1>3, <1>4, Zenon
<1> QED BY <1>4, <1>6, <1>7, <1>8, <1>9, Zenon DEF Spliced, u, s, ps

\* vma_insert shifts the entries behind and writes the new one.
LEMMA InsertSplices ==
  ASSUME NEW t, TableOK(t), NEW i \in 1..t.n + 1, NEW m, Mapping(m), t.n + 1 <= VMA_CAPACITY
  PROVE  Spliced(InsertAt(t, i, m), t, i, i - 1, <<m>>)
<1> DEFINE E == Entry \cup {NoEntry}
           u == InsertAt(t, i, m)
           ps == <<m>>
           f(k) == IF k = i THEN m ELSE IF k > i /\ k <= t.n + 1 THEN t.slot[k - 1] ELSE t.slot[k]
           g == [k \in 1..VMA_CAPACITY |-> f(k)]
           z == t.n + 1
<1>1. /\ t.n \in Nat /\ VMA_CAPACITY \in Nat /\ t.n <= VMA_CAPACITY /\ m \in E
      /\ t.slot \in [1..VMA_CAPACITY -> E] /\ DOMAIN t.slot = 1..VMA_CAPACITY
  BY TableParts, Zenon DEF Mapping
<1>2. i \in Nat /\ 1 <= i /\ i <= t.n + 1
  BY <1>1
<1>3. u = [slot |-> g, n |-> z]
  BY <1>1, Zenon DEF InsertAt
<1> HIDE DEF u, E
<1>4. u.n = z /\ u.slot = g
  <2> HIDE DEF g, z
  <2> QED BY <1>3, Zenon
<1>5. ASSUME NEW k \in 1..VMA_CAPACITY PROVE f(k) \in E
  <2>1. CASE k > i /\ k <= t.n + 1
    <3>1. k - 1 \in 1..VMA_CAPACITY
      BY <1>1, <1>2, <2>1
    <3> QED BY <3>1, <2>1, <1>1, Zenon
  <2>2. CASE ~(k > i /\ k <= t.n + 1)
    BY <2>2, <1>1, Zenon
  <2> QED BY <2>1, <2>2, Zenon
<1>6. u \in Tables
  <2>1. z \in 0..VMA_CAPACITY
    BY <1>1
  <2>2. g \in [1..VMA_CAPACITY -> E]
    BY <1>5, Zenon
  <2> HIDE DEF g, z
  <2> QED BY <1>3, <2>1, <2>2, Zenon DEF Tables, E
<1>7. Len(ps) = 1 /\ ps[1] = m
  BY Zenon
<1> HIDE DEF ps
<1>8. u.n = (t.n - (((i - 1) - i) + 1)) + Len(ps)
  <2>1. t.n + 1 = (t.n - (((i - 1) - i) + 1)) + 1
    BY <1>1, <1>2
  <2> QED BY <2>1, <1>4, <1>7, Zenon
<1>9. ASSUME NEW j \in 1..i-1 PROVE u.slot[j] = t.slot[j]
  <2>1. j \in 1..VMA_CAPACITY /\ j # i /\ ~(j > i)
    BY <1>1, <1>2
  <2> QED BY <2>1, <1>4, Zenon
<1>10. ASSUME NEW j \in 1..Len(ps) PROVE u.slot[(i - 1) + j] = ps[j]
  <2>1. j = 1 /\ (i - 1) + j = i /\ i \in 1..VMA_CAPACITY
    BY <1>1, <1>2, <1>7
  <2> QED BY <2>1, <1>4, <1>7, Zenon
<1>11. ASSUME NEW j \in (i - 1)+1..t.n PROVE u.slot[(j - (((i - 1) - i) + 1)) + Len(ps)] = t.slot[j]
  <2>1. /\ (j - (((i - 1) - i) + 1)) + Len(ps) = j + 1 /\ j + 1 \in 1..VMA_CAPACITY /\ j + 1 # i
        /\ j + 1 > i /\ j + 1 <= t.n + 1 /\ (j + 1) - 1 = j
    BY <1>1, <1>2, <1>7
  <2> QED BY <2>1, <1>4, Zenon
<1> QED BY <1>6, <1>8, <1>9, <1>10, <1>11, Zenon DEF Spliced, u, ps

\* vma_insert adds the mapping, whichever neighbours it merges with.
LEMMA InsertDoes ==
  ASSUME NEW t, TableOK(t), Room(t), NEW e, Mapping(e), \A k \in 1..t.n : Apart(t.slot[k], e),
         NEW u, u = vma_insert(t, e)
  PROVE  Adds(u, t, e)
<1> DEFINE i == Index(t, e.va)
           l == t.slot[i - 1]
           h == t.slot[i]
           left == [l EXCEPT !.n = @ + e.n]
<1>0. t.n \in Nat /\ MaxVa \in Nat /\ e.va \in Nat /\ End(e) \in Nat /\ e.n \in Nat \ {0}
  BY TableParts, VmaAssumption, EntryNumbers, Zenon DEF Mapping
<1>1. /\ i \in 1..t.n + 1
      /\ \A j \in 1..i-1 : End(t.slot[j]) <= e.va
      /\ \A j \in i..t.n : End(e) <= t.slot[j].va
  BY IndexIs, Zenon
<1>2. e.n # 0 /\ i \in Nat
  BY <1>0, <1>1
<1> HIDE DEF i
<1>3. i > 1 => i - 1 \in 1..t.n /\ i - 1 \in 1..t.n + 1 /\ Mapping(l)
  <2>1. i > 1 => i - 1 \in 1..t.n /\ i - 1 \in 1..t.n + 1
    BY <1>0, <1>1
  <2> QED BY <2>1, Zenon DEF TableOK
<1>4. i <= t.n => i \in 1..t.n /\ Mapping(h)
  <2>1. i <= t.n => i \in 1..t.n
    BY <1>0, <1>1
  <2> QED BY <2>1, Zenon DEF TableOK
<1>5. CASE i > 1 /\ CanMerge(l, e)
  <2>1. /\ Mapping(left) /\ left.va = l.va /\ End(left) = End(e) /\ left.prot = e.prot /\ left.type = e.type
        /\ \A v, p, y : Shows(left, v, p, y) <=> Shows(l, v, p, y) \/ Shows(e, v, p, y)
    <3> DEFINE ll == left
    <3>1. ll = [l EXCEPT !.n = @ + e.n]
      BY Zenon
    <3> HIDE DEF l, ll
    <3>2. /\ Mapping(ll) /\ ll.va = l.va /\ End(ll) = End(e) /\ ll.prot = e.prot /\ ll.type = e.type
          /\ \A v, p, y : Shows(ll, v, p, y) <=> Shows(l, v, p, y) \/ Shows(e, v, p, y)
      <4>1. Mapping(l) /\ CanMerge(l, e)
        BY <1>3, <1>5, Zenon
      <4>2. Joined(ll, l, e)
        BY <3>1, <4>1, JoinShows, Zenon
      <4> QED BY <4>2, Zenon DEF Joined
    <3> QED BY <3>2, Zenon DEF ll, l
  <2>2. \A j \in 1..(i - 1)-1 : End(t.slot[j]) <= l.va
    <3>1. \A j \in 1..(i - 1)-1 : j \in 1..t.n /\ j < i - 1
      BY <1>0, <1>1
    <3> QED BY <3>1, <1>3, <1>5, Zenon DEF TableOK, InOrder
  <2>3. CASE i <= t.n /\ CanMerge(left, h)
    <3> DEFINE ll == left
               m == [ll EXCEPT !.n = @ + h.n]
               mm == m
    <3>1. u = Put(Replace(t, i, <<>>), i - 1, mm)
      BY <1>2, <1>5, <2>3, Zenon DEF vma_insert, i
    <3>2. Mapping(ll) /\ CanMerge(ll, h) /\ Mapping(h) /\ mm = [ll EXCEPT !.n = @ + h.n]
      BY <2>1, <2>3, <1>4, Zenon
    <3>3. ll.va = l.va /\ \A v, p, y : Shows(ll, v, p, y) <=> Shows(l, v, p, y) \/ Shows(e, v, p, y)
      BY <2>1, Zenon
    <3> HIDE DEF l, h, ll, mm
    <3>4. /\ Mapping(mm) /\ mm.va = ll.va /\ End(mm) = End(h)
          /\ \A v, p, y : Shows(mm, v, p, y) <=> Shows(ll, v, p, y) \/ Shows(h, v, p, y)
      <4>1. Joined(mm, ll, h)
        BY <3>2, JoinShows, Zenon
      <4> QED BY <4>1, Zenon DEF Joined
    <3>5. i \in 2..t.n /\ i - 1 \in 1..t.n + 1 /\ i \in (i - 1)-1..t.n
      BY <1>0, <1>1, <1>5, <2>3
    <3>6. Spliced(u, t, i - 1, i, <<mm>>)
      BY <3>1, <3>4, <3>5, CloseSplices, Zenon
    <3>7. \A j \in i+1..t.n : End(mm) <= t.slot[j].va
      <4>1. i \in 1..t.n /\ \A j \in i+1..t.n : j \in 1..t.n /\ i < j
        BY <1>0, <1>1, <2>3
      <4> QED BY <4>1, <3>4, Zenon DEF TableOK, InOrder, h
    <3>8. \A j \in 1..(i - 1)-1 : End(t.slot[j]) <= mm.va
      BY <2>2, <3>3, <3>4, Zenon DEF l
    <3>9. \A v, p, y : Has(t, i - 1, i, v, p, y) <=> Shows(l, v, p, y) \/ Shows(h, v, p, y)
      <4>1. \A j : j \in i - 1..i <=> j = i - 1 \/ j = i
        BY <1>2
      <4> QED BY <4>1, Zenon DEF Has, l, h
    <3>10. \A v, p, y : Shows(mm, v, p, y) <=> Has(t, i - 1, i, v, p, y) \/ Shows(e, v, p, y)
      BY <3>3, <3>4, <3>9, Zenon
    <3> QED BY <3>4, <3>5, <3>6, <3>7, <3>8, <3>10, SpliceAdds, Zenon
  <2>4. CASE ~(i <= t.n /\ CanMerge(left, h))
    <3> DEFINE ll == left
    <3>1. u = Put(t, i - 1, ll)
      BY <1>2, <1>5, <2>4, Zenon DEF vma_insert, i
    <3>2. /\ Mapping(ll) /\ ll.va = l.va /\ End(ll) = End(e)
          /\ \A v, p, y : Shows(ll, v, p, y) <=> Shows(l, v, p, y) \/ Shows(e, v, p, y)
      BY <2>1, Zenon
    <3> HIDE DEF l, ll
    <3>3. i - 1 \in 1..t.n /\ i - 1 \in 1..t.n + 1 /\ i - 1 \in (i - 1)-1..t.n /\ i - 1 \in Int /\ (i - 1) + 1 = i
      BY <1>0, <1>1, <1>5
    <3>4. Spliced(u, t, i - 1, i - 1, <<ll>>)
      BY <3>1, <3>2, <3>3, PutSplices, Zenon
    <3>5. \A j \in (i - 1)+1..t.n : End(ll) <= t.slot[j].va
      BY <1>1, <3>2, <3>3, Zenon
    <3>6. \A v, p, y : Shows(ll, v, p, y) <=> Has(t, i - 1, i - 1, v, p, y) \/ Shows(e, v, p, y)
      BY <3>2, <3>3, HasOne, Zenon DEF l
    <3>7. \A j \in 1..(i - 1)-1 : End(t.slot[j]) <= ll.va
      BY <2>2, <3>2, Zenon DEF l
    <3> QED BY <3>2, <3>3, <3>4, <3>5, <3>6, <3>7, SpliceAdds, Zenon
  <2> QED BY <2>3, <2>4, Zenon
<1>6. CASE ~(i > 1 /\ CanMerge(l, e)) /\ i <= t.n /\ CanMerge(e, h)
  <2> DEFINE m == [e EXCEPT !.n = @ + h.n]
  <2>1. u = Put(t, i, m)
    BY <1>2, <1>6, Zenon DEF vma_insert, i
  <2>2. m = [e EXCEPT !.n = @ + h.n] /\ Mapping(h)
    BY <1>4, <1>6, Zenon
  <2> HIDE DEF l, h, m
  <2>3. /\ Mapping(m) /\ m.va = e.va /\ End(m) = End(h)
        /\ \A v, p, y : Shows(m, v, p, y) <=> Shows(e, v, p, y) \/ Shows(h, v, p, y)
    <3>1. Joined(m, e, h)
      BY <2>2, <1>6, JoinShows, Zenon
    <3> QED BY <3>1, Zenon DEF Joined
  <2>4. i \in 1..t.n /\ i \in i-1..t.n /\ i \in Int
    BY <1>0, <1>1, <1>6
  <2>5. Spliced(u, t, i, i, <<m>>)
    BY <2>1, <2>3, <2>4, PutSplices, Zenon
  <2>6. \A j \in i+1..t.n : End(m) <= t.slot[j].va
    <3>1. \A j \in i+1..t.n : j \in 1..t.n /\ i < j
      BY <1>0, <1>1
    <3> QED BY <3>1, <2>3, <2>4, Zenon DEF TableOK, InOrder, h
  <2>7. \A v, p, y : Shows(m, v, p, y) <=> Has(t, i, i, v, p, y) \/ Shows(e, v, p, y)
    BY <2>3, <2>4, HasOne, Zenon DEF h
  <2>8. \A j \in 1..i-1 : End(t.slot[j]) <= m.va
    BY <1>1, <2>3, Zenon
  <2> QED BY <2>3, <2>4, <2>5, <2>6, <2>7, <2>8, <1>1, SpliceAdds, Zenon
<1>7. CASE ~(i > 1 /\ CanMerge(l, e)) /\ ~(i <= t.n /\ CanMerge(e, h))
  <2>1. t.n + 1 <= VMA_CAPACITY /\ VMA_CAPACITY \in Nat
    BY <1>1, RoomForOne, VmaAssumption, Zenon
  <2>2. ~(t.n >= Capacity(t))
    <3>1. Capacity(t) = VMA_CAPACITY
      BY TableParts, Zenon
    <3> QED BY <3>1, <2>1, <1>0
  <2>3. u = InsertAt(t, i, e)
    BY <1>2, <1>7, <2>2, Zenon DEF vma_insert, i
  <2>4. Spliced(u, t, i, i - 1, <<e>>)
    BY <2>1, <2>3, <1>1, InsertSplices, Zenon
  <2>5. i - 1 \in i-1..t.n /\ (i - 1) + 1 = i
    BY <1>0, <1>1
  <2>6. \A v, p, y : Shows(e, v, p, y) <=> Has(t, i, i - 1, v, p, y) \/ Shows(e, v, p, y)
    <3>1. \A j : j \notin i..i - 1
      BY <1>2
    <3> QED BY <3>1, Zenon DEF Has
  <2> QED BY <2>4, <2>5, <2>6, <1>1, SpliceAdds, Zenon
<1> QED BY <1>5, <1>6, <1>7, Zenon

-----------------------------------------------------------------------------
(* The table and the pages. *)

\* The table is in order and shows exactly the mapped pages.
Matches(t, pg) ==
  /\ TableOK(t)
  /\ pg \in [Pages -> [prot : Prots, type : Types] \cup {Unmapped}]
  /\ \A v \in Pages : \A p, y :
       Has(t, 1, t.n, v, p, y) <=> pg[v] # Unmapped /\ pg[v].prot = p /\ pg[v].type = y

VmaIInv == Matches(table, page)

\* The pages of a mapping are pages of the address space.
LEMMA MappedPages ==
  ASSUME NEW e, Mapping(e), NEW v \in PagesOf(e)
  PROVE  v \in Pages
<1>1. e.va \in Nat \ {0} /\ End(e) \in Nat /\ End(e) <= MaxVa + 1 /\ MaxVa \in Nat
  BY EntryNumbers, VmaAssumption, Zenon DEF Mapping
<1> QED BY <1>1 DEF PagesOf, Pages

\* A page is unmapped or has a protection and a type.
LEMMA PageIs ==
  ASSUME NEW x \in [prot : Prots, type : Types] \cup {Unmapped}
  PROVE  /\ x # Unmapped => x \in [prot : Prots, type : Types]
         /\ x # Unmapped <=> x.type \in Types
<1>1. "none" \notin Types
  BY VmaAssumption, Zenon
<1>2. Unmapped.type = "none"
  BY Zenon DEF Unmapped
<1>3. x # Unmapped => x \in [prot : Prots, type : Types]
  BY Zenon
<1>4. x \in [prot : Prots, type : Types] => x.type \in Types
  BY Zenon
<1> QED BY <1>1, <1>2, <1>3, <1>4, Zenon

\* An empty table shows no page.
LEMMA EmptyMatches ==
  ASSUME NEW t \in Tables, t.n = 0
  PROVE  Matches(t, [v \in Pages |-> Unmapped])
<1> DEFINE pg == [v \in Pages |-> Unmapped]
<1>1. \A j : j \notin 1..0
  OBVIOUS
<1>2. TableOK(t)
  BY <1>1, Zenon DEF TableOK, InOrder
<1>3. pg \in [Pages -> [prot : Prots, type : Types] \cup {Unmapped}]
  BY Zenon
<1>4. \A v \in Pages : pg[v] = Unmapped
  BY Zenon
<1> HIDE DEF pg
<1>5. \A v, p, y : ~Has(t, 1, t.n, v, p, y)
  BY <1>1, Zenon DEF Has
<1>6. Matches(t, pg)
  BY <1>2, <1>3, <1>4, <1>5, Zenon DEF Matches
<1> QED BY <1>6, Zenon DEF pg

\* The entry and the pages that vma_insert makes of range r.
Entered(r, prot, type) == [va |-> r.va, n |-> r.n, prot |-> prot, type |-> type]
Mapped(pg, r, prot, type) ==
  [v \in Pages |-> IF v \in PagesOf(r) THEN [prot |-> prot, type |-> type] ELSE pg[v]]

\* vma_insert of a range whose pages are unmapped maps exactly these.
LEMMA InsertMatches ==
  ASSUME NEW t, NEW pg, Matches(t, pg), Room(t), NEW r \in Ranges, NEW prot \in Prots, NEW type \in Types,
         \A v \in PagesOf(r) : pg[v] = Unmapped
  PROVE  Matches(vma_insert(t, Entered(r, prot, type)), Mapped(pg, r, prot, type))
<1> DEFINE e == Entered(r, prot, type)
           x == [prot |-> prot, type |-> type]
           qg == [v \in Pages |-> IF v \in PagesOf(r) THEN x ELSE pg[v]]
<1>a. e = [va |-> r.va, n |-> r.n, prot |-> prot, type |-> type]
  BY Zenon DEF Entered
<1>b. qg = Mapped(pg, r, prot, type)
  BY Zenon DEF Mapped
<1> HIDE DEF e
<1>0. r.va \in Pages /\ r.n \in Pages /\ End(r) <= MaxVa + 1 /\ TableOK(t)
  BY Zenon DEF Ranges, Matches
<1>1. e \in Entry /\ e.va = r.va /\ e.n = r.n /\ e.prot = prot /\ e.type = type
  BY <1>0, <1>a, Zenon DEF Entry
<1>2. Mapping(e) /\ PagesOf(e) = PagesOf(r)
  BY <1>0, <1>1, Zenon DEF Mapping, PagesOf, End
<1>3. \A k \in 1..t.n : Mapping(t.slot[k])
  BY <1>0, Zenon DEF TableOK
<1>4. ASSUME NEW k \in 1..t.n PROVE Apart(t.slot[k], e)
  <2> DEFINE s == t.slot[k]
  <2>0. s \in Entry /\ e \in Entry
    BY <1>1, <1>3, Zenon DEF Mapping
  <2>1. s.va \in Nat /\ End(s) \in Nat /\ s.va < End(s) /\ e.va \in Nat /\ End(e) \in Nat /\ e.va < End(e)
    BY <2>0, EntryNumbers, Zenon
  <2> HIDE DEF s
  <2>2. ASSUME ~Apart(s, e) PROVE FALSE
    <3> DEFINE v == IF s.va < e.va THEN e.va ELSE s.va
    <3>1. v \in PagesOf(s) /\ v \in PagesOf(e)
      BY <2>1, <2>2 DEF Apart, PagesOf
    <3> HIDE DEF v
    <3>2. v \in Pages
      BY <3>1, <1>2, MappedPages, Zenon
    <3>3. Has(t, 1, t.n, v, s.prot, s.type)
      BY <3>1, Zenon DEF Has, Shows, s
    <3> QED BY <3>1, <3>2, <3>3, <1>2, Zenon DEF Matches
  <2> QED BY <2>2, Zenon DEF s
<1> DEFINE u == vma_insert(t, e)
<1>5. Adds(u, t, e)
  BY <1>0, <1>2, <1>4, InsertDoes, Zenon
<1> HIDE DEF u
<1>6. x \in [prot : Prots, type : Types] /\ x.prot = prot /\ x.type = type
  BY Zenon
<1> HIDE DEF x
<1>7. x # Unmapped
  BY <1>6, PageIs, Zenon
<1>8. pg \in [Pages -> [prot : Prots, type : Types] \cup {Unmapped}]
  BY Zenon DEF Matches
<1>9. qg \in [Pages -> [prot : Prots, type : Types] \cup {Unmapped}]
  BY <1>6, <1>8, Zenon
<1>10. ASSUME NEW v \in Pages, NEW p, NEW y
       PROVE  Has(u, 1, u.n, v, p, y) <=> qg[v] # Unmapped /\ qg[v].prot = p /\ qg[v].type = y
  <2>1. Has(u, 1, u.n, v, p, y) <=> Has(t, 1, t.n, v, p, y) \/ Shows(e, v, p, y)
    BY <1>5, Zenon DEF Adds
  <2>2. Has(t, 1, t.n, v, p, y) <=> pg[v] # Unmapped /\ pg[v].prot = p /\ pg[v].type = y
    BY Zenon DEF Matches
  <2>3. Shows(e, v, p, y) <=> v \in PagesOf(r) /\ prot = p /\ type = y
    BY <1>1, <1>2, Zenon DEF Shows
  <2>4. qg[v] = IF v \in PagesOf(r) THEN x ELSE pg[v]
    BY Zenon
  <2>5. CASE v \in PagesOf(r)
    BY <2>1, <2>2, <2>3, <2>4, <2>5, <1>6, <1>7, Zenon
  <2>6. CASE v \notin PagesOf(r)
    BY <2>1, <2>2, <2>3, <2>4, <2>6, Zenon
  <2> QED BY <2>5, <2>6, Zenon
<1>11. TableOK(u)
  BY <1>5, Zenon DEF Adds
<1> HIDE DEF qg
<1>12. Matches(u, qg)
  BY <1>9, <1>10, <1>11, Zenon DEF Matches
<1> QED BY <1>12, <1>b, Zenon DEF u, e

\* The pages pg have become qg by the removal of r, or its new protection.
Turned(qg, pg, r, prot) ==
  /\ qg \in [Pages -> [prot : Prots, type : Types] \cup {Unmapped}]
  /\ \A v \in Pages :
       IF v \in PagesOf(r)
       THEN IF pg[v] = Unmapped \/ prot = Gone THEN qg[v] = Unmapped
            ELSE qg[v] # Unmapped /\ qg[v].prot = prot /\ qg[v].type = pg[v].type
       ELSE qg[v] = pg[v]

\* The loop changes exactly the pages of r.
LEMMA WalkMatches ==
  ASSUME NEW t, NEW pg, Matches(t, pg), Room(t), NEW r \in Ranges, NEW prot, prot = Gone \/ prot \in Prots,
         NEW qg, Turned(qg, pg, r, prot)
  PROVE  Matches(Walk(t, r, prot), qg)
<1> DEFINE u == Walk(t, r, prot)
<1>1. /\ TableOK(u)
      /\ \A v, p, y : Has(u, 1, u.n, v, p, y) <=> \E j \in 1..t.n : Becomes(t.slot[j], r, prot, v, p, y)
  <2>1. TableOK(t)
    BY Zenon DEF Matches
  <2>2. Changed(u, t, r, prot)
    BY <2>1, WalkDoes, Zenon
  <2> QED BY <2>2, Zenon DEF Changed
<1> HIDE DEF u
<1>2. ASSUME NEW v \in Pages, NEW p, NEW y
      PROVE  Has(u, 1, u.n, v, p, y) <=> qg[v] # Unmapped /\ qg[v].prot = p /\ qg[v].type = y
  <2>1. Has(u, 1, u.n, v, p, y) <=> \E j \in 1..t.n : Becomes(t.slot[j], r, prot, v, p, y)
    BY <1>1, Zenon
  <2>2. \A q : Has(t, 1, t.n, v, q, y) <=> pg[v] # Unmapped /\ pg[v].prot = q /\ pg[v].type = y
    BY Zenon DEF Matches
  <2>3. CASE v \notin PagesOf(r)
    <3>1. Has(u, 1, u.n, v, p, y) <=> Has(t, 1, t.n, v, p, y)
      BY <2>1, <2>3, Zenon DEF Has, Becomes, Shows
    <3> QED BY <3>1, <2>2, <2>3, Zenon DEF Turned
  <2>4. CASE v \in PagesOf(r)
    <3>1. Has(u, 1, u.n, v, p, y) <=> prot # Gone /\ p = prot /\ \E q : Has(t, 1, t.n, v, q, y)
      BY <2>1, <2>4, Zenon DEF Has, Becomes, Shows
    <3>2. (\E q : Has(t, 1, t.n, v, q, y)) <=> pg[v] # Unmapped /\ pg[v].type = y
      BY <2>2, Zenon
    <3>3. IF pg[v] = Unmapped \/ prot = Gone THEN qg[v] = Unmapped
          ELSE qg[v] # Unmapped /\ qg[v].prot = prot /\ qg[v].type = pg[v].type
      BY <2>4, Zenon DEF Turned
    <3> QED BY <3>1, <3>2, <3>3, Zenon
  <2> QED BY <2>3, <2>4, Zenon
<1>3. Matches(u, qg)
  BY <1>1, <1>2, Zenon DEF Matches, Turned
<1> QED BY <1>3, Zenon DEF u

\* vma_init leaves an empty table.
LEMMA VmaInitIInv == VmaInit => VmaIInv
<1> SUFFICES ASSUME VmaInit PROVE VmaIInv
  BY Zenon
<1> DEFINE t == EmptyTable(VMA_CAPACITY)
<1>1. VMA_CAPACITY \in Nat
  BY VmaAssumption, Zenon
<1>2. t \in Tables /\ t.n = 0
  BY <1>1 DEF EmptyTable, Tables
<1> HIDE DEF t
<1>3. Matches(t, [v \in Pages |-> Unmapped])
  BY <1>2, EmptyMatches, Zenon
<1> QED BY <1>3, Zenon DEF VmaInit, VmaIInv, t

\* Every call keeps the table in order and in agreement with the pages, as
\* long as it begins with room in the table.
LEMMA VmaStepIInv == VmaIInv /\ Room(table) /\ [VmaNext]_vmaVars => VmaIInv'
<1> SUFFICES ASSUME VmaIInv, Room(table), [VmaNext]_vmaVars PROVE Matches(table', page')
  BY Zenon DEF VmaIInv, Matches, TableOK, InOrder, Tables, Mapping, Has, Shows
<1>0. Matches(table, page) /\ TableOK(table)
  BY Zenon DEF VmaIInv, Matches
<1>1. page \in [Pages -> [prot : Prots, type : Types] \cup {Unmapped}]
  BY <1>0, Zenon DEF Matches
<1>2. ASSUME NEW r \in Ranges, NEW prot \in Prots, NEW type \in Types, Insert(r, prot, type)
      PROVE  Matches(table', page')
  <2>1. /\ \A v \in PagesOf(r) : page[v] = Unmapped
        /\ table' = vma_insert(table, Entered(r, prot, type)) /\ page' = Mapped(page, r, prot, type)
    BY <1>2, Zenon DEF Insert, Step, Entered, Mapped
  <2>2. Matches(vma_insert(table, Entered(r, prot, type)), Mapped(page, r, prot, type))
    BY <1>0, <2>1, InsertMatches, Zenon
  <2> QED BY <2>1, <2>2, Zenon
<1>3. ASSUME NEW r \in Ranges, Remove(r) PROVE Matches(table', page')
  <2>1. r.n # 0
    BY RangeNumbers, Zenon
  <2>2. /\ table' = Walk(table, r, Gone)
        /\ page' = [v \in Pages |-> IF v \in PagesOf(r) THEN Unmapped ELSE page[v]]
    BY <1>3, <2>1, Zenon DEF Remove, Step, vma_remove
  <2> DEFINE qg == [v \in Pages |-> IF v \in PagesOf(r) THEN Unmapped ELSE page[v]]
  <2>3. qg \in [Pages -> [prot : Prots, type : Types] \cup {Unmapped}]
    BY <1>1, Zenon
  <2>4. \A v \in Pages : qg[v] = IF v \in PagesOf(r) THEN Unmapped ELSE page[v]
    BY Zenon
  <2>5. page' = qg
    BY <2>2, Zenon
  <2> HIDE DEF qg
  <2>6. Turned(qg, page, r, Gone)
    BY <2>3, <2>4, Zenon DEF Turned
  <2>7. Matches(Walk(table, r, Gone), qg)
    BY <1>0, <2>6, WalkMatches, Zenon
  <2> QED BY <2>2, <2>5, <2>7, Zenon
<1>4. ASSUME NEW r \in Ranges, NEW prot \in Prots, UpdateProt(r, prot) PROVE Matches(table', page')
  <2>0. prot # Gone
    <3>1. prot \in Nat
      BY VmaAssumption, Zenon
    <3> QED BY <3>1 DEF Gone
  <2>1. r.n # 0
    BY RangeNumbers, Zenon
  <2> DEFINE qg == [v \in Pages |-> IF v \in PagesOf(r) /\ page[v] # Unmapped
                                    THEN [page[v] EXCEPT !.prot = prot] ELSE page[v]]
  <2>2. table' = Walk(table, r, prot) /\ page' = qg
    BY <1>4, <2>1, Zenon DEF UpdateProt, Step, vma_update_prot
  <2>3. ASSUME NEW v \in Pages, v \in PagesOf(r), page[v] # Unmapped
        PROVE  /\ qg[v] \in [prot : Prots, type : Types]
               /\ qg[v] # Unmapped /\ qg[v].prot = prot /\ qg[v].type = page[v].type
    <3> DEFINE x == page[v]
    <3>1. qg[v] = [x EXCEPT !.prot = prot]
      BY <2>3, Zenon
    <3>2. x \in [prot : Prots, type : Types] \cup {Unmapped} /\ x # Unmapped
      BY <2>3, <1>1, Zenon
    <3> DEFINE z == qg[v]
    <3> HIDE DEF x, qg
    <3>3. x \in [prot : Prots, type : Types]
      BY <3>2, PageIs, Zenon
    <3>4. z \in [prot : Prots, type : Types] /\ z.prot = prot /\ z.type = x.type
      BY <3>1, <3>3, Zenon
    <3> HIDE DEF z
    <3>5. z \in [prot : Prots, type : Types] \cup {Unmapped} /\ z.type \in Types
      BY <3>4, Zenon
    <3>6. z # Unmapped
      BY <3>5, PageIs, Zenon
    <3> QED BY <3>4, <3>6, Zenon DEF z, x
  <2>4. \A v \in Pages : ~(v \in PagesOf(r) /\ page[v] # Unmapped) => qg[v] = page[v]
    BY Zenon
  <2>5. qg \in [Pages -> [prot : Prots, type : Types] \cup {Unmapped}]
    <3>1. \A v \in Pages : qg[v] \in [prot : Prots, type : Types] \cup {Unmapped}
      <4> HIDE DEF qg
      <4> QED BY <2>3, <2>4, <1>1, Zenon
    <3>2. qg = [v \in Pages |-> qg[v]]
      BY Zenon
    <3> HIDE DEF qg
    <3> QED BY <3>1, <3>2, Zenon
  <2> HIDE DEF qg
  <2>6. Turned(qg, page, r, prot)
    BY <2>0, <2>3, <2>4, <2>5, Zenon DEF Turned
  <2>7. Matches(Walk(table, r, prot), qg)
    BY <1>0, <2>6, WalkMatches, Zenon
  <2> QED BY <2>2, <2>7, Zenon
<1>5. CASE Clear
  <2> DEFINE t == [table EXCEPT !.n = 0]
  <2>1. table \in Tables /\ VMA_CAPACITY \in Nat
    BY <1>0, VmaAssumption, Zenon DEF TableOK
  <2>2. t \in Tables /\ t.n = 0
    BY <2>1 DEF Tables
  <2>3. table' = t /\ page' = [v \in Pages |-> Unmapped]
    BY <1>5, Zenon DEF Clear, Step, vma_clear
  <2> HIDE DEF t
  <2>4. Matches(t, [v \in Pages |-> Unmapped])
    BY <2>2, EmptyMatches, Zenon
  <2> QED BY <2>3, <2>4, Zenon
<1>6. CASE UNCHANGED vmaVars
  BY <1>0, <1>6, Zenon DEF vmaVars
<1> QED BY <1>2, <1>3, <1>4, <1>5, <1>6, Zenon DEF VmaNext

\* The invariant implies the property.
LEMMA VmaIInvShows == VmaIInv => ShowsPages
<1> SUFFICES ASSUME VmaIInv PROVE ShowsPages
  BY Zenon
<1>0. Matches(table, page) /\ TableOK(table)
  BY Zenon DEF VmaIInv, Matches
<1>1. page \in [Pages -> [prot : Prots, type : Types] \cup {Unmapped}]
  BY <1>0, Zenon DEF Matches
<1>2. VmaTypeOK
  BY <1>0, <1>1, Zenon DEF VmaTypeOK, TableOK, Tables
<1>3. Sorted
  <2>1. table.n \in Nat
    BY <1>0, TableParts, Zenon
  <2>2. \A k \in 1..table.n - 1 : k \in 1..table.n /\ k + 1 \in 1..table.n /\ k < k + 1
    BY <2>1
  <2> QED BY <2>2, <1>0, Zenon DEF Sorted, TableOK, InOrder
<1>4. ASSUME NEW e \in Entries(table), NEW v \in Pages, v \in PagesOf(e)
      PROVE  page[v] = [prot |-> e.prot, type |-> e.type]
  <2>1. Has(table, 1, table.n, v, e.prot, e.type)
    BY <1>4, Zenon DEF Entries, Has, Shows
  <2> DEFINE x == page[v]
  <2>2. x # Unmapped /\ x.prot = e.prot /\ x.type = e.type
    BY <1>0, <2>1, Zenon DEF Matches
  <2>3. x \in [prot : Prots, type : Types]
    BY <1>1, <2>2, Zenon
  <2> HIDE DEF x
  <2>4. x = [prot |-> x.prot, type |-> x.type]
    BY <2>3, Zenon
  <2> QED BY <2>2, <2>4, Zenon DEF x
<1>5. ASSUME NEW v \in Pages, page[v] # Unmapped
      PROVE  \E e \in Entries(table) : v \in PagesOf(e)
  <2>1. Has(table, 1, table.n, v, page[v].prot, page[v].type)
    BY <1>0, <1>5, Zenon DEF Matches
  <2> QED BY <2>1, Zenon DEF Has, Shows, Entries
<1> QED BY <1>2, <1>3, <1>4, <1>5, Zenon DEF ShowsPages

\* While the table has room for the two entries a call may add, or can hold
\* every page, it is sorted and shows every page of the address space with its
\* protection and type, and no other page, after any sequence of vma_insert,
\* vma_remove, vma_update_prot and vma_clear.
THEOREM VmaShowsPages == VmaSpec /\ []Room(table) => []ShowsPages
<1>1. VmaInit => VmaIInv
  BY VmaInitIInv, Zenon
<1>2. VmaIInv /\ Room(table) /\ [VmaNext]_vmaVars => VmaIInv'
  BY VmaStepIInv, Zenon
<1>3. VmaIInv => ShowsPages
  BY VmaIInvShows, Zenon
<1> QED BY <1>1, <1>2, <1>3, PTL DEF VmaSpec
=============================================================================
