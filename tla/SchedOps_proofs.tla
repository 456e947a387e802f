--------------------------- MODULE SchedOps_proofs --------------------------
(***************************************************************************)
(* What the functions of SchedOps do to a well-formed scheduler state, for *)
(* every set of tasks, and the induction the loops among them need.        *)
(***************************************************************************)
EXTENDS SchedOps, WellFoundedInduction, TLAPS

\* A non-empty set of naturals has a least element.
LEMMA NatMin ==
  ASSUME NEW T, T \subseteq Nat, T # {}
  PROVE  \E x \in T : \A y \in T : x <= y
<1>1. \E R : IsWellFoundedOn(R, Nat) /\ \A x, y \in Nat : y < x => <<y, x>> \in R
  <2>1. \A x, y \in Nat : y < x => <<y, x>> \in OpToRel(<, Nat)
    BY Zenon DEF OpToRel
  <2> QED BY <2>1, NatLessThanWellFounded, Zenon
<1>2. PICK R : IsWellFoundedOn(R, Nat) /\ \A x, y \in Nat : y < x => <<y, x>> \in R
  BY <1>1, Zenon
<1>3. \E x \in T : \A y \in T : ~(<<y, x>> \in R)
  BY <1>2, WFMin, Zenon
<1>4. PICK x \in T : \A y \in T : ~(<<y, x>> \in R)
  BY <1>3, Zenon
<1>5. ASSUME NEW y \in T PROVE x <= y
  <2>1. x \in Nat /\ y \in Nat
    BY Zenon
  <2>2. ~(y < x)
    BY <1>2, <1>4, <2>1, Zenon
  <2> QED BY <2>1, <2>2
<1> QED BY <1>5, Zenon

\* Induction over the naturals up to n, for a set in place of a predicate.
LEMMA SetInduction ==
  ASSUME NEW P, NEW n \in Nat, 0 \in P, \A i \in 0..n-1 : i \in P => i+1 \in P
  PROVE  \A i \in 0..n : i \in P
<1> DEFINE T == {i \in 0..n : i \notin P}
<1>1. SUFFICES ASSUME T # {} PROVE FALSE
  BY Zenon
<1>2. PICK x \in T : \A y \in T : x <= y
  <2>1. T \subseteq Nat
    OBVIOUS
  <2> HIDE DEF T
  <2> QED BY <1>1, <2>1, NatMin, Zenon
<1>3. x # 0 /\ x \in 1..n /\ x - 1 \in 0..n-1
  BY <1>2
<1>4. x - 1 \in P
  BY <1>2, <1>3
<1>5. x-1+1 \in P
  BY <1>3, <1>4, Zenon
<1> QED BY <1>5, <1>3

\* One unfolding of the loop WakeSteps.
WakeTurn(w, q, I, s) ==
  [n \in 0..Len(q) |-> IF n = 0 THEN s ELSE IF n \in I THEN SchedWake(w[n - 1], q[n]) ELSE w[n - 1]]

\* The loop of SchedWakeEach satisfies its recursive definition.
LEMMA WakeStepsDef ==
  ASSUME NEW s, NEW q, NEW I, Len(q) \in Nat
  PROVE  WakeSteps(s, q, I) = WakeTurn(WakeSteps(s, q, I), q, I, s)
<1> DEFINE Turn(w, m) ==
      [n \in 0..m |-> IF n = 0 THEN s ELSE IF n \in I THEN SchedWake(w[n - 1], q[n]) ELSE w[n - 1]]
    P == {m \in Nat : \E w : w = Turn(w, m)}
<1>1. 0 \in P
  <2> DEFINE w == [n \in 0..0 |-> s]
  <2>1. w = Turn(w, 0)
    OBVIOUS
  <2> QED BY <2>1, Zenon
<1>2. ASSUME NEW m \in Nat, m \in P PROVE m + 1 \in P
  <2>1. PICK w : w = Turn(w, m)
    BY <1>2, Zenon
  <2> DEFINE v == [n \in 0..m+1 |-> IF n \in 0..m THEN w[n] ELSE
                     IF n \in I THEN SchedWake(w[m], q[n]) ELSE w[m]]
  <2>2. ASSUME NEW n \in 0..m+1
        PROVE v[n] = IF n = 0 THEN s ELSE IF n \in I THEN SchedWake(v[n - 1], q[n]) ELSE v[n - 1]
    <3>1. CASE n = 0
      BY <3>1, <2>1
    <3>2. CASE n # 0 /\ n \in 0..m
      <4>1. n - 1 \in 0..m /\ v[n-1] = w[n-1] /\ v[n] = w[n]
        BY <3>2
      <4>2. w[n] = IF n \in I THEN SchedWake(w[n - 1], q[n]) ELSE w[n - 1]
        BY <2>1, <3>2, Zenon
      <4> QED BY <4>1, <4>2, <3>2, Zenon
    <3>3. CASE n = m + 1
      <4>1. v[n] = IF n \in I THEN SchedWake(w[m], q[n]) ELSE w[m]
        BY <3>3
      <4>2. n - 1 = m /\ n # 0 /\ v[m] = w[m]
        BY <3>3
      <4> QED BY <4>1, <4>2, Zenon
    <3> QED BY <3>1, <3>2, <3>3
  <2>3. v = Turn(v, m + 1)
    BY <2>2, Zenon
  <2> HIDE DEF v
  <2>4. \E u : u = Turn(u, m + 1)
    BY <2>3, Zenon
  <2> QED BY <2>4
<1>3. Len(q) \in P
  <2> HIDE DEF P
  <2>1. \A i \in 0..Len(q)-1 : i \in P => i + 1 \in P
    BY <1>2
  <2>2. \A i \in 0..Len(q) : i \in P
    BY <1>1, <2>1, SetInduction, Zenon
  <2> QED BY <2>2
<1>4. \E w : w = WakeTurn(w, q, I, s)
  BY <1>3, Zenon DEF WakeTurn
<1> QED BY <1>4, Zenon DEF WakeSteps, WakeTurn

-----------------------------------------------------------------------------
\* A scheduler state whose run list has exactly the running tasks, each once.
Queue(s, T, St) ==
  /\ s \in [st : [T -> St], rq : Seq(T), cur : T]
  /\ \A i, j \in 1..Len(s.rq) : s.rq[i] = s.rq[j] => i = j
  /\ \A t \in T : s.st[t] = "RUNNING" <=> Queued(s.rq, t)

\* w is such a state too, with task t in state x and the others as in s.
WithState(w, s, t, x, T, St) ==
  Queue(w, T, St) /\ \A u \in T : w.st[u] = IF u = t THEN x ELSE s.st[u]

\* The current task is running.
Runs(s) == s.st[s.cur] = "RUNNING"

\* sched_wake, sched_add, sched_resume.
LEMMA WakeQueue ==
  ASSUME NEW T, NEW St, "RUNNING" \in St, NEW s, Queue(s, T, St), NEW t \in T
  PROVE  WithState(SchedWake(s, t), s, t, "RUNNING", T, St) /\ SchedWake(s, t).cur = s.cur
<1> DEFINE s1 == [s EXCEPT !.st[t] = "RUNNING"]
           w == SchedWake(s, t)
<1>1. /\ s \in [st : [T -> St], rq : Seq(T), cur : T]
      /\ s1 \in [st : [T -> St], rq : Seq(T), cur : T]
      /\ s1.rq = s.rq /\ s1.cur = s.cur /\ s1.st = [s.st EXCEPT ![t] = "RUNNING"]
  BY Zenon DEF Queue
<1> HIDE DEF s1
<1>2. CASE Queued(s.rq, t)
  <2>1. w = s1
    BY <1>1, <1>2, Zenon DEF SchedWake, RunListInsert, s1
  <2> QED BY <1>1, <1>2, <2>1, Zenon DEF Queue, WithState
<1>3. CASE ~Queued(s.rq, t)
  <2>1. w = [s1 EXCEPT !.rq = Append(s.rq, t)]
    BY <1>1, <1>3, Zenon DEF SchedWake, RunListInsert, s1
  <2>2. /\ w \in [st : [T -> St], rq : Seq(T), cur : T]
        /\ w.rq = Append(s.rq, t) /\ w.cur = s.cur /\ w.st = [s.st EXCEPT ![t] = "RUNNING"]
    <3>1. Append(s.rq, t) \in Seq(T)
      BY <1>1
    <3> QED BY <1>1, <2>1, <3>1, Zenon
  <2> HIDE DEF w
  <2>3. /\ Len(w.rq) = Len(s.rq) + 1 /\ Len(s.rq) \in Nat
        /\ \A i \in 1..Len(s.rq) : w.rq[i] = s.rq[i] /\ s.rq[i] # t
        /\ w.rq[Len(s.rq) + 1] = t
    BY <1>1, <2>2, <1>3 DEF Queued
  <2>4. \A i, j \in 1..Len(w.rq) : w.rq[i] = w.rq[j] => i = j
    BY <2>3 DEF Queue
  <2>5. \A u \in T : Queued(w.rq, u) <=> Queued(s.rq, u) \/ u = t
    BY <2>3 DEF Queued
  <2>6. \A u \in T : w.st[u] = "RUNNING" <=> Queued(w.rq, u)
    BY <2>2, <2>5, <1>1, Zenon DEF Queue
  <2>7. Queue(w, T, St)
    BY <2>2, <2>4, <2>6, Zenon DEF Queue
  <2>8. \A u \in T : w.st[u] = IF u = t THEN "RUNNING" ELSE s.st[u]
    BY <1>1, <2>2, Zenon
  <2> QED BY <2>2, <2>7, <2>8, Zenon DEF w, WithState
<1> QED BY <1>2, <1>3, Zenon

\* The positions I of q name tasks.
Wakeable(q, I, T) == Len(q) \in Nat /\ \A n \in 1..Len(q) : n \in I => q[n] \in T

\* w is s with the tasks at the positions I of q running.
Woken(w, s, q, I, T, St) ==
  /\ Queue(w, T, St) /\ w.cur = s.cur
  /\ \A t \in T : w.st[t] =
       IF \E n \in 1..Len(q) : n \in I /\ q[n] = t THEN "RUNNING" ELSE s.st[t]

\* waitq_wake_all and the other loops that wake several tasks.
LEMMA WakeEachQueue ==
  ASSUME NEW T, NEW St, "RUNNING" \in St, NEW s, Queue(s, T, St), NEW q, NEW I, Wakeable(q, I, T)
  PROVE  Woken(SchedWakeEach(s, q, I), s, q, I, T, St)
<1> USE DEF Wakeable
<1> DEFINE w == WakeSteps(s, q, I)
           Good(m) == /\ Queue(w[m], T, St) /\ w[m].cur = s.cur
                      /\ \A t \in T : w[m].st[t] =
                           IF \E n \in 1..m : n \in I /\ q[n] = t THEN "RUNNING" ELSE s.st[t]
           P == {m \in 0..Len(q) : Good(m)}
<1>1. /\ w[0] = s
      /\ \A n \in 1..Len(q) : w[n] = IF n \in I THEN SchedWake(w[n - 1], q[n]) ELSE w[n - 1]
  <2>1. w = WakeTurn(w, q, I, s)
    BY WakeStepsDef, Zenon
  <2> HIDE DEF w
  <2> QED BY <2>1 DEF WakeTurn
<1> HIDE DEF w
<1>2. 0 \in P
  BY <1>1
<1>3. ASSUME NEW m \in 0..Len(q)-1, m \in P PROVE m + 1 \in P
  <2>0. m + 1 \in 1..Len(q) /\ m \in Nat /\ m + 1 - 1 = m
    OBVIOUS
  <2>1. w[m+1] = IF m + 1 \in I THEN SchedWake(w[m], q[m+1]) ELSE w[m]
    BY <1>1, <2>0
  <2>2. \A t \in T : (\E n \in 1..m+1 : n \in I /\ q[n] = t) <=>
                     (\E n \in 1..m : n \in I /\ q[n] = t) \/ (m + 1 \in I /\ q[m+1] = t)
    BY <2>0
  <2>3. Good(m)
    BY <1>3, Zenon
  <2>4. CASE m + 1 \in I
    <3>1. q[m+1] \in T
      BY <2>0, <2>4, Zenon
    <3>2. Queue(w[m], T, St) /\ w[m+1] = SchedWake(w[m], q[m+1])
      BY <2>1, <2>3, <2>4, Zenon
    <3>3. WithState(w[m+1], w[m], q[m+1], "RUNNING", T, St) /\ w[m+1].cur = w[m].cur
      BY <3>1, <3>2, WakeQueue
    <3>4. Queue(w[m+1], T, St) /\ \A t \in T : w[m+1].st[t] = IF t = q[m+1] THEN "RUNNING" ELSE w[m].st[t]
      BY <3>3, Zenon DEF WithState
    <3>5. Good(m+1)
      BY <2>2, <2>3, <2>4, <3>3, <3>4, Zenon
    <3> QED BY <2>0, <3>5
  <2>5. CASE m + 1 \notin I
    <3>1. w[m+1] = w[m]
      BY <2>1, <2>5, Zenon
    <3>2. Good(m+1)
      BY <2>2, <2>3, <2>5, <3>1, Zenon
    <3> QED BY <2>0, <3>2
  <2> QED BY <2>4, <2>5, Zenon
<1>4. Len(q) \in P
  <2> HIDE DEF P
  <2>1. \A i \in 0..Len(q) : i \in P
    BY <1>2, <1>3, SetInduction, Zenon
  <2> QED BY <2>1
<1> QED BY <1>4, Zenon DEF SchedWakeEach, Woken, w

\* What Unlinked leaves.
LEMMA UnlinkedIs ==
  ASSUME NEW T, NEW q \in Seq(T), NEW i \in 1..Len(q)
  PROVE  /\ Unlinked(q, i) \in Seq(T) /\ Len(Unlinked(q, i)) = Len(q) - 1
         /\ \A j \in 1..Len(q) - 1 : Unlinked(q, i)[j] = IF j < i THEN q[j] ELSE q[j + 1]
<1>1. \A j \in 1..Len(q) - 1 : (IF j < i THEN q[j] ELSE q[j + 1]) \in T
  OBVIOUS
<1> QED BY <1>1 DEF Unlinked

\* Removing a task from a run list.
LEMMA RemoveQueue ==
  ASSUME NEW T, NEW St, NEW s, Queue(s, T, St), NEW t \in T
  PROVE  /\ RunListRemove(s, t) \in [st : [T -> St], rq : Seq(T), cur : T]
         /\ RunListRemove(s, t).st = s.st /\ RunListRemove(s, t).cur = s.cur
         /\ \A i, j \in 1..Len(RunListRemove(s, t).rq) :
              RunListRemove(s, t).rq[i] = RunListRemove(s, t).rq[j] => i = j
         /\ \A u \in T : Queued(RunListRemove(s, t).rq, u) <=> Queued(s.rq, u) /\ u # t
<1>1. CASE ~Queued(s.rq, t)
  BY <1>1, Zenon DEF RunListRemove, Queue, Queued
<1>2. CASE Queued(s.rq, t)
  <2> DEFINE i == RunListIndex(s, t)
             q == s.rq
             r == Unlinked(q, i)
             w == RunListRemove(s, t)
  <2>1. i \in 1..Len(q) /\ q[i] = t
    BY <1>2, Zenon DEF Queued, RunListIndex
  <2>2. s \in [st : [T -> St], rq : Seq(T), cur : T] /\ q \in Seq(T)
        /\ Len(q) \in Nat /\ \A j, k \in 1..Len(q) : q[j] = q[k] => j = k
    BY DEF Queue
  <2>3. w = [s EXCEPT !.rq = r]
    BY <1>2, <2>2, Zenon DEF RunListRemove
  <2> HIDE DEF i, q, w
  <2>4. /\ r \in Seq(T) /\ Len(r) = Len(q) - 1
        /\ \A j \in 1..Len(q) - 1 : r[j] = IF j < i THEN q[j] ELSE q[j + 1]
    BY <2>1, <2>2, UnlinkedIs, Zenon
  <2> HIDE DEF r
  <2>5. /\ w \in [st : [T -> St], rq : Seq(T), cur : T]
        /\ w.st = s.st /\ w.cur = s.cur /\ w.rq = r
    BY <2>2, <2>3, <2>4, Zenon
  <2>6. ASSUME NEW j \in 1..Len(r), NEW k \in 1..Len(r), r[j] = r[k] PROVE j = k
    <3> DEFINE at(n) == IF n < i THEN n ELSE n + 1
    <3>1. \A n \in 1..Len(r) : n \in 1..Len(q) - 1 /\ at(n) \in 1..Len(q) /\ r[n] = q[at(n)]
      BY <2>1, <2>2, <2>4
    <3>2. at(j) = at(k)
      <4> HIDE DEF at
      <4> QED BY <2>2, <2>6, <3>1, Zenon
    <3>3. i \in Int /\ j \in Int /\ k \in Int
      BY <2>1, <2>2, <2>4
    <3> QED BY <3>2, <3>3
  <2>7. \A u \in T : Queued(r, u) <=> Queued(q, u) /\ u # t
    <3> SUFFICES ASSUME NEW u \in T PROVE Queued(r, u) <=> Queued(q, u) /\ u # t
      BY Zenon
    <3>1. ASSUME NEW j \in 1..Len(r), r[j] = u PROVE Queued(q, u) /\ u # t
      BY <3>1, <2>1, <2>2, <2>4 DEF Queued
    <3>2. ASSUME NEW j \in 1..Len(q), q[j] = u, u # t PROVE Queued(r, u)
      <4>1. CASE j < i
        BY <4>1, <3>2, <2>1, <2>2, <2>4 DEF Queued
      <4>2. CASE j > i
        <5>1. j - 1 \in 1..Len(r) /\ r[j - 1] = q[j]
          BY <4>2, <2>1, <2>2, <2>4
        <5> QED BY <5>1, <3>2, Zenon DEF Queued
      <4> QED BY <4>1, <4>2, <3>2, <2>1, <2>2
    <3> QED BY <3>1, <3>2, Zenon DEF Queued
  <2> QED BY <2>5, <2>6, <2>7, Zenon DEF w, q
<1> QED BY <1>1, <1>2, Zenon

\* The successor of t in a run list that has another task is a running task
\* other than t.
LEMMA AfterRuns ==
  ASSUME NEW T, NEW St, NEW s, Queue(s, T, St), NEW idle \in T, s.st[idle] = "RUNNING", NEW t \in T
  PROVE  /\ RunListAfter(s, t) \in T
         /\ s.st[RunListAfter(s, t)] = "RUNNING"
         /\ t # idle => RunListAfter(s, t) # t
<1> DEFINE q == s.rq
<1>1. /\ q \in Seq(T) /\ Len(q) \in Nat /\ \A j, k \in 1..Len(q) : q[j] = q[k] => j = k
      /\ \A u \in T : s.st[u] = "RUNNING" <=> \E j \in 1..Len(q) : q[j] = u
  BY DEF Queue, Queued
<1>2. PICK k \in 1..Len(q) : q[k] = idle
  BY <1>1, Zenon
<1>3. CASE Queued(q, t)
  <2> DEFINE i == RunListIndex(s, t)
             m == i % Len(q)
  <2>1. i \in 1..Len(q) /\ q[i] = t
    BY <1>3, Zenon DEF Queued, RunListIndex
  <2>2. RunListAfter(s, t) = q[m + 1]
    BY <1>3, Zenon DEF RunListAfter
  <2> HIDE DEF i, q
  <2>3. m = IF i = Len(q) THEN 0 ELSE i
    <3>1. /\ Len(q) \in Nat \ {0} /\ i \in Nat
          /\ i < 2 * Len(q) /\ (i < Len(q) <=> i # Len(q)) /\ Len(q) - Len(q) = 0
      BY <1>1, <2>1
    <3> QED BY <3>1
  <2> HIDE DEF m
  <2>4. m + 1 \in 1..Len(q)
    BY <1>1, <2>1, <2>3
  <2>5. t # idle => m + 1 # i
    BY <1>1, <1>2, <2>1, <2>3
  <2> QED BY <1>1, <2>1, <2>2, <2>4, <2>5
<1>4. CASE ~Queued(q, t)
  <2>1. RunListAfter(s, t) = q[1] /\ 1 \in 1..Len(q)
    BY <1>1, <1>2, <1>4 DEF RunListAfter
  <2> QED BY <1>1, <1>4, <2>1 DEF Queued
<1> QED BY <1>3, <1>4, Zenon

\* sched_block and sched_stop: the current task leaves, another one runs.
LEMMA LeaveQueue ==
  ASSUME NEW T, NEW St, NEW s, Queue(s, T, St), NEW idle \in T, s.st[idle] = "RUNNING",
         s.cur # idle, NEW x \in St, x # "RUNNING"
  PROVE  WithState(SchedLeave(s, x), s, s.cur, x, T, St) /\ Runs(SchedLeave(s, x))
<1> DEFINE r == RunListRemove(s, s.cur)
           a == RunListAfter(s, s.cur)
           w == SchedLeave(s, x)
<1>0. s \in [st : [T -> St], rq : Seq(T), cur : T] /\ s.cur \in T
  BY Zenon DEF Queue
<1>1. /\ r \in [st : [T -> St], rq : Seq(T), cur : T]
      /\ r.st = s.st /\ r.cur = s.cur
      /\ \A i, j \in 1..Len(r.rq) : r.rq[i] = r.rq[j] => i = j
      /\ \A u \in T : Queued(r.rq, u) <=> Queued(s.rq, u) /\ u # s.cur
  BY <1>0, RemoveQueue
<1>2. a \in T /\ s.st[a] = "RUNNING" /\ a # s.cur
  BY <1>0, AfterRuns
<1>3. w = [r EXCEPT !.st[s.cur] = x, !.cur = a]
  BY Zenon DEF SchedLeave
<1> HIDE DEF r, a, w
<1>4. /\ w \in [st : [T -> St], rq : Seq(T), cur : T]
      /\ w.st = [s.st EXCEPT ![s.cur] = x] /\ w.cur = a /\ w.rq = r.rq
  BY <1>0, <1>1, <1>2, <1>3, Zenon
<1>5. \A u \in T : w.st[u] = "RUNNING" <=> Queued(w.rq, u)
  BY <1>0, <1>1, <1>4, Zenon DEF Queue
<1>6. Queue(w, T, St)
  BY <1>1, <1>4, <1>5, Zenon DEF Queue
<1>7. w.st[w.cur] = "RUNNING"
  BY <1>0, <1>2, <1>4, Zenon
<1>8. \A u \in T : w.st[u] = IF u = s.cur THEN x ELSE s.st[u]
  BY <1>0, <1>4, Zenon
<1> QED BY <1>6, <1>7, <1>8, Zenon DEF w, WithState, Runs

\* The first half of sched_exit: the current task is a zombie and unlinked.
LEMMA ZombieQueue ==
  ASSUME NEW T, NEW St, NEW s, Queue(s, T, St), "ZOMBIE" \in St
  PROVE  WithState(SchedZombie(s), s, s.cur, "ZOMBIE", T, St) /\ SchedZombie(s).cur = s.cur
<1> DEFINE r == RunListRemove(s, s.cur)
           w == SchedZombie(s)
<1>0. s \in [st : [T -> St], rq : Seq(T), cur : T] /\ s.cur \in T
  BY Zenon DEF Queue
<1>1. /\ r \in [st : [T -> St], rq : Seq(T), cur : T]
      /\ r.st = s.st /\ r.cur = s.cur
      /\ \A i, j \in 1..Len(r.rq) : r.rq[i] = r.rq[j] => i = j
      /\ \A u \in T : Queued(r.rq, u) <=> Queued(s.rq, u) /\ u # s.cur
  BY <1>0, RemoveQueue
<1>2. w = [r EXCEPT !.st[s.cur] = "ZOMBIE"]
  BY Zenon DEF SchedZombie
<1> HIDE DEF r, w
<1>3. /\ w \in [st : [T -> St], rq : Seq(T), cur : T]
      /\ w.st = [s.st EXCEPT ![s.cur] = "ZOMBIE"] /\ w.cur = s.cur /\ w.rq = r.rq
  BY <1>0, <1>1, <1>2, Zenon
<1>4. \A u \in T : w.st[u] = "RUNNING" <=> Queued(w.rq, u)
  BY <1>0, <1>1, <1>3, Zenon DEF Queue
<1>5. Queue(w, T, St)
  BY <1>1, <1>3, <1>4, Zenon DEF Queue
<1>6. \A u \in T : w.st[u] = IF u = s.cur THEN "ZOMBIE" ELSE s.st[u]
  BY <1>0, <1>3, Zenon
<1> QED BY <1>3, <1>5, <1>6, Zenon DEF w, WithState

\* w is s with another task on the CPU.
Switched(w, s, T, St) == Queue(w, T, St) /\ w.st = s.st

\* Switching to a task leaves the run list and the states alone.
LEMMA SwitchQueue ==
  ASSUME NEW T, NEW St, NEW s, Queue(s, T, St), NEW t \in T
  PROVE  Switched(SchedSwitch(s, t), s, T, St) /\ SchedSwitch(s, t).cur = t
<1>1. s \in [st : [T -> St], rq : Seq(T), cur : T]
  BY Zenon DEF Queue
<1>2. /\ SchedSwitch(s, t) \in [st : [T -> St], rq : Seq(T), cur : T]
      /\ SchedSwitch(s, t).st = s.st /\ SchedSwitch(s, t).cur = t /\ SchedSwitch(s, t).rq = s.rq
  BY <1>1, Zenon DEF SchedSwitch
<1> QED BY <1>2, Zenon DEF Queue, Switched

\* The round-robin choice is a running task.
LEMMA PreemptQueue ==
  ASSUME NEW T, NEW St, NEW s, Queue(s, T, St), NEW idle \in T, s.st[idle] = "RUNNING"
  PROVE  Switched(SchedPreempt(s), s, T, St) /\ Runs(SchedPreempt(s))
<1>1. s.cur \in T
  BY Zenon DEF Queue
<1> DEFINE a == RunListAfter(s, s.cur)
<1>2. a \in T /\ s.st[a] = "RUNNING"
  BY <1>1, AfterRuns
<1> HIDE DEF a
<1>3. Switched(SchedSwitch(s, a), s, T, St) /\ SchedSwitch(s, a).cur = a
  BY <1>2, SwitchQueue
<1> QED BY <1>2, <1>3, Zenon DEF SchedPreempt, a, Switched, Runs

\* sched_yield_to_next chooses a running task too.
LEMMA YieldQueue ==
  ASSUME NEW T, NEW St, NEW s, Queue(s, T, St), NEW idle \in T, s.st[idle] = "RUNNING"
  PROVE  Switched(SchedYieldToNext(s), s, T, St) /\ Runs(SchedYieldToNext(s))
<1>1. SchedYieldToNext(s) = SchedPreempt(s)
  BY Zenon DEF SchedYieldToNext, SchedPreempt
<1> QED BY <1>1, PreemptQueue, Zenon
=============================================================================
