---------------------------- MODULE Futex_proofs ----------------------------
(***************************************************************************)
(* Proofs about Futex, for any threads, words, pool size and workloads:    *)
(* the pool holds exactly the sleepers, no waiter is forgotten, and no     *)
(* sleep ends early.                                                       *)
(***************************************************************************)
EXTENDS Futex, SchedOps_proofs, FiniteSetTheorems, TLAPS

States == {"RUNNING", "BLOCKED", "ZOMBIE"}
Waits(t) == s.st[t] = "BLOCKED" /\ pc[t] = "wait"

\* The scheduler and the types of the variables.
FTypes ==
  /\ Queue(s, Task, States) /\ s.st[Idle] = "RUNNING" /\ s.st[s.cur] = "RUNNING"
  /\ load \in Loads
  /\ pc \in [Thread -> {"user", "wake", "wait", "sleep", "dead"}]
  /\ at \in [Thread -> Addr \cup {NULL}] /\ expected \in [Thread -> 0..1]
  /\ word \in [Addr -> 0..1]
  /\ s_pool \in [Slot -> [in_use : BOOLEAN, task : Thread \cup {NULL}, addr : Addr \cup {NULL}]]
  /\ deadline \in [Thread -> NotSleeping..MaxSleep]

\* What the fields of a thread and of a slot in use hold.
FFields ==
  /\ \A t \in Thread : s.st[t] = "BLOCKED" => pc[t] \in {"wait", "sleep"}
  /\ \A t \in Thread : pc[t] \in {"wait", "wake"} => at[t] \in Addr
  /\ \A i \in Slot : s_pool[i].in_use => s_pool[i].task \in Thread /\ s_pool[i].addr \in Addr

\* Every waiter has a slot, and only the joiner waits for a thread's end.
FSlots ==
  /\ \A t \in Thread : Waits(t) =>
       \E i \in Slot : s_pool[i].in_use /\ s_pool[i].task = t /\ s_pool[i].addr = at[t]
  /\ \A i \in Slot, u \in Thread :
       s_pool[i].in_use /\ s_pool[i].addr = Tid(u) => s_pool[i].task = Joiner

\* Without signals slots and deadlines end with the sleep they are for.
FQuiet ==
  ~Signals =>
    /\ \A i \in Slot : s_pool[i].in_use =>
         Waits(s_pool[i].task) /\ at[s_pool[i].task] = s_pool[i].addr
    /\ \A i, j \in Slot : s_pool[i].in_use /\ s_pool[j].in_use /\ s_pool[i].task = s_pool[j].task => i = j
    /\ \A t \in Thread : deadline[t] # NotSleeping => s.st[t] = "BLOCKED" /\ pc[t] = "sleep"

FInv == FTypes /\ FFields /\ FSlots /\ FQuiet /\ NobodyForgotten

-----------------------------------------------------------------------------
\* futex_wake_addr with a count that no pool exhausts takes every match.
LEMMA TakenAll ==
  ASSUME NEW a
  PROVE  Taken(a, ALL) = Matching(a)
<1> SUFFICES ASSUME NEW i \in Matching(a)
             PROVE  Cardinality({j \in Matching(a) : j < i}) < ALL
  BY Zenon DEF Taken
<1> DEFINE B == {j \in Matching(a) : j < i}
<1>1. i \in 1..ALL /\ ALL \in Nat /\ i - 1 \in Int
  BY FutexAssumption DEF Matching, Slot, ALL
<1>2. B \in SUBSET (1..i - 1)
  BY <1>1 DEF Matching, Slot
<1>3. IsFiniteSet(1..i - 1) /\ Cardinality(1..i - 1) = i - 1
  BY <1>1, FS_Interval
<1> HIDE DEF B
<1>4. Cardinality(B) <= i - 1 /\ Cardinality(B) \in Nat
  BY <1>2, <1>3, FS_Subset, FS_CardinalityType, Zenon
<1>5. Cardinality(B) < ALL
  BY <1>1, <1>4
<1> QED BY <1>5, Zenon DEF B

\* With count one it takes a match when there is any.
LEMMA TakenOne ==
  ASSUME NEW a, Matching(a) # {}
  PROVE  Taken(a, 1) # {}
<1>1. Matching(a) \subseteq Nat
  BY DEF Matching, Slot
<1>2. PICK i \in Matching(a) : \A j \in Matching(a) : i <= j
  BY <1>1, NatMin, Zenon
<1>3. {j \in Matching(a) : j < i} = {}
  BY <1>1, <1>2
<1>4. Cardinality({j \in Matching(a) : j < i}) = 0
  BY <1>3, FS_EmptySet, Zenon
<1> QED BY <1>4 DEF Taken

\* futex_wake_addr makes the tasks of the slots it takes run, and no other.
LEMMA WakeAddrDoes ==
  ASSUME FTypes, FFields, NEW a, NEW n
  PROVE  /\ Queue(FutexWakeAddr(s, a, n), Task, States)
         /\ FutexWakeAddr(s, a, n).cur = s.cur
         /\ \A t \in Task : FutexWakeAddr(s, a, n).st[t] =
              IF \E i \in Taken(a, n) : s_pool[i].task = t THEN "RUNNING" ELSE s.st[t]
<1> DEFINE q == [i \in Slot |-> s_pool[i].task]
<1>1. Len(q) = FUTEX_MAX_WAIT /\ Len(q) \in Nat
  BY FutexAssumption DEF Slot
<1>2. \A i \in 1..Len(q) : q[i] = s_pool[i].task
  BY <1>1, Zenon DEF Slot
<1>3. \A i \in Taken(a, n) : i \in 1..Len(q) /\ s_pool[i].in_use
  BY <1>1, Zenon DEF Taken, Matching, Slot
<1>4. \A i \in 1..Len(q) : i \in Taken(a, n) => q[i] \in Task
  BY <1>1, <1>2, <1>3, Zenon DEF FFields, Task, Slot
<1>5. FutexWakeAddr(s, a, n) = SchedWakeEach(s, q, Taken(a, n))
  BY Zenon DEF FutexWakeAddr
<1> HIDE DEF q
<1>6. Queue(s, Task, States) /\ "RUNNING" \in States
  BY Zenon DEF FTypes, States
<1>7. Woken(SchedWakeEach(s, q, Taken(a, n)), s, q, Taken(a, n), Task, States)
  <2>1. Wakeable(q, Taken(a, n), Task)
    BY <1>1, <1>4, Zenon DEF Wakeable
  <2> QED BY <1>6, <2>1, WakeEachQueue, Zenon
<1>8. \A t \in Task : (\E i \in 1..Len(q) : i \in Taken(a, n) /\ q[i] = t)
                       <=> (\E i \in Taken(a, n) : s_pool[i].task = t)
  BY <1>2, <1>3, Zenon
<1> QED BY <1>5, <1>7, <1>8, Zenon DEF Woken

\* Every thread is in the list of tasks once.
LEMMA TaskListIs ==
  /\ TaskList \in Seq(Thread) /\ Len(TaskList) \in Nat
  /\ \A i, j \in 1..Len(TaskList) : TaskList[i] = TaskList[j] => i = j
  /\ \A x \in Thread : \E i \in 1..Len(TaskList) : TaskList[i] = x
<1> DEFINE n == Cardinality(Thread)
           f == TaskList
<1>1. n \in Nat /\ ExistsBijection(1..n, Thread)
  BY FutexAssumption, FS_CardinalityType, Zenon
<1>2. \E g \in [1..n -> Thread] : \A i, j \in 1..n : g[i] = g[j] => i = j
  BY <1>1, Zenon DEF ExistsBijection, Bijection, Injection, IsInjective
<1>3. f \in [1..n -> Thread] /\ \A i, j \in 1..n : f[i] = f[j] => i = j
  BY <1>2, Zenon DEF TaskList
<1> HIDE DEF f
<1>4. f \in Seq(Thread) /\ Len(f) = n
  BY <1>1, <1>3
<1>5. f \in Injection(1..n, Thread)
  BY <1>3, Zenon DEF IsInjective, Injection
<1>6. IsFiniteSet(1..n) /\ Cardinality(1..n) = n
  BY <1>1, FS_Interval
<1>7. f \in Surjection(1..n, Thread)
  BY <1>5, <1>6, FutexAssumption, FS_Injection, Zenon
<1>8. \A x \in Thread : \E i \in 1..n : f[i] = x
  BY <1>7, Zenon DEF Surjection
<1> QED BY <1>1, <1>3, <1>4, <1>8, Zenon DEF f

\* The loop of sched_tick makes the threads that are due run, and no other.
LEMMA WakeDueDoes ==
  ASSUME FTypes, NEW due \in SUBSET Thread
  PROVE  /\ Queue(WakeDue(due), Task, States)
         /\ WakeDue(due).cur = s.cur
         /\ \A t \in Task : WakeDue(due).st[t] = IF t \in due THEN "RUNNING" ELSE s.st[t]
<1> DEFINE q == TaskList
           I == {i \in 1..Len(q) : q[i] \in due}
<1>1. /\ q \in Seq(Thread) /\ Len(q) \in Nat
      /\ \A x \in Thread : \E i \in 1..Len(q) : q[i] = x
  BY TaskListIs, Zenon
<1>2. WakeDue(due) = SchedWakeEach(s, q, I)
  BY Zenon DEF WakeDue
<1> HIDE DEF q
<1>3. \A n \in 1..Len(q) : n \in I => q[n] \in Task
  BY Zenon DEF Task
<1>4. \A t \in Task : (\E n \in 1..Len(q) : n \in I /\ q[n] = t) <=> t \in due
  BY <1>1, Zenon
<1> HIDE DEF I
<1>5. Queue(s, Task, States) /\ "RUNNING" \in States
  BY Zenon DEF FTypes, States
<1>6. Woken(SchedWakeEach(s, q, I), s, q, I, Task, States)
  <2>1. Wakeable(q, I, Task)
    BY <1>1, <1>3, Zenon DEF Wakeable
  <2> QED BY <1>5, <2>1, WakeEachQueue, Zenon
<1> QED BY <1>2, <1>4, <1>6, Zenon DEF Woken

-----------------------------------------------------------------------------
\* The state in which the threads start satisfies the invariant.
LEMMA InitInv == Init => FInv
<1> SUFFICES ASSUME Init PROVE FInv
  BY Zenon
<1> DEFINE q == TaskList
           r == <<Idle>> \o q
<1>1. /\ q \in Seq(Thread) /\ Len(q) \in Nat
      /\ \A i, j \in 1..Len(q) : q[i] = q[j] => i = j
      /\ \A x \in Thread : \E i \in 1..Len(q) : q[i] = x
  BY TaskListIs, Zenon
<1>2. s = [st |-> [t \in Task |-> "RUNNING"], rq |-> r, cur |-> Idle]
  BY Zenon DEF Init
<1> HIDE DEF q
<1>3. /\ q \in Seq(Task) /\ <<Idle>> \in Seq(Task) /\ Len(<<Idle>>) = 1 /\ <<Idle>>[1] = Idle
  BY <1>1 DEF Task
<1>4. /\ r \in Seq(Task) /\ Len(r) = Len(q) + 1
      /\ \A i \in 1..Len(q) + 1 : r[i] = IF i = 1 THEN Idle ELSE q[i - 1]
  <2>1. /\ r \in Seq(Task) /\ Len(r) = 1 + Len(q)
        /\ \A i \in 1..1 + Len(q) : r[i] = IF i <= 1 THEN <<Idle>>[i] ELSE q[i - 1]
    BY <1>3
  <2> QED BY <2>1, <1>1, <1>3
<1> HIDE DEF r
<1>5. \A i, j \in 1..Len(r) : r[i] = r[j] => i = j
  <2>1. \A i \in 1..Len(q) : q[i] \in Thread /\ q[i] # Idle
    BY <1>1, FutexAssumption
  <2>2. ASSUME NEW i \in 1..Len(r), NEW j \in 1..Len(r), r[i] = r[j] PROVE i = j
    <3>1. CASE i = 1 \/ j = 1
      <4>1. \A k \in 1..Len(r) : k # 1 => k - 1 \in 1..Len(q) /\ r[k] = q[k - 1]
        BY <1>1, <1>4
      <4>2. r[1] = Idle
        BY <1>1, <1>4
      <4> QED BY <2>1, <2>2, <3>1, <4>1, <4>2, Zenon
    <3>2. CASE i # 1 /\ j # 1
      <4>1. /\ i - 1 \in 1..Len(q) /\ j - 1 \in 1..Len(q)
            /\ r[i] = q[i - 1] /\ r[j] = q[j - 1]
        BY <1>1, <1>4, <3>2
      <4>2. i - 1 = j - 1
        BY <1>1, <2>2, <4>1, Zenon
      <4> QED BY <4>1, <4>2
    <3> QED BY <3>1, <3>2, Zenon
  <2> QED BY <2>2, Zenon
<1>6. \A t \in Task : Queued(r, t)
  <2>1. Queued(r, Idle)
    BY <1>1, <1>4 DEF Queued
  <2>2. ASSUME NEW t \in Thread PROVE Queued(r, t)
    <3>1. PICK i \in 1..Len(q) : q[i] = t
      BY <1>1, Zenon
    <3>2. i + 1 \in 1..Len(r) /\ r[i + 1] = t
      <4>1. i + 1 \in 1..Len(q) + 1 /\ i + 1 # 1 /\ (i + 1) - 1 = i
        BY <1>1
      <4> QED BY <1>4, <3>1, <4>1, Zenon
    <3> QED BY <3>2, Zenon DEF Queued
  <2> QED BY <2>1, <2>2, Zenon DEF Task
<1>7. Queue(s, Task, States) /\ s.st[Idle] = "RUNNING" /\ s.st[s.cur] = "RUNNING"
  BY <1>2, <1>4, <1>5, <1>6, Zenon DEF Queue, Task, States
<1>8. \A t \in Thread : s.st[t] = "RUNNING"
  BY <1>2, Zenon DEF Task
<1>9. \A i \in Slot : s_pool[i] = FreeSlot /\ ~s_pool[i].in_use
  BY Zenon DEF Init, FreeSlot
<1>10. FTypes
  BY <1>7, FutexAssumption DEF FTypes, Init, FreeSlot, NotSleeping
<1>11. FFields /\ FSlots /\ FQuiet /\ NobodyForgotten
  BY <1>8, <1>9, Zenon DEF FFields, FSlots, FQuiet, NobodyForgotten, Waits, Init
<1> QED BY <1>10, <1>11, Zenon DEF FInv

\* A user store makes its thread owe a FUTEX_WAKE to those who wait.
LEMMA StoreInv ==
  ASSUME FInv, UNCHANGED load, NEW t \in Thread, NEW a \in Words, NEW v \in 0..1, Store(t, a, v)
  PROVE  FInv'
<1> USE DEF FInv, Store, InUser
<1>0. a \in Addr
  BY Zenon DEF Addr
<1>1. FTypes'
  BY <1>0, Zenon DEF FTypes
<1>2. FFields'
  BY <1>0, Zenon DEF FFields, FTypes
<1>3. FSlots'
  BY DEF FSlots, FTypes, Waits
<1>4. FQuiet'
  BY DEF FQuiet, FTypes, Waits, Signals
<1>5. NobodyForgotten'
  BY <1>0 DEF NobodyForgotten, FTypes
<1> QED BY <1>1, <1>2, <1>3, <1>4, <1>5, Zenon

\* FUTEX_WAKE: everyone who waits on the word runs, and gives up the slot.
LEMMA WakeInv ==
  ASSUME FInv, UNCHANGED load, NEW t \in Thread, Wake(t)
  PROVE  FInv'
<1> USE DEF FInv
<1> DEFINE a == at[t]
<1>0. /\ s.cur = t /\ pc[t] = "wake" /\ a \in Addr
      /\ s' = FutexWakeAddr(s, a, ALL) /\ s_pool' = FreePool(a, ALL)
      /\ pc' = [pc EXCEPT ![t] = "user"] /\ at' = [at EXCEPT ![t] = NULL]
      /\ UNCHANGED <<expected, word, deadline, load>>
  BY Zenon DEF Wake, FFields
<1> HIDE DEF a
<1>1. /\ Queue(s', Task, States) /\ s'.cur = s.cur
      /\ \A u \in Task : s'.st[u] =
           IF \E i \in Matching(a) : s_pool[i].task = u THEN "RUNNING" ELSE s.st[u]
  BY <1>0, WakeAddrDoes, TakenAll
<1>2. \A i \in Slot : s_pool'[i] = IF i \in Matching(a) THEN FreeSlot ELSE s_pool[i]
  BY <1>0, TakenAll DEF FreePool
<1>3. FTypes'
  <2>1. s'.st[Idle] = "RUNNING" /\ s'.st[s'.cur] = "RUNNING"
    BY <1>1, <1>0, Zenon DEF FTypes, Task
  <2>2. s_pool' \in [Slot -> [in_use : BOOLEAN, task : Thread \cup {NULL}, addr : Addr \cup {NULL}]]
    BY <1>0, Zenon DEF FTypes, FreePool, FreeSlot
  <2> QED BY <1>0, <1>1, <2>1, <2>2, Zenon DEF FTypes
<1>4. \A i \in Slot : s_pool'[i].in_use => s_pool'[i] = s_pool[i] /\ i \notin Matching(a)
  BY <1>2 DEF FreeSlot
<1>5. ASSUME NEW u \in Thread, s'.st[u] = "BLOCKED"
      PROVE  s.st[u] = "BLOCKED" /\ \A i \in Matching(a) : s_pool[i].task # u
  BY <1>1, <1>5, Zenon DEF Task
<1>6. FFields'
  <2>1. \A u \in Thread : s'.st[u] = "BLOCKED" => pc'[u] \in {"wait", "sleep"}
    BY <1>0, <1>5, Zenon DEF FFields, FTypes
  <2> QED BY <1>0, <1>4, <2>1, Zenon DEF FFields, FTypes
<1>7. ASSUME NEW u \in Thread, Waits(u)'
      PROVE  Waits(u) /\ at'[u] = at[u] /\ at[u] # a /\ u # t
  <2>1. Waits(u) /\ at'[u] = at[u] /\ u # t /\ \A i \in Matching(a) : s_pool[i].task # u
    BY <1>0, <1>5, <1>7, Zenon DEF Waits, FTypes
  <2>2. PICK i \in Slot : s_pool[i].in_use /\ s_pool[i].task = u /\ s_pool[i].addr = at[u]
    BY <2>1, Zenon DEF FSlots
  <2> QED BY <2>1, <2>2, Zenon DEF Matching
<1>8. FSlots'
  <2>1. ASSUME NEW u \in Thread, Waits(u)'
        PROVE  \E i \in Slot : s_pool'[i].in_use /\ s_pool'[i].task = u /\ s_pool'[i].addr = at'[u]
    <3>1. Waits(u) /\ at'[u] = at[u] /\ at[u] # a
      BY <2>1, <1>7, Zenon
    <3>2. PICK i \in Slot : s_pool[i].in_use /\ s_pool[i].task = u /\ s_pool[i].addr = at[u]
      BY <3>1, Zenon DEF FSlots
    <3>3. s_pool'[i] = s_pool[i]
      BY <1>2, <3>1, <3>2, Zenon DEF Matching
    <3> QED BY <3>1, <3>2, <3>3, Zenon
  <2> QED BY <1>4, <2>1 DEF FSlots
<1>9. FQuiet'
  <2> SUFFICES ASSUME ~Signals PROVE FQuiet'
    BY <1>0, Zenon DEF FQuiet, Signals
  <2>1. ASSUME NEW i \in Slot, s_pool'[i].in_use
        PROVE  (Waits(s_pool[i].task) /\ at[s_pool[i].task] = s_pool[i].addr)'
    <3> DEFINE u == s_pool[i].task
    <3>1. /\ s_pool'[i] = s_pool[i] /\ i \notin Matching(a) /\ s_pool[i].in_use
          /\ u \in Thread /\ Waits(u) /\ at[u] = s_pool[i].addr /\ u # t
      BY <2>1, <1>4, <1>0, Zenon DEF FQuiet, FFields, Waits
    <3>2. \A j \in Matching(a) : s_pool[j].task # u
      BY <3>1, Zenon DEF FQuiet, Matching
    <3>3. s'.st[u] = s.st[u] /\ pc'[u] = pc[u] /\ at'[u] = at[u]
      BY <3>1, <3>2, <1>0, <1>1 DEF Task, FTypes
    <3> QED BY <3>1, <3>3, Zenon DEF Waits
  <2>2. \A i, j \in Slot :
          s_pool'[i].in_use /\ s_pool'[j].in_use /\ s_pool'[i].task = s_pool'[j].task => i = j
    BY <1>4, Zenon DEF FQuiet
  <2>3. ASSUME NEW u \in Thread, deadline'[u] # NotSleeping
        PROVE  s'.st[u] = "BLOCKED" /\ pc'[u] = "sleep"
    <3>1. s.st[u] = "BLOCKED" /\ pc[u] = "sleep" /\ u # t
      BY <2>3, <1>0, Zenon DEF FQuiet
    <3>2. \A j \in Matching(a) : s_pool[j].task # u
      BY <3>1, Zenon DEF FQuiet, Matching, Waits
    <3> QED BY <3>1, <3>2, <1>0, <1>1, Zenon DEF Task, FTypes
  <2> QED BY <2>1, <2>2, <2>3, Zenon DEF FQuiet
<1>10. NobodyForgotten'
  <2> SUFFICES ASSUME NEW u \in Thread, Waits(u)', word'[at'[u]] # expected'[u]
               PROVE  \E x \in Thread : pc'[x] = "wake" /\ at'[x] = at'[u]
    BY Zenon DEF NobodyForgotten, Waits
  <2>1. Waits(u) /\ at'[u] = at[u] /\ at[u] # a /\ word[at[u]] # expected[u]
    BY <1>0, <1>7, Zenon
  <2>2. PICK x \in Thread : pc[x] = "wake" /\ at[x] = at[u]
    BY <2>1, Zenon DEF NobodyForgotten, Waits
  <2>3. x # t
    BY <2>1, <2>2, Zenon DEF a
  <2> QED BY <1>0, <2>1, <2>2, <2>3, Zenon DEF FTypes
<1> QED BY <1>3, <1>6, <1>8, <1>9, <1>10, Zenon

\* The current thread blocks, and a thread that runs takes over.
LEMMA BlockDoes ==
  ASSUME FTypes, NEW t \in Thread, s.cur = t
  PROVE  /\ Queue(SchedBlock(s), Task, States)
         /\ SchedBlock(s).st[SchedBlock(s).cur] = "RUNNING"
         /\ \A u \in Task : SchedBlock(s).st[u] = IF u = t THEN "BLOCKED" ELSE s.st[u]
<1>1. /\ Queue(s, Task, States) /\ s.st[Idle] = "RUNNING" /\ Idle \in Task
      /\ s.cur # Idle /\ "BLOCKED" \in States /\ s.st \in [Task -> States]
  BY FutexAssumption, Zenon DEF FTypes, Task, States, Queue
<1> DEFINE x == "BLOCKED"
<1>2. x \in States /\ x # "RUNNING"
  BY <1>1, Zenon
<1> HIDE DEF x
<1>3. WithState(SchedLeave(s, x), s, s.cur, x, Task, States) /\ Runs(SchedLeave(s, x))
  BY <1>1, <1>2, LeaveQueue, Zenon
<1> QED BY <1>1, <1>3, Zenon DEF SchedBlock, x, WithState, Runs

\* FUTEX_WAIT on a word that still has the value: a free slot is taken.
LEMMA WaitInv ==
  ASSUME FInv, UNCHANGED load, NEW t \in Thread, NEW a \in Addr, NEW v \in 0..1, Wait(t, a, v)
  PROVE  FInv'
<1> USE DEF FInv
<1> DEFINE Free(j) == ~s_pool[j].in_use /\ \A k \in 1..j - 1 : s_pool[k].in_use
           i == CHOOSE j \in Slot : Free(j)
           new == [in_use |-> TRUE, task |-> t, addr |-> a]
<1>0. /\ s.cur = t /\ pc[t] = "user" /\ MayWait(t, a) /\ word[a] = v
      /\ \E j \in Slot : ~s_pool[j].in_use
      /\ s_pool' = [s_pool EXCEPT ![i] = new]
      /\ pc' = [pc EXCEPT ![t] = "wait"] /\ at' = [at EXCEPT ![t] = a]
      /\ expected' = [expected EXCEPT ![t] = v]
      /\ s' = SchedBlock(s)
      /\ UNCHANGED <<word, deadline, load>>
  BY Zenon DEF Wait, InUser, WaitBlocks, WaitStays
<1>1. i \in Slot /\ ~s_pool[i].in_use
  <2>1. {j \in Slot : ~s_pool[j].in_use} # {}
    BY <1>0, Zenon
  <2>2. PICK j \in {j \in Slot : ~s_pool[j].in_use} :
          \A k \in {k \in Slot : ~s_pool[k].in_use} : j <= k
    <3>1. {j \in Slot : ~s_pool[j].in_use} \subseteq Nat
      BY DEF Slot
    <3> QED BY <2>1, <3>1, NatMin, Zenon
  <2>3. j \in Slot /\ Free(j)
    BY <2>2, FutexAssumption DEF Slot
  <2>4. \E k \in Slot : Free(k)
    BY <2>3, Zenon
  <2> HIDE DEF Free
  <2>5. i \in Slot /\ Free(i)
    BY <2>4, Zenon
  <2> QED BY <2>5, Zenon DEF Free
<1> HIDE DEF i
<1>2. /\ Queue(s', Task, States) /\ s'.st[s'.cur] = "RUNNING"
      /\ \A u \in Task : s'.st[u] = IF u = t THEN "BLOCKED" ELSE s.st[u]
  BY <1>0, BlockDoes, Zenon
<1>3. FTypes'
  <2>1. s'.st[Idle] = "RUNNING"
    BY <1>2, FutexAssumption, Zenon DEF FTypes, Task
  <2>2. s_pool' \in [Slot -> [in_use : BOOLEAN, task : Thread \cup {NULL}, addr : Addr \cup {NULL}]]
    BY <1>0, <1>1, Zenon DEF FTypes
  <2> QED BY <1>0, <1>2, <2>1, <2>2, Zenon DEF FTypes
<1>4. \A j \in Slot : s_pool'[j] = IF j = i THEN new ELSE s_pool[j]
  BY <1>0, <1>1, Zenon DEF FTypes
<1>5. FFields'
  BY <1>0, <1>2, <1>4, Zenon DEF FFields, FTypes, Task
<1>6. ASSUME NEW u \in Thread, u # t
      PROVE  /\ s'.st[u] = s.st[u] /\ pc'[u] = pc[u] /\ at'[u] = at[u] /\ expected'[u] = expected[u]
  BY <1>0, <1>2, <1>6, Zenon DEF FTypes, Task
<1>7. s'.st[t] = "BLOCKED" /\ pc'[t] = "wait" /\ at'[t] = a /\ expected'[t] = v
  BY <1>0, <1>2, Zenon DEF FTypes, Task
<1>8. FSlots'
  <2>1. ASSUME NEW u \in Thread, Waits(u)'
        PROVE  \E j \in Slot : s_pool'[j].in_use /\ s_pool'[j].task = u /\ s_pool'[j].addr = at'[u]
    <3>1. CASE u = t
      BY <3>1, <1>1, <1>4, <1>7
    <3>2. CASE u # t
      <4>1. PICK j \in Slot : s_pool[j].in_use /\ s_pool[j].task = u /\ s_pool[j].addr = at[u]
        BY <3>2, <2>1, <1>6 DEF FSlots, Waits
      <4>2. j # i
        BY <4>1, <1>1, Zenon
      <4> QED BY <3>2, <4>1, <4>2, <1>4, <1>6, Zenon
    <3> QED BY <3>1, <3>2, Zenon
  <2>2. ASSUME NEW j \in Slot, NEW u \in Thread, s_pool'[j].in_use, s_pool'[j].addr = Tid(u)
        PROVE  s_pool'[j].task = Joiner
    <3>1. CASE j = i
      <4>1. a = Tid(u) /\ s_pool'[j].task = t
        BY <3>1, <2>2, <1>4
      <4>2. a \notin Used
        BY <4>1, FutexAssumption, Zenon DEF FTypes, Used
      <4> QED BY <4>1, <4>2, <1>0, Zenon DEF MayWait
    <3>2. CASE j # i
      BY <3>2, <2>2, <1>4 DEF FSlots
    <3> QED BY <3>1, <3>2, Zenon
  <2> QED BY <2>1, <2>2, Zenon DEF FSlots
<1>9. FQuiet'
  <2> SUFFICES ASSUME ~Signals PROVE FQuiet'
    BY <1>0, Zenon DEF FQuiet, Signals
  <2>1. \A j \in Slot : s_pool[j].in_use => s_pool[j].task # t
    BY <1>0, Zenon DEF FQuiet, Waits
  <2>2. ASSUME NEW j \in Slot, s_pool'[j].in_use
        PROVE  (Waits(s_pool[j].task) /\ at[s_pool[j].task] = s_pool[j].addr)'
    <3>1. CASE j = i
      BY <3>1, <1>4, <1>7 DEF Waits
    <3>2. CASE j # i
      <4>1. s_pool'[j] = s_pool[j] /\ s_pool[j].task \in Thread /\ s_pool[j].task # t
        BY <3>2, <2>1, <2>2, <1>4, Zenon DEF FFields
      <4> QED BY <2>2, <4>1, <1>6 DEF FQuiet, Waits
    <3> QED BY <3>1, <3>2, Zenon
  <2>3. \A j, k \in Slot :
          s_pool'[j].in_use /\ s_pool'[k].in_use /\ s_pool'[j].task = s_pool'[k].task => j = k
    BY <1>4, <2>1 DEF FQuiet
  <2>4. ASSUME NEW u \in Thread, deadline'[u] # NotSleeping
        PROVE  s'.st[u] = "BLOCKED" /\ pc'[u] = "sleep"
    <3>1. s.st[u] = "BLOCKED" /\ pc[u] = "sleep" /\ u # t
      BY <2>4, <1>0, Zenon DEF FQuiet
    <3> QED BY <3>1, <1>6, Zenon
  <2> QED BY <2>2, <2>3, <2>4, Zenon DEF FQuiet
<1>10. NobodyForgotten'
  <2> SUFFICES ASSUME NEW u \in Thread, Waits(u)', word'[at'[u]] # expected'[u]
               PROVE  \E x \in Thread : pc'[x] = "wake" /\ at'[x] = at'[u]
    BY Zenon DEF NobodyForgotten, Waits
  <2>1. u # t
    BY <1>0, <1>7, Zenon
  <2>2. PICK x \in Thread : pc[x] = "wake" /\ at[x] = at[u]
    BY <2>1, <1>0, <1>6 DEF NobodyForgotten, Waits
  <2>3. x # t
    BY <2>2, <1>0, Zenon
  <2> QED BY <2>1, <2>2, <2>3, <1>6, Zenon
<1> QED BY <1>3, <1>5, <1>8, <1>9, <1>10, Zenon

\* A thread returns from FUTEX_WAIT or from nanosleep.
LEMMA ReturnInv ==
  ASSUME FInv, UNCHANGED load, NEW t \in Thread, WaitReturn(t) \/ SleepReturn(t)
  PROVE  FInv'
<1> USE DEF FInv
<1>0. /\ s.cur = t /\ pc[t] \in {"wait", "sleep"} /\ s.st[t] = "RUNNING"
      /\ UNCHANGED <<s, word, s_pool, deadline, load>>
      /\ pc' = [pc EXCEPT ![t] = "user"]
      /\ at' \in [Thread -> Addr \cup {NULL}] /\ expected' \in [Thread -> 0..1]
      /\ \A u \in Thread : u # t => at'[u] = at[u] /\ expected'[u] = expected[u]
  BY DEF WaitReturn, SleepReturn, FTypes
<1>1. FTypes'
  BY <1>0, Zenon DEF FTypes
<1>2. \A u \in Thread : u # t => pc'[u] = pc[u]
  BY <1>0, Zenon DEF FTypes
<1>3. pc'[t] = "user"
  BY <1>0, Zenon DEF FTypes
<1>4. FFields'
  BY <1>0, <1>2, <1>3, Zenon DEF FFields
<1>5. FSlots'
  BY <1>0, <1>2, <1>3 DEF FSlots, Waits
<1>6. FQuiet'
  BY <1>0, <1>2, <1>3 DEF FQuiet, FFields, Waits, Signals
<1>7. NobodyForgotten'
  BY <1>0, <1>2, <1>3 DEF NobodyForgotten
<1> QED BY <1>1, <1>4, <1>5, <1>6, <1>7, Zenon

\* sys_nanosleep: the thread blocks until its deadline.
LEMMA NanoSleepInv ==
  ASSUME FInv, UNCHANGED load, NEW t \in Thread, NEW n \in 0..MaxSleep, NanoSleep(t, n)
  PROVE  FInv'
<1> USE DEF FInv
<1>0. /\ s.cur = t /\ pc[t] = "user" /\ s' = SchedBlock(s)
      /\ deadline' = [deadline EXCEPT ![t] = n] /\ pc' = [pc EXCEPT ![t] = "sleep"]
      /\ UNCHANGED <<at, expected, word, s_pool, load>>
  BY Zenon DEF NanoSleep, InUser
<1>1. /\ Queue(s', Task, States) /\ s'.st[s'.cur] = "RUNNING"
      /\ \A u \in Task : s'.st[u] = IF u = t THEN "BLOCKED" ELSE s.st[u]
  BY <1>0, BlockDoes, Zenon
<1>2. FTypes'
  <2>1. s'.st[Idle] = "RUNNING"
    BY <1>1, FutexAssumption, Zenon DEF FTypes, Task
  <2>2. deadline' \in [Thread -> NotSleeping..MaxSleep]
    BY <1>0, FutexAssumption DEF FTypes, NotSleeping
  <2> QED BY <1>0, <1>1, <2>1, <2>2, Zenon DEF FTypes
<1>3. \A u \in Thread : u # t => s'.st[u] = s.st[u] /\ pc'[u] = pc[u] /\ deadline'[u] = deadline[u]
  BY <1>0, <1>1, Zenon DEF FTypes, Task
<1>4. s'.st[t] = "BLOCKED" /\ pc'[t] = "sleep"
  BY <1>0, <1>1, Zenon DEF FTypes, Task
<1>5. FFields'
  BY <1>0, <1>3, <1>4, Zenon DEF FFields
<1>6. FSlots'
  BY <1>0, <1>3, <1>4 DEF FSlots, Waits
<1>7. FQuiet'
  BY <1>0, <1>3, <1>4 DEF FQuiet, FFields, Waits, Signals
<1>8. NobodyForgotten'
  BY <1>0, <1>3, <1>4 DEF NobodyForgotten
<1> QED BY <1>2, <1>5, <1>6, <1>7, <1>8, Zenon

\* sched_tick: threads that are due run, the others keep what they have.
LEMMA TickInv ==
  ASSUME FInv, UNCHANGED load, Tick
  PROVE  FInv'
<1> USE DEF FInv
<1> DEFINE due == {t \in Thread : Expired(t)}
           w == WakeDue(due)
<1>0. /\ s' = SchedPreempt(w) /\ deadline' = [t \in Thread |-> Countdown(t, due)]
      /\ UNCHANGED <<pc, at, expected, word, s_pool, load>>
  BY Zenon DEF Tick
<1>1. due \in SUBSET Thread /\ \A t \in due : s.st[t] = "BLOCKED" /\ deadline[t] \in {0, 1}
  BY Zenon DEF Expired
<1> HIDE DEF due
<1>2. /\ Queue(w, Task, States) /\ \A t \in Task : w.st[t] = IF t \in due THEN "RUNNING" ELSE s.st[t]
  BY <1>1, WakeDueDoes, Zenon
<1> HIDE DEF w
<1>3. w.st[Idle] = "RUNNING" /\ Idle \in Task
  BY <1>1, <1>2, Zenon DEF FTypes, Task
<1>4. /\ Queue(s', Task, States) /\ s'.st = w.st /\ s'.st[s'.cur] = "RUNNING"
  <2>1. Switched(SchedPreempt(w), w, Task, States) /\ Runs(SchedPreempt(w))
    BY <1>2, <1>3, PreemptQueue, Zenon
  <2> QED BY <1>0, <2>1, Zenon DEF Switched, Runs
<1>5. \A t \in Thread : s'.st[t] = IF t \in due THEN "RUNNING" ELSE s.st[t]
  BY <1>2, <1>4, Zenon DEF Task
<1>6. deadline' \in [Thread -> NotSleeping..MaxSleep]
      /\ \A t \in Thread : deadline'[t] # NotSleeping => t \notin due /\ deadline[t] # NotSleeping
  <2> SUFFICES ASSUME NEW t \in Thread
               PROVE  /\ Countdown(t, due) \in NotSleeping..MaxSleep
                      /\ Countdown(t, due) # NotSleeping => t \notin due /\ deadline[t] # NotSleeping
    BY <1>0, Zenon
  <2>1. deadline[t] \in -1..MaxSleep /\ MaxSleep \in Nat
    BY FutexAssumption, Zenon DEF FTypes, NotSleeping
  <2>2. CASE t \in due
    BY <2>1, <2>2 DEF Countdown, NotSleeping
  <2>3. CASE t \notin due /\ deadline[t] > 0
    BY <2>1, <2>3 DEF Countdown, NotSleeping
  <2>4. CASE t \notin due /\ ~(deadline[t] > 0)
    BY <2>1, <2>4, Zenon DEF Countdown, NotSleeping
  <2> QED BY <2>2, <2>3, <2>4, Zenon
<1>7. FTypes'
  BY <1>0, <1>3, <1>4, <1>6, Zenon DEF FTypes
<1>8. FFields'
  BY <1>0, <1>5, Zenon DEF FFields
<1>9. FSlots'
  BY <1>0, <1>5, Zenon DEF FSlots, Waits
<1>10. FQuiet'
  <2> SUFFICES ASSUME ~Signals PROVE FQuiet'
    BY <1>0, Zenon DEF FQuiet, Signals
  <2>1. \A t \in due : pc[t] = "sleep"
    BY <1>1 DEF FQuiet, NotSleeping
  <2>2. \A t \in Thread : Waits(t) => Waits(t)'
    BY <1>0, <1>5, <2>1, Zenon DEF Waits
  <2>3. \A t \in Thread : deadline'[t] # NotSleeping => s'.st[t] = "BLOCKED" /\ pc'[t] = "sleep"
    BY <1>0, <1>5, <1>6, Zenon DEF FQuiet
  <2> QED BY <1>0, <2>2, <2>3, Zenon DEF FQuiet, FFields
<1>11. NobodyForgotten'
  BY <1>0, <1>5, Zenon DEF NobodyForgotten
<1> QED BY <1>7, <1>8, <1>9, <1>10, <1>11, Zenon

\* A signal wakes a blocked thread and leaves its slot behind.
LEMMA SignalInv ==
  ASSUME FInv, UNCHANGED load, NEW t \in Thread, NEW u \in Thread, Signal(t, u)
  PROVE  FInv'
<1> USE DEF FInv
<1>0. /\ Signals /\ s.st[u] = "BLOCKED" /\ s' = SchedWake(s, u)
      /\ UNCHANGED <<pc, at, expected, word, s_pool, deadline, load>>
  BY Zenon DEF Signal
<1>1. /\ Queue(s, Task, States) /\ "RUNNING" \in States /\ u \in Task /\ s.st \in [Task -> States]
  BY Zenon DEF FTypes, States, Task, Queue
<1>2. WithState(SchedWake(s, u), s, u, "RUNNING", Task, States) /\ SchedWake(s, u).cur = s.cur
  BY <1>1, WakeQueue, Zenon
<1>3. /\ Queue(s', Task, States) /\ s'.cur = s.cur
      /\ \A x \in Task : s'.st[x] = IF x = u THEN "RUNNING" ELSE s.st[x]
  BY <1>0, <1>2, Zenon DEF WithState
<1>4. FTypes'
  <2>1. s.cur \in Task /\ Idle \in Task
    BY <1>1, Zenon DEF Queue, Task
  <2> QED BY <1>0, <1>3, <2>1, Zenon DEF FTypes
<1>5. FFields'
  BY <1>0, <1>3, Zenon DEF FFields, Task
<1>6. FSlots'
  BY <1>0, <1>3, Zenon DEF FSlots, Waits, Task
<1>7. FQuiet'
  BY <1>0, Zenon DEF FQuiet, Signals
<1>8. NobodyForgotten'
  BY <1>0, <1>3 DEF NobodyForgotten, Task
<1> QED BY <1>4, <1>5, <1>6, <1>7, <1>8, Zenon

\* sys_exit: the joiner, if it waits, is the task of the slot that is taken.
LEMMA ExitInv ==
  ASSUME FInv, UNCHANGED load, NEW t \in Thread, Exit(t)
  PROVE  FInv'
<1> USE DEF FInv
<1> DEFINE a == Tid(t)
           w == FutexWakeAddr(s, a, 1)
           z == SchedZombie(w)
<1>0. /\ s.cur = t /\ pc[t] = "user" /\ a \in Addr
      /\ word' = [word EXCEPT ![a] = 0] /\ s_pool' = FreePool(a, 1)
      /\ s' = SchedYieldToNext(z) /\ pc' = [pc EXCEPT ![t] = "dead"]
      /\ UNCHANGED <<at, expected, deadline, load>>
  BY Zenon DEF Exit, InUser, Addr
<1>1. /\ Queue(w, Task, States) /\ w.cur = t
      /\ \A u \in Task : w.st[u] =
           IF \E i \in Taken(a, 1) : s_pool[i].task = u THEN "RUNNING" ELSE s.st[u]
  BY <1>0, WakeAddrDoes
<1>a. \A i \in Slot : s_pool[i].in_use /\ s_pool[i].addr = a => s_pool[i].task = Joiner
  BY Zenon DEF FSlots
<1> HIDE DEF a, w
<1>2. WithState(z, w, w.cur, "ZOMBIE", Task, States) /\ z.cur = w.cur
  BY <1>1, ZombieQueue DEF States
<1>3. Queue(z, Task, States) /\ \A u \in Task : z.st[u] = IF u = t THEN "ZOMBIE" ELSE w.st[u]
  BY <1>1, <1>2, Zenon DEF WithState
<1> HIDE DEF z
<1>4. Idle \in Task /\ Idle # t /\ z.st[Idle] = "RUNNING"
  BY <1>1, <1>3, FutexAssumption, Zenon DEF FTypes, Task
<1>5. Queue(s', Task, States) /\ s'.st = z.st /\ s'.st[s'.cur] = "RUNNING"
  <2>1. Switched(SchedYieldToNext(z), z, Task, States) /\ Runs(SchedYieldToNext(z))
    BY <1>3, <1>4, YieldQueue, Zenon
  <2> QED BY <1>0, <2>1, Zenon DEF Switched, Runs
<1>6. \A u \in Thread : s'.st[u] =
        CASE u = t -> "ZOMBIE"
          [] u # t /\ (\E i \in Taken(a, 1) : s_pool[i].task = u) -> "RUNNING"
          [] OTHER -> s.st[u]
  BY <1>1, <1>3, <1>5, Zenon DEF Task
<1>7. \A i \in Slot : s_pool'[i] = IF i \in Taken(a, 1) THEN FreeSlot ELSE s_pool[i]
  BY <1>0, Zenon DEF FreePool
<1>8. \A i \in Taken(a, 1) : i \in Slot /\ s_pool[i].in_use /\ s_pool[i].addr = a /\ s_pool[i].task = Joiner
  BY <1>a, Zenon DEF Taken, Matching
<1>9. \A i \in Slot : s_pool'[i].in_use => s_pool'[i] = s_pool[i] /\ i \notin Taken(a, 1)
  BY <1>7 DEF FreeSlot
<1>10. FTypes'
  <2>1. s'.st[Idle] = "RUNNING"
    BY <1>4, <1>5, Zenon
  <2>2. s_pool' \in [Slot -> [in_use : BOOLEAN, task : Thread \cup {NULL}, addr : Addr \cup {NULL}]]
    BY <1>0, Zenon DEF FTypes, FreePool, FreeSlot
  <2> QED BY <1>0, <1>5, <2>1, <2>2 DEF FTypes
<1>11. ASSUME NEW u \in Thread, s'.st[u] = "BLOCKED"
       PROVE  u # t /\ s.st[u] = "BLOCKED" /\ pc'[u] = pc[u] /\ \A i \in Taken(a, 1) : s_pool[i].task # u
  BY <1>0, <1>6, <1>11, Zenon DEF FTypes
<1>12. FFields'
  <2>1. \A u \in Thread : s'.st[u] = "BLOCKED" => pc'[u] \in {"wait", "sleep"}
    BY <1>11, Zenon DEF FFields
  <2> QED BY <1>0, <1>9, <2>1, Zenon DEF FFields, FTypes
<1>13. ASSUME NEW u \in Thread, Waits(u)'
       PROVE  Waits(u) /\ at[u] # a
  <2>1. Waits(u) /\ \A i \in Taken(a, 1) : s_pool[i].task # u
    BY <1>11, <1>13, Zenon DEF Waits
  <2>2. ASSUME at[u] = a PROVE FALSE
    <3>1. PICK i \in Slot : s_pool[i].in_use /\ s_pool[i].task = u /\ s_pool[i].addr = a
      BY <2>1, <2>2, Zenon DEF FSlots
    <3>2. i \in Matching(a) /\ u = Joiner
      BY <3>1, <1>a, Zenon DEF Matching
    <3>3. Taken(a, 1) # {}
      BY <3>2, TakenOne, Zenon
    <3> QED BY <1>8, <2>1, <3>2, <3>3, Zenon
  <2> QED BY <2>1, <2>2, Zenon
<1>14. FSlots'
  <2>1. ASSUME NEW u \in Thread, Waits(u)'
        PROVE  \E i \in Slot : s_pool'[i].in_use /\ s_pool'[i].task = u /\ s_pool'[i].addr = at'[u]
    <3>1. PICK i \in Slot : s_pool[i].in_use /\ s_pool[i].task = u /\ s_pool[i].addr = at[u]
      BY <2>1, <1>13, Zenon DEF FSlots
    <3>2. s_pool'[i] = s_pool[i]
      BY <2>1, <3>1, <1>7, <1>8, <1>13, Zenon
    <3> QED BY <3>1, <3>2, <1>0, Zenon
  <2> QED BY <1>9, <2>1 DEF FSlots
<1>15. FQuiet'
  <2> SUFFICES ASSUME ~Signals PROVE FQuiet'
    BY <1>0, Zenon DEF FQuiet, Signals
  <2>1. ASSUME NEW i \in Slot, s_pool'[i].in_use
        PROVE  (Waits(s_pool[i].task) /\ at[s_pool[i].task] = s_pool[i].addr)'
    <3> DEFINE u == s_pool[i].task
    <3>1. /\ s_pool'[i] = s_pool[i] /\ i \notin Taken(a, 1) /\ s_pool[i].in_use
          /\ u \in Thread /\ Waits(u) /\ at[u] = s_pool[i].addr /\ u # t
      BY <2>1, <1>9, <1>0, Zenon DEF FQuiet, FFields, Waits
    <3>2. \A j \in Taken(a, 1) : s_pool[j].task # u
      BY <3>1, <1>8, Zenon DEF FQuiet
    <3>3. s'.st[u] = s.st[u] /\ pc'[u] = pc[u] /\ at'[u] = at[u]
      BY <3>1, <3>2, <1>0, <1>6 DEF FTypes
    <3> QED BY <3>1, <3>3, Zenon DEF Waits
  <2>2. \A i, j \in Slot :
          s_pool'[i].in_use /\ s_pool'[j].in_use /\ s_pool'[i].task = s_pool'[j].task => i = j
    BY <1>9, Zenon DEF FQuiet
  <2>3. ASSUME NEW u \in Thread, deadline'[u] # NotSleeping
        PROVE  s'.st[u] = "BLOCKED" /\ pc'[u] = "sleep"
    <3>1. s.st[u] = "BLOCKED" /\ pc[u] = "sleep" /\ u # t
      BY <2>3, <1>0, Zenon DEF FQuiet
    <3>2. \A j \in Taken(a, 1) : s_pool[j].task # u
      BY <3>1, <1>8, Zenon DEF FQuiet, Waits
    <3> QED BY <3>1, <3>2, <1>0, <1>6, Zenon DEF FTypes
  <2> QED BY <2>1, <2>2, <2>3, Zenon DEF FQuiet
<1>16. NobodyForgotten'
  <2> SUFFICES ASSUME NEW u \in Thread, Waits(u)', word'[at'[u]] # expected'[u]
               PROVE  \E x \in Thread : pc'[x] = "wake" /\ at'[x] = at'[u]
    BY Zenon DEF NobodyForgotten, Waits
  <2>1. Waits(u) /\ at[u] # a /\ at[u] \in Addr
    BY <1>13, Zenon DEF FFields, Waits
  <2>2. word[at[u]] # expected[u]
    BY <1>0, <2>1, Zenon DEF FTypes
  <2>3. PICK x \in Thread : pc[x] = "wake" /\ at[x] = at[u]
    BY <2>1, <2>2, Zenon DEF NobodyForgotten, Waits
  <2>4. x # t
    BY <2>3, <1>0, Zenon
  <2> QED BY <1>0, <2>3, <2>4, Zenon DEF FTypes
<1> QED BY <1>10, <1>12, <1>14, <1>15, <1>16, Zenon

-----------------------------------------------------------------------------
\* Every step keeps the invariant.
LEMMA StepInv == FInv /\ [Next]_vars => FInv'
<1> SUFFICES ASSUME FInv, [Next]_vars PROVE FInv'
  OBVIOUS
<1>1. CASE UNCHANGED vars
  <2>1. UNCHANGED <<load, s, pc, at, expected, word, s_pool, deadline>>
    BY <1>1, Zenon DEF vars
  <2> QED BY <2>1 DEF FInv, FTypes, FFields, FSlots, FQuiet, NobodyForgotten, Waits, Signals
<1>2. CASE Next
  <2>0. UNCHANGED load
    BY <1>2, Zenon DEF Next
  <2>1. ASSUME NEW t \in Thread, NEW a \in Words, NEW v \in 0..1, Store(t, a, v) PROVE FInv'
    BY <2>0, <2>1, StoreInv, Zenon
  <2>2. ASSUME NEW t \in Thread, NEW a \in Addr, NEW v \in 0..1, Wait(t, a, v) PROVE FInv'
    BY <2>0, <2>2, WaitInv, Zenon
  <2>3. ASSUME NEW t \in Thread, Wake(t) PROVE FInv'
    BY <2>0, <2>3, WakeInv, Zenon
  <2>4. ASSUME NEW t \in Thread, WaitReturn(t) \/ SleepReturn(t) PROVE FInv'
    BY <2>0, <2>4, ReturnInv, Zenon
  <2>5. ASSUME NEW t \in Thread, Exit(t) PROVE FInv'
    BY <2>0, <2>5, ExitInv, Zenon
  <2>6. ASSUME NEW t \in Thread, NEW n \in 0..MaxSleep, NanoSleep(t, n) PROVE FInv'
    BY <2>0, <2>6, NanoSleepInv, Zenon
  <2>7. ASSUME NEW t \in Thread, NEW u \in Thread, Signal(t, u) PROVE FInv'
    BY <2>0, <2>7, SignalInv, Zenon
  <2>8. CASE Tick
    BY <2>0, <2>8, TickInv, Zenon
  <2> QED BY <1>2, <2>1, <2>2, <2>3, <2>4, <2>5, <2>6, <2>7, <2>8, Zenon DEF Next
<1> QED BY <1>1, <1>2, Zenon

\* The invariant gives what the run checks of the pool.
LEMMA InvPool == FInv => PoolHoldsSleepers
<1> SUFFICES ASSUME FInv PROVE PoolHoldsSleepers
  BY Zenon
<1>1. TypeOK
  BY Zenon DEF FInv, FTypes, TypeOK, Queue, States
<1>2. ASSUME ~Signals, NEW t \in Thread, s.st[t] = "BLOCKED", pc[t] = "wait"
      PROVE  Cardinality({i \in Slot : s_pool[i].in_use /\ s_pool[i].task = t}) = 1
  <2>1. PICK i \in Slot : s_pool[i].in_use /\ s_pool[i].task = t
    BY <1>2, Zenon DEF FInv, FSlots, Waits
  <2>2. {j \in Slot : s_pool[j].in_use /\ s_pool[j].task = t} = {i}
    BY <1>2, <2>1, Zenon DEF FInv, FQuiet
  <2> QED BY <2>2, FS_Singleton, Zenon
<1> QED BY <1>1, <1>2, Zenon DEF PoolHoldsSleepers, FInv, FQuiet, Waits

\* The pool of sys_futex, the scheduler and the deadlines of sys_nanosleep
\* agree after any sequence of calls, ticks, signals and exits.
THEOREM FutexInvariant == Spec => []FInv
BY InitInv, StepInv, PTL DEF Spec

\* The pool of futex.c holds exactly the threads that sleep on a word, each in
\* one slot with the word's address, whatever the pool's size: FUTEX_WAKE
\* finds everyone and wakes nobody else (where no signal ends a wait).
THEOREM FutexPool == Spec => []PoolHoldsSleepers
BY FutexInvariant, InvPool, PTL

\* No thread sleeps on a word that changed unless the thread that changed it
\* is about to call FUTEX_WAKE, whatever signals, exits and ticks happen.
THEOREM FutexNobodyForgotten == Spec => []NobodyForgotten
<1>1. FInv => NobodyForgotten
  BY Zenon DEF FInv
<1> QED BY <1>1, FutexInvariant, PTL

\* A step makes a sleeping thread run only when its deadline is due.
LEMMA StepNoEarlyWake ==
  ASSUME FInv, [Next]_vars, ~Signals, NEW t \in Thread,
         pc[t] = "sleep", s.st[t] = "BLOCKED", s'.st[t] = "RUNNING"
  PROVE  deadline[t] <= 1
<1> USE DEF FInv
<1>0. t \in Task /\ s' # s
  BY Zenon DEF Task
<1>1. \A a : \A i \in Matching(a) : s_pool[i].task # t
  BY Zenon DEF FQuiet, Waits, Matching
<1>2. CASE Tick
  <2> DEFINE due == {u \in Thread : Expired(u)}
  <2>1. s' = SchedPreempt(WakeDue(due)) /\ due \in SUBSET Thread
    BY <1>2, Zenon DEF Tick
  <2>2. t \in due => deadline[t] \in {0, 1}
    BY Zenon DEF Expired
  <2> HIDE DEF due
  <2>3. /\ Queue(WakeDue(due), Task, States)
        /\ \A u \in Task : WakeDue(due).st[u] = IF u \in due THEN "RUNNING" ELSE s.st[u]
    BY <2>1, WakeDueDoes, Zenon
  <2>4. WakeDue(due).st[Idle] = "RUNNING" /\ Idle \in Task
    BY <2>1, <2>3, FutexAssumption, Zenon DEF FTypes, Task
  <2>5. Switched(SchedPreempt(WakeDue(due)), WakeDue(due), Task, States)
    BY <2>3, <2>4, PreemptQueue, Zenon
  <2>6. s'.st[t] = IF t \in due THEN "RUNNING" ELSE s.st[t]
    BY <2>1, <2>3, <2>5, <1>0, Zenon DEF Switched
  <2> QED BY <2>2, <2>6
<1>3. ASSUME NEW u \in Thread, NEW a, NEW n, FutexWakeAddr(s, a, n).st[t] # s.st[t] PROVE FALSE
  <2>1. \A i \in Taken(a, n) : s_pool[i].task # t
    BY <1>1, Zenon DEF Taken
  <2> QED BY <1>0, <1>3, <2>1, WakeAddrDoes
<1>4. ASSUME NEW u \in Thread, Wake(u) PROVE FALSE
  BY <1>3, <1>4, Zenon DEF Wake
<1>5. ASSUME NEW u \in Thread, Exit(u) PROVE FALSE
  <2> DEFINE w == FutexWakeAddr(s, Tid(u), 1)
  <2>1. /\ s' = SchedYieldToNext(SchedZombie(w)) /\ s.cur = u /\ u # t
    BY <1>5, Zenon DEF Exit, InUser
  <2>2. /\ Queue(w, Task, States) /\ w.cur = u /\ w.st[t] = "BLOCKED"
        /\ w.st[Idle] = "RUNNING" /\ Idle \in Task /\ Idle # u
    <3>1. Queue(w, Task, States) /\ w.cur = u /\ Idle \in Task /\ Idle # u
      <4>1. Queue(w, Task, States) /\ w.cur = s.cur
        BY WakeAddrDoes
      <4> QED BY <2>1, <4>1, FutexAssumption, Zenon DEF Task
    <3>2. w.st[t] = "BLOCKED"
      BY <1>3, Zenon
    <3>3. w.st[Idle] = "RUNNING"
      BY <3>1, WakeAddrDoes DEF FTypes
    <3> QED BY <3>1, <3>2, <3>3, Zenon
  <2> HIDE DEF w
  <2> DEFINE z == SchedZombie(w)
  <2>3. WithState(z, w, w.cur, "ZOMBIE", Task, States)
    BY <2>2, ZombieQueue, Zenon DEF States
  <2>4. Queue(z, Task, States) /\ z.st[t] = "BLOCKED" /\ z.st[Idle] = "RUNNING"
    BY <2>1, <2>2, <2>3, <1>0, Zenon DEF WithState
  <2> HIDE DEF z
  <2>5. Switched(SchedYieldToNext(z), z, Task, States)
    BY <2>2, <2>4, YieldQueue, Zenon
  <2> QED BY <2>1, <2>4, <2>5, Zenon DEF Switched, z
<1>6. ASSUME NEW u \in Thread, s.cur = u, s' = SchedBlock(s) PROVE FALSE
  BY <1>0, <1>6, BlockDoes, Zenon
<1>7. ASSUME NEW u \in Thread, NEW a \in Addr, NEW v \in 0..1, Wait(u, a, v) PROVE FALSE
  BY <1>6, <1>7, Zenon DEF Wait, InUser
<1>8. ASSUME NEW u \in Thread, NEW n \in 0..MaxSleep, NanoSleep(u, n) PROVE FALSE
  BY <1>6, <1>8, Zenon DEF NanoSleep, InUser
<1> QED BY <1>0, <1>2, <1>4, <1>5, <1>7, <1>8, Zenon
     DEF Next, vars, Store, WaitReturn, SleepReturn, Signal

\* A thread that nobody signals sleeps as long as it asked sys_nanosleep for:
\* neither another thread's wake nor a tick makes it run before its deadline.
THEOREM FutexNoEarlyWake == Spec => NoEarlyWake
<1>1. FInv /\ [Next]_vars =>
        (~Signals => \A t \in Thread :
           (pc[t] = "sleep" /\ s.st[t] = "BLOCKED" /\ s'.st[t] = "RUNNING") => deadline[t] <= 1)
  BY StepNoEarlyWake, Zenon
<1> QED BY <1>1, FutexInvariant, PTL DEF Spec, NoEarlyWake
=============================================================================
