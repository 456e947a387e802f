----------------------------- MODULE Pipe_lemmas ----------------------------
(***************************************************************************)
(* The inductive invariant of Pipe, and what the functions that its calls  *)
(* are made of do to each of its parts: the ring, the reference counts and *)
(* the tasks that wait.                                                    *)
(***************************************************************************)
EXTENDS Pipe, SchedOps_proofs, FiniteSetTheorems

-----------------------------------------------------------------------------
(* The pipe's inductive invariant. *)

PipeStates == {"free", "RUNNING", "BLOCKED", "ZOMBIE"}
Calls == {"user", "read", "write", "pollr", "pollw"}

PFields ==
  /\ load \in Loads
  /\ pc \in [Proc -> Calls] /\ want \in [Proc -> 0..PIPE_BUF_SIZE]
  /\ hold \in [Proc -> [End -> 0..MaxHold]] /\ refs \in [End -> Nat]
  /\ waiting \in [End -> Proc \cup {NoTask}] /\ waiters \in [End -> Seq(Proc)]
  /\ freed \in BOOLEAN /\ hung \in BOOLEAN

PSched ==
  /\ Queue(s, PipeTask, PipeStates)
  /\ s.st[IdleTask] = "RUNNING" /\ Runs(s)

\* The ring: positions and counters in range, and the bytes in order.
PRing ==
  /\ buf \in [0..PIPE_BUF_SIZE - 1 -> Nat] /\ count \in 0..PIPE_BUF_SIZE
  /\ read_pos \in 0..PIPE_BUF_SIZE - 1 /\ write_pos \in 0..PIPE_BUF_SIZE - 1
  /\ nwr \in 0..Mod - 1 /\ nrd \in 0..Mod - 1
  /\ (nrd + count) % Mod = nwr
  /\ write_pos = (read_pos + count) % PIPE_BUF_SIZE
  /\ \A i \in 0..count - 1 : buf[(read_pos + i) % PIPE_BUF_SIZE] = (nrd + i) % Mod

\* A process that was never forked has no descriptors.
PRefs ==
  /\ RefsCountDescriptors
  /\ \A p \in Proc, e \in End : s.st[p] = "free" => hold[p][e] = 0

\* Whoever blocks is where the transfer or the close that ends its wait looks.
Waits(p) ==
  /\ pc[p] # "user"
  /\ pc[p] = "read" /\ OnlyOne(p, Readers) => waiting["r"] = p /\ count = 0 /\ refs["w"] > 0
  /\ pc[p] = "write" /\ OnlyOne(p, Writers) =>
       waiting["w"] = p /\ count = PIPE_BUF_SIZE /\ refs["r"] > 0
  /\ pc[p] = "pollr" => Queued(waiters["r"], p) /\ ~Ready("r")
  /\ pc[p] = "pollw" => Queued(waiters["w"], p) /\ ~Ready("w")

PWaits ==
  /\ \A p \in Proc : s.st[p] = "BLOCKED" => Waits(p)
  /\ \A p \in Proc : (pc[p] = "read" => p \in Readers) /\ (pc[p] = "write" => p \in Writers)

PInv == PFields /\ PSched /\ PRing /\ PRefs /\ PWaits

-----------------------------------------------------------------------------
(* The ring. *)

\* The copy loop of pipe_read_fn takes k bytes off the front of the stream.
LEMMA RingRead ==
  ASSUME PRing, NEW k \in 0..count,
         read_pos' = (read_pos + k) % PIPE_BUF_SIZE, count' = count - k,
         nrd' = (nrd + k) % Mod, UNCHANGED <<buf, write_pos, nwr>>
  PROVE  PRing'
<1> DEFINE N == PIPE_BUF_SIZE
<1>0. N \in Nat \ {0} /\ Mod \in Nat \ {0} /\ Mod > N
  BY PipeAssumption
<1>1. /\ buf \in [0..N - 1 -> Nat] /\ count \in 0..N /\ read_pos \in 0..N - 1
      /\ write_pos \in 0..N - 1 /\ nwr \in 0..Mod - 1 /\ nrd \in 0..Mod - 1
      /\ (nrd + count) % Mod = nwr /\ write_pos = (read_pos + count) % N
      /\ \A i \in 0..count - 1 : buf[(read_pos + i) % N] = (nrd + i) % Mod
  BY Zenon DEF PRing
<1>t. /\ count \in 0..N /\ read_pos \in 0..N - 1
      /\ write_pos \in 0..N - 1 /\ nwr \in 0..Mod - 1 /\ nrd \in 0..Mod - 1
  BY <1>1, Zenon
<1> HIDE DEF N
<1>2. count' \in 0..N /\ k \in Nat /\ count' \in Nat /\ k + count' = count
  BY <1>0, <1>1
<1>3. read_pos' \in 0..N - 1 /\ nrd' \in 0..Mod - 1
  <2>1. read_pos' = (read_pos + k) % N
    BY Zenon DEF N
  <2> QED BY <1>0, <1>1, <1>2, <2>1
<1>4. \A i \in 0..count' : (read_pos' + i) % N = (read_pos + (k + i)) % N
  <2> TAKE i \in 0..count'
  <2>1. i \in Nat /\ k + i <= N
    BY <1>0, <1>t, <1>2
  <2>2. (((read_pos + k) % N) + i) % N = (read_pos + k + i) % N
    BY <1>0, <1>t, <1>2, <2>1
  <2> QED BY <1>0, <1>1, <1>2, <2>1, <2>2 DEF N
<1>5. \A i \in 0..count' : (nrd' + i) % Mod = (nrd + (k + i)) % Mod
  <2> TAKE i \in 0..count'
  <2>1. i \in Nat /\ k + i <= Mod
    BY <1>0, <1>t, <1>2
  <2>2. (((nrd + k) % Mod) + i) % Mod = (nrd + k + i) % Mod
    BY <1>0, <1>t, <1>2, <2>1
  <2> QED BY <1>0, <1>1, <1>2, <2>1, <2>2
<1>6. (nrd' + count') % Mod = nwr /\ write_pos = (read_pos' + count') % N
  BY <1>1, <1>2, <1>4, <1>5
<1>7. \A i \in 0..count' - 1 : buf[(read_pos' + i) % N] = (nrd' + i) % Mod
  <2> TAKE i \in 0..count' - 1
  <2>1. i \in 0..count' /\ k + i \in 0..count - 1
    BY <1>1, <1>2
  <2> QED BY <1>1, <1>4, <1>5, <2>1, Zenon
<1> QED BY <1>1, <1>2, <1>3, <1>6, <1>7, Zenon DEF PRing, N

\* The copy loop of pipe_write_fn appends k bytes to the stream and leaves
\* those before them.
LEMMA RingWrite ==
  ASSUME PRing, NEW k \in 0..PIPE_BUF_SIZE - count,
         buf' = Store(k), write_pos' = (write_pos + k) % PIPE_BUF_SIZE, count' = count + k,
         nwr' = (nwr + k) % Mod, UNCHANGED <<read_pos, nrd>>
  PROVE  PRing'
<1> DEFINE N == PIPE_BUF_SIZE
<1>0. N \in Nat \ {0} /\ Mod \in Nat \ {0} /\ Mod > N
  BY PipeAssumption
<1>1. /\ buf \in [0..N - 1 -> Nat] /\ count \in 0..N /\ read_pos \in 0..N - 1
      /\ write_pos \in 0..N - 1 /\ nwr \in 0..Mod - 1 /\ nrd \in 0..Mod - 1
      /\ (nrd + count) % Mod = nwr /\ write_pos = (read_pos + count) % N
      /\ \A i \in 0..count - 1 : buf[(read_pos + i) % N] = (nrd + i) % Mod
  BY Zenon DEF PRing
<1>t. /\ count \in 0..N /\ read_pos \in 0..N - 1
      /\ write_pos \in 0..N - 1 /\ nwr \in 0..Mod - 1 /\ nrd \in 0..Mod - 1
  BY <1>1, Zenon
<1>b. /\ buf' = [j \in 0..N - 1 |-> LET d == (j - write_pos + N) % N
                                    IN  IF d < k THEN (nwr + d) % Mod ELSE buf[j]]
      /\ write_pos' = (write_pos + k) % N
  BY Zenon DEF Store
<1> HIDE DEF N
<1>2. k \in Nat /\ count + k <= N /\ count' \in 0..N
  BY <1>0, <1>1 DEF N
<1>3. write_pos' = (read_pos + count') % N /\ write_pos' \in 0..N - 1
  <2>1. (((read_pos + count) % N) + k) % N = (read_pos + count + k) % N
    BY <1>0, <1>t, <1>2
  <2> QED BY <1>0, <1>1, <1>2, <1>b, <2>1
<1>4. nwr' = (nrd + count') % Mod /\ nwr' \in 0..Mod - 1
  <2>1. (((nrd + count) % Mod) + k) % Mod = (nrd + count + k) % Mod
    BY <1>0, <1>t, <1>2
  <2>2. nrd + count + k = nrd + count' /\ (nrd + count) % Mod = nwr
    BY <1>1, <1>t, <1>2
  <2>3. nwr' = (nrd + count') % Mod
    BY <2>1, <2>2, Zenon
  <2>4. (nwr + k) % Mod \in 0..Mod - 1
    BY <1>0, <1>t, <1>2
  <2> QED BY <2>3, <2>4, Zenon
<1>5. buf' \in [0..N - 1 -> Nat]
  <2>1. \A d : d \in 0..N - 1 => (nwr + d) % Mod \in Nat
    BY <1>0, <1>1
  <2>2. \A j \in 0..N - 1 : (j - write_pos + N) % N \in 0..N - 1
    BY <1>0, <1>1
  <2> QED BY <1>1, <1>b, <2>1, <2>2, Zenon
<1>6. ASSUME NEW i \in 0..count' - 1
      PROVE  buf'[(read_pos + i) % N] = (nrd + i) % Mod
  <2> DEFINE j == (read_pos + i) % N
             d == (j - write_pos + N) % N
  <2>1. i \in Nat /\ i < N /\ count \in Nat /\ i < count + k
    BY <1>0, <1>t, <1>2
  <2>2. j = IF read_pos + i < N THEN read_pos + i ELSE read_pos + i - N
    BY <1>0, <1>t, <2>1
  <2>3. j \in 0..N - 1
    BY <1>0, <1>1, <2>1, <2>2
  <2>4. write_pos = IF read_pos + count < N THEN read_pos + count ELSE read_pos + count - N
    <3>1. (read_pos + count) % N = IF read_pos + count < N THEN read_pos + count ELSE read_pos + count - N
      BY <1>0, <1>t, <2>1
    <3> QED BY <1>1, <3>1, Zenon
  <2>5. buf'[j] = IF d < k THEN (nwr + d) % Mod ELSE buf[j]
    BY <1>b, <2>3, Zenon
  <2>6. d = IF j - write_pos + N < N THEN j - write_pos + N ELSE j - write_pos
    <3>1. j - write_pos + N \in Nat /\ j - write_pos + N < 2 * N
      BY <1>0, <1>1, <2>3
    <3> HIDE DEF j
    <3> QED BY <1>0, <1>t, <2>3, <3>1
  <2> HIDE DEF j, d
  <2>7. CASE i < count
    <3>1. d = N - (count - i)
      BY <1>0, <1>t, <2>1, <2>2, <2>3, <2>4, <2>6, <2>7
    <3>2. ~(d < k) /\ i \in 0..count - 1
      BY <1>0, <1>1, <1>2, <2>1, <2>7, <3>1
    <3> QED BY <1>1, <2>5, <3>2, Zenon DEF j
  <2>8. CASE i >= count
    <3>1. d = i - count
      BY <1>0, <1>t, <2>1, <2>2, <2>3, <2>4, <2>6, <2>8
    <3>2. d < k /\ d \in Nat /\ count + d = i /\ count + d <= Mod
      BY <1>0, <1>1, <1>2, <2>1, <2>8, <3>1
    <3>3. (((nrd + count) % Mod) + d) % Mod = (nrd + count + d) % Mod
      BY <1>0, <1>t, <3>2
    <3>4. nrd + count + d = nrd + i /\ (nrd + count) % Mod = nwr
      BY <1>1, <1>t, <3>2
    <3>5. (nwr + d) % Mod = (nrd + i) % Mod
      BY <3>3, <3>4, Zenon
    <3> QED BY <2>5, <3>2, <3>5, Zenon DEF j
  <2> QED BY <1>1, <2>1, <2>7, <2>8 DEF j
<1> QED BY <1>1, <1>2, <1>3, <1>4, <1>5, <1>6, Zenon DEF PRing, N

-----------------------------------------------------------------------------
(* The reference counts. *)

DescriptorsOf(h, e) == {d \in Proc \X (1..MaxHold) : d[2] <= h[d[1]][e]}

\* One process's k descriptors of an end.
LEMMA RowCount ==
  ASSUME NEW p, NEW k \in Nat
  PROVE  IsFiniteSet({p} \X (1..k)) /\ Cardinality({p} \X (1..k)) = k
<1>1. IsFiniteSet({p}) /\ Cardinality({p}) = 1
  BY FS_Singleton, Zenon
<1>2. IsFiniteSet(1..k) /\ Cardinality(1..k) = k
  BY FS_Interval
<1>3. IsFiniteSet({p} \X (1..k)) /\ Cardinality({p} \X (1..k)) = Cardinality({p}) * Cardinality(1..k)
  BY <1>1, <1>2, FS_Product, Zenon
<1> QED BY <1>1, <1>2, <1>3

\* There are finitely many descriptors, at least those of each process.
LEMMA DescriptorsFinite ==
  ASSUME NEW h \in [Proc -> [End -> 0..MaxHold]], NEW e \in End
  PROVE  /\ IsFiniteSet(DescriptorsOf(h, e)) /\ Cardinality(DescriptorsOf(h, e)) \in Nat
         /\ Cardinality(DescriptorsOf(h, e)) <= MaxHold * Cardinality(Proc)
         /\ \A p \in Proc : h[p][e] <= Cardinality(DescriptorsOf(h, e))
<1> DEFINE D == DescriptorsOf(h, e)
<1>1. IsFiniteSet(Proc) /\ IsFiniteSet(1..MaxHold) /\ Cardinality(1..MaxHold) = MaxHold
      /\ MaxHold \in Nat
  BY PipeAssumption, FS_Interval
<1>2. /\ IsFiniteSet(Proc \X (1..MaxHold))
      /\ Cardinality(Proc \X (1..MaxHold)) = Cardinality(Proc) * Cardinality(1..MaxHold)
  BY <1>1, FS_Product, Zenon
<1>3. D \in SUBSET (Proc \X (1..MaxHold))
  BY Zenon DEF DescriptorsOf
<1> HIDE DEF D
<1>4. IsFiniteSet(D) /\ Cardinality(D) <= Cardinality(Proc \X (1..MaxHold))
  BY <1>2, <1>3, FS_Subset, Zenon
<1>5. Cardinality(Proc) \in Nat /\ Cardinality(D) \in Nat
  BY <1>1, <1>4, FS_CardinalityType, Zenon
<1>6. ASSUME NEW p \in Proc PROVE h[p][e] <= Cardinality(D)
  <2> DEFINE k == h[p][e]
             R == {p} \X (1..k)
  <2>1. k \in Nat /\ k <= MaxHold
    BY <1>1
  <2>2. R \in SUBSET D
    BY <1>1, <2>1 DEF D, DescriptorsOf
  <2> HIDE DEF k, R
  <2>3. Cardinality(R) <= Cardinality(D)
    BY <1>4, <2>2, FS_Subset, Zenon
  <2>4. Cardinality(R) = k
    BY <2>1, RowCount, Zenon DEF R
  <2> QED BY <2>3, <2>4, Zenon DEF k
<1>7. Cardinality(D) <= MaxHold * Cardinality(Proc)
  BY <1>1, <1>2, <1>4, <1>5
<1> QED BY <1>4, <1>5, <1>6, <1>7, Zenon DEF D

\* When one process's descriptors change, the number of all of them changes
\* by as much.
LEMMA DescriptorsChange ==
  ASSUME NEW h \in [Proc -> [End -> 0..MaxHold]], NEW g \in [Proc -> [End -> 0..MaxHold]],
         NEW e \in End, NEW p \in Proc, \A q \in Proc : q # p => g[q][e] = h[q][e]
  PROVE  Cardinality(DescriptorsOf(g, e)) = Cardinality(DescriptorsOf(h, e)) - h[p][e] + g[p][e]
<1> DEFINE Rest == {d \in Proc \X (1..MaxHold) : d[1] # p /\ d[2] <= h[d[1]][e]}
           Row(k) == {p} \X (1..k)
<1>0. MaxHold \in Nat
  BY PipeAssumption, Zenon
<1>1. ASSUME NEW f \in [Proc -> [End -> 0..MaxHold]], \A q \in Proc : q # p => f[q][e] = h[q][e]
      PROVE  Cardinality(DescriptorsOf(f, e)) = Cardinality(Rest) + f[p][e] /\ Cardinality(Rest) \in Nat
  <2>0. f[p][e] \in Nat /\ f[p][e] <= MaxHold
    BY <1>0, <1>1
  <2>1. DescriptorsOf(f, e) = Rest \cup Row(f[p][e])
    <3>1. ASSUME NEW d \in DescriptorsOf(f, e) PROVE d \in Rest \cup Row(f[p][e])
      <4>1. d \in Proc \X (1..MaxHold) /\ d[2] <= f[d[1]][e]
        BY Zenon DEF DescriptorsOf
      <4> QED BY <1>0, <1>1, <2>0, <4>1
    <3>2. ASSUME NEW d \in Rest PROVE d \in DescriptorsOf(f, e)
      BY <1>1, Zenon DEF DescriptorsOf
    <3>3. ASSUME NEW d \in Row(f[p][e]) PROVE d \in DescriptorsOf(f, e)
      BY <1>0, <2>0 DEF DescriptorsOf
    <3> QED BY <3>1, <3>2, <3>3, Zenon
  <2>2. Rest \cap Row(f[p][e]) = {}
    BY Zenon
  <2>3. Rest \in SUBSET DescriptorsOf(f, e)
    BY <2>1, Zenon
  <2> HIDE DEF Rest
  <2>4. IsFiniteSet(Rest) /\ Cardinality(Rest) \in Nat
    BY <1>1, <2>3, DescriptorsFinite, FS_Subset, FS_CardinalityType, Zenon
  <2>5. IsFiniteSet(Row(f[p][e])) /\ Cardinality(Row(f[p][e])) = f[p][e]
    BY <2>0, RowCount, Zenon
  <2> HIDE DEF Row
  <2>6. Cardinality(Rest \cup Row(f[p][e])) =
          Cardinality(Rest) + Cardinality(Row(f[p][e])) - Cardinality(Rest \cap Row(f[p][e]))
    BY <2>4, <2>5, FS_Union, Zenon
  <2>7. Cardinality(Rest \cap Row(f[p][e])) = 0
    BY <2>2, FS_EmptySet, Zenon
  <2> QED BY <2>0, <2>1, <2>4, <2>5, <2>6, <2>7
<1> HIDE DEF Rest
<1>2. Cardinality(DescriptorsOf(h, e)) = Cardinality(Rest) + h[p][e] /\ Cardinality(Rest) \in Nat
  BY <1>1, Zenon
<1>3. Cardinality(DescriptorsOf(g, e)) = Cardinality(Rest) + g[p][e]
  BY <1>1, Zenon
<1>4. h[p][e] \in Nat /\ g[p][e] \in Nat
  BY <1>0
<1> QED BY <1>2, <1>3, <1>4

\* Only fork gives a process slot to a new process.
NoneFreed == \A q \in Proc : s'.st[q] = "free" => s.st[q] = "free"

\* The descriptors of an end are a function of the descriptor tables.
LEMMA DescriptorsAre ==
  ASSUME NEW e PROVE Descriptors(e) = DescriptorsOf(hold, e) /\ Descriptors(e)' = DescriptorsOf(hold', e)
BY Zenon DEF Descriptors, DescriptorsOf

\* What the reference counts are, of the state and of the next one.
LEMMA RefsAre ==
  ASSUME PFields, PRefs, NEW e \in End
  PROVE  /\ refs[e] = Cardinality(DescriptorsOf(hold, e)) /\ refs[e] \in Nat
         /\ \A p \in Proc : hold[p][e] \in 0..MaxHold /\ hold[p][e] <= refs[e]
<1>1. hold \in [Proc -> [End -> 0..MaxHold]]
  BY Zenon DEF PFields
<1>2. refs[e] = Cardinality(DescriptorsOf(hold, e))
  BY DescriptorsAre, Zenon DEF PRefs, RefsCountDescriptors
<1>3. /\ Cardinality(DescriptorsOf(hold, e)) \in Nat
      /\ \A p \in Proc : hold[p][e] <= Cardinality(DescriptorsOf(hold, e))
  BY <1>1, DescriptorsFinite, Zenon
<1> QED BY <1>1, <1>2, <1>3, Zenon

\* A call that opens and closes nothing.
LEMMA RefsSame ==
  ASSUME PRefs, UNCHANGED <<hold, refs, freed>>, NoneFreed
  PROVE  PRefs'
<1>1. \A e : Descriptors(e)' = Descriptors(e)
  BY DescriptorsAre, Zenon
<1> QED BY <1>1, Zenon DEF PRefs, RefsCountDescriptors, NoneFreed

\* One process's descriptors change, and the counts by as much.
LEMMA RefsChange ==
  ASSUME PFields, PRefs, NEW p \in Proc, hold' \in [Proc -> [End -> 0..MaxHold]],
         \A q \in Proc, e \in End : q # p => hold'[q][e] = hold[q][e],
         \A e \in End : refs'[e] = refs[e] - hold[p][e] + hold'[p][e],
         freed' <=> \A e \in End : refs'[e] = 0,
         \A e \in End : s'.st[p] = "free" => hold'[p][e] = 0, NoneFreed
  PROVE  PRefs'
<1>1. ASSUME NEW e \in End PROVE refs'[e] = Cardinality(Descriptors(e)')
  <2>1. hold \in [Proc -> [End -> 0..MaxHold]]
    BY Zenon DEF PFields
  <2>2. Cardinality(DescriptorsOf(hold', e)) =
          Cardinality(DescriptorsOf(hold, e)) - hold[p][e] + hold'[p][e]
    BY <2>1, DescriptorsChange, Zenon
  <2> QED BY <2>2, DescriptorsAre, RefsAre, Zenon
<1>2. ASSUME NEW q \in Proc, NEW e \in End, s'.st[q] = "free" PROVE hold'[q][e] = 0
  BY <1>2 DEF PRefs, NoneFreed
<1> QED BY <1>1, <1>2, Zenon DEF PRefs, RefsCountDescriptors

\* pipe_read_close_fn and pipe_write_close_fn.
LEMMA RefsClose ==
  ASSUME PFields, PRefs, NEW p \in Proc, NEW e \in End, hold[p][e] > 0, CloseEnd(p, e),
         s.st[p] # "free", NoneFreed
  PROVE  PRefs'
<1>1. hold \in [Proc -> [End -> 0..MaxHold]] /\ refs \in [End -> Nat] /\ MaxHold \in Nat
  BY PipeAssumption, Zenon DEF PFields
<1>2. /\ hold' = [hold EXCEPT ![p][e] = @ - 1] /\ refs' = [refs EXCEPT ![e] = @ - 1]
      /\ freed' = (LastRef(e) /\ refs[Other(e)] = 0)
  BY Zenon DEF CloseEnd
<1>3. hold' \in [Proc -> [End -> 0..MaxHold]]
  <2>1. hold[p][e] - 1 \in 0..MaxHold
    BY <1>1
  <2> QED BY <1>1, <1>2, <2>1, Zenon
<1>4. \A x \in End : /\ hold'[p][x] = IF x = e THEN hold[p][e] - 1 ELSE hold[p][x]
                     /\ refs'[x] = IF x = e THEN refs[e] - 1 ELSE refs[x]
  BY <1>1, <1>2, Zenon
<1>5. \A q \in Proc, x \in End : q # p => hold'[q][x] = hold[q][x]
  BY <1>1, <1>2, Zenon
<1>6. \A x \in End : refs'[x] = refs[x] - hold[p][x] + hold'[p][x]
  BY <1>1, <1>4
<1>7. freed' <=> \A x \in End : refs'[x] = 0
  <2>1. e # Other(e) /\ Other(e) \in End /\ \A x \in End : x = e \/ x = Other(e)
    BY Zenon DEF End, Other
  <2>2. refs'[e] = 0 <=> LastRef(e)
    BY <1>1, <1>4 DEF LastRef
  <2>3. refs'[Other(e)] = refs[Other(e)]
    BY <1>4, <2>1, Zenon
  <2>4. (\A x \in End : refs'[x] = 0) <=> LastRef(e) /\ refs[Other(e)] = 0
    BY <2>1, <2>2, <2>3, Zenon
  <2> QED BY <1>2, <2>4, Zenon
<1>8. s'.st[p] # "free"
  BY Zenon DEF NoneFreed
<1> QED BY <1>3, <1>5, <1>6, <1>7, <1>8, RefsChange, Zenon

\* The dup hooks.
LEMMA RefsDup ==
  ASSUME PFields, PRefs, NEW p \in Proc, NEW e \in End, Dup(p, e), s.st[p] # "free"
  PROVE  PRefs'
<1>1. hold \in [Proc -> [End -> 0..MaxHold]] /\ refs \in [End -> Nat] /\ MaxHold \in Nat
  BY PipeAssumption, Zenon DEF PFields
<1>2. /\ hold' = [hold EXCEPT ![p][e] = @ + 1] /\ refs' = [refs EXCEPT ![e] = @ + 1]
      /\ freed' = freed /\ s' = s /\ hold[p][e] \in 1..MaxHold - 1
  BY Zenon DEF Dup
<1>3. hold' \in [Proc -> [End -> 0..MaxHold]]
  <2>1. hold[p][e] + 1 \in 0..MaxHold
    BY <1>1, <1>2
  <2> QED BY <1>1, <1>2, <2>1, Zenon
<1>4. \A x \in End : /\ hold'[p][x] = IF x = e THEN hold[p][e] + 1 ELSE hold[p][x]
                     /\ refs'[x] = IF x = e THEN refs[e] + 1 ELSE refs[x]
  BY <1>1, <1>2, Zenon
<1>5. \A q \in Proc, x \in End : q # p => hold'[q][x] = hold[q][x]
  BY <1>1, <1>2, Zenon
<1>6. \A x \in End : refs'[x] = refs[x] - hold[p][x] + hold'[p][x]
  BY <1>1, <1>4
<1>7. freed' <=> \A x \in End : refs'[x] = 0
  <2>1. hold[p][e] <= refs[e]
    BY RefsAre, Zenon
  <2>2. refs[e] # 0 /\ refs'[e] # 0
    BY <1>1, <1>2, <1>4, <2>1
  <2> QED BY <1>2, <2>2, Zenon DEF PRefs, RefsCountDescriptors
<1>8. s'.st[p] # "free" /\ NoneFreed
  BY <1>2, Zenon DEF NoneFreed
<1> QED BY <1>3, <1>5, <1>6, <1>7, <1>8, RefsChange, Zenon

\* fd_table_copy.
LEMMA RefsFork ==
  ASSUME PFields, PRefs, NEW p \in Proc, NEW c \in Proc, s.st[c] = "free", s.st[p] # "free",
         hold' = [hold EXCEPT ![c] = hold[p]], refs' = [e \in End |-> refs[e] + hold[p][e]],
         freed' = freed, s'.st[c] # "free", NoneFreed
  PROVE  PRefs'
<1>1. hold \in [Proc -> [End -> 0..MaxHold]] /\ refs \in [End -> Nat] /\ MaxHold \in Nat
  BY PipeAssumption, Zenon DEF PFields
<1>2. hold' \in [Proc -> [End -> 0..MaxHold]]
  BY <1>1, Zenon
<1>3. \A x \in End : hold[c][x] = 0
  BY Zenon DEF PRefs
<1>4. \A q \in Proc, x \in End : q # c => hold'[q][x] = hold[q][x]
  BY <1>1, Zenon
<1>5. \A x \in End : hold'[c][x] = hold[p][x]
  BY <1>1, Zenon
<1>6. \A x \in End : refs'[x] = refs[x] - hold[c][x] + hold'[c][x]
  <2> TAKE x \in End
  <2>1. hold[p][x] \in Nat /\ refs[x] \in Nat
    BY <1>1
  <2> QED BY <1>3, <1>5, <2>1
<1>7. freed' <=> \A x \in End : refs'[x] = 0
  <2>1. \A x \in End : refs'[x] = 0 <=> refs[x] = 0
    <3> TAKE x \in End
    <3>1. hold[p][x] \in Nat /\ refs[x] \in Nat /\ hold[p][x] <= refs[x]
      BY <1>1, RefsAre
    <3>2. refs'[x] = refs[x] + hold[p][x]
      BY Zenon
    <3> QED BY <3>1, <3>2
  <2> QED BY <2>1, Zenon DEF PRefs, RefsCountDescriptors
<1> QED BY <1>2, <1>4, <1>6, <1>7, RefsChange, Zenon

\* sched_exit's release of the fd table.
LEMMA RefsExit ==
  ASSUME PFields, PRefs, NEW p \in Proc, hold' = [hold EXCEPT ![p] = [e \in End |-> 0]],
         refs' = [e \in End |-> refs[e] - hold[p][e]],
         freed' = \A e \in End : refs[e] = hold[p][e], NoneFreed
  PROVE  PRefs' /\ refs' \in [End -> Nat] /\ hold' \in [Proc -> [End -> 0..MaxHold]]
<1>1. hold \in [Proc -> [End -> 0..MaxHold]] /\ refs \in [End -> Nat] /\ MaxHold \in Nat
  BY PipeAssumption, Zenon DEF PFields
<1>2. hold' \in [Proc -> [End -> 0..MaxHold]]
  BY <1>1
<1>3. \A q \in Proc, x \in End : q # p => hold'[q][x] = hold[q][x]
  BY <1>1, Zenon
<1>4. \A x \in End : hold'[p][x] = 0
  BY <1>1, Zenon
<1>5. \A x \in End : /\ refs'[x] = refs[x] - hold[p][x] /\ refs'[x] \in Nat
                     /\ hold[p][x] \in Nat /\ refs[x] \in Nat
  <2> TAKE x \in End
  <2>1. hold[p][x] \in Nat /\ refs[x] \in Nat /\ hold[p][x] <= refs[x]
    BY <1>1, RefsAre
  <2> QED BY <2>1
<1>6. \A x \in End : refs'[x] = refs[x] - hold[p][x] + hold'[p][x]
  BY <1>4, <1>5
<1>7. freed' <=> \A x \in End : refs'[x] = 0
  BY <1>5
<1>8. PRefs'
  BY <1>2, <1>3, <1>4, <1>6, <1>7, RefsChange, Zenon
<1> QED BY <1>2, <1>5, <1>8, Zenon

-----------------------------------------------------------------------------
(* Waking and blocking on the pipe. *)

\* w is sc with the tasks of W running.
Roused(w, sc, W) ==
  /\ Queue(w, PipeTask, PipeStates) /\ w.cur = sc.cur
  /\ \A u \in PipeTask : w.st[u] = IF u \in W THEN "RUNNING" ELSE sc.st[u]

\* The one blocked reader or writer.
LEMMA WakeOneDoes ==
  ASSUME NEW sc, Queue(sc, PipeTask, PipeStates), NEW t \in Proc \cup {NoTask}
  PROVE  Roused(WakeOne(sc, t), sc, {t})
<1>1. CASE t = NoTask
  <2>1. NoTask \notin PipeTask
    BY PipeAssumption, Zenon DEF PipeTask
  <2> QED BY <1>1, <2>1, Zenon DEF WakeOne, Roused
<1>2. CASE t # NoTask
  <2>1. t \in PipeTask /\ "RUNNING" \in PipeStates
    BY <1>2, Zenon DEF PipeTask, PipeStates
  <2>2. WithState(SchedWake(sc, t), sc, t, "RUNNING", PipeTask, PipeStates) /\ SchedWake(sc, t).cur = sc.cur
    BY <2>1, WakeQueue, Zenon
  <2> QED BY <1>2, <2>2, Zenon DEF WakeOne, WithState, Roused
<1> QED BY <1>1, <1>2, Zenon

\* waitq_wake_all.
LEMMA WakeAllDoes ==
  ASSUME NEW sc, Queue(sc, PipeTask, PipeStates), NEW q \in Seq(Proc)
  PROVE  Roused(WakeAll(sc, q), sc, {u \in Proc : Queued(q, u)})
<1> DEFINE I == 1..Len(q)
<1>1. "RUNNING" \in PipeStates /\ Wakeable(q, I, PipeTask)
  <2>1. Len(q) \in Nat /\ \A n \in 1..Len(q) : q[n] \in Proc
    OBVIOUS
  <2> QED BY <2>1, Zenon DEF PipeStates, Wakeable, PipeTask
<1> HIDE DEF I
<1>2. Woken(SchedWakeEach(sc, q, I), sc, q, I, PipeTask, PipeStates)
  BY <1>1, WakeEachQueue, Zenon
<1>3. \A u \in PipeTask : (\E n \in 1..Len(q) : n \in I /\ q[n] = u) <=> u \in Proc /\ Queued(q, u)
  BY DEF I, Queued
<1> QED BY <1>2, <1>3, Zenon DEF WakeAll, I, Woken, Roused

\* Those who wait at an end: in its slot or in its queue of pollers.
WaitsAt(e) == {waiting[e]} \cup {u \in Proc : Queued(waiters[e], u)}

\* What pipe_read_fn does for the writers, and pipe_write_fn for the readers.
LEMMA WakeEndDoes ==
  ASSUME PFields, PSched, NEW e \in End
  PROVE  Roused(WakeEnd(s, e), s, WaitsAt(e))
<1> DEFINE w == WakeOne(s, waiting[e])
           q == waiters[e]
<1>0. q \in Seq(Proc) /\ waiting[e] \in Proc \cup {NoTask} /\ Queue(s, PipeTask, PipeStates)
  BY Zenon DEF PFields, PSched
<1>1. Roused(w, s, {waiting[e]})
  BY <1>0, WakeOneDoes, Zenon
<1> HIDE DEF w, q
<1>2. Roused(WakeAll(w, q), w, {u \in Proc : Queued(q, u)})
  <2>1. Queue(w, PipeTask, PipeStates)
    BY <1>1, Zenon DEF Roused
  <2> QED BY <1>0, <2>1, WakeAllDoes, Zenon
<1> QED BY <1>1, <1>2, Zenon DEF WakeEnd, w, q, Roused, WaitsAt

\* What a close does for the other end.
LEMMA WakeOnCloseDoes ==
  ASSUME PFields, PSched, NEW e \in End
  PROVE  Roused(WakeOnClose(s, e), s, IF LastRef(e) THEN WaitsAt(Other(e)) ELSE {waiting[Other(e)]})
<1> DEFINE o == Other(e)
<1>0. o \in End
  BY Zenon DEF Other, End
<1>1. CASE LastRef(e)
  <2>1. WakeOnClose(s, e) = WakeEnd(s, o)
    BY <1>1, Zenon DEF WakeOnClose, WakeEnd
  <2> HIDE DEF o
  <2>2. Roused(WakeEnd(s, o), s, WaitsAt(o))
    BY <1>0, WakeEndDoes, Zenon
  <2> QED BY <1>1, <2>1, <2>2, Zenon DEF o
<1>2. CASE ~LastRef(e)
  <2>1. WakeOnClose(s, e) = WakeOne(s, waiting[o])
    BY <1>2, Zenon DEF WakeOnClose
  <2> HIDE DEF o
  <2>2. waiting[o] \in Proc \cup {NoTask} /\ Queue(s, PipeTask, PipeStates)
    BY <1>0, Zenon DEF PFields, PSched
  <2>3. Roused(WakeOne(s, waiting[o]), s, {waiting[o]})
    BY <2>2, WakeOneDoes, Zenon
  <2> QED BY <1>2, <2>1, <2>3, Zenon DEF o
<1> QED BY <1>1, <1>2, Zenon

\* Waking keeps the scheduler's invariant, blocks nobody and frees nobody.
LEMMA RousedDoes ==
  ASSUME PSched, NEW W, Roused(s', s, W)
  PROVE  /\ PSched' /\ NoneFreed
         /\ \A u \in Proc : s'.st[u] = "BLOCKED" => u \notin W /\ s.st[u] = "BLOCKED"
<1>1. IdleTask \in PipeTask /\ Proc \subseteq PipeTask /\ s.cur \in PipeTask
  BY Zenon DEF PipeTask, PSched, Queue
<1>2. PSched'
  BY <1>1, Zenon DEF PSched, Roused, Runs
<1>3. NoneFreed /\ \A u \in Proc : s'.st[u] = "BLOCKED" => u \notin W /\ s.st[u] = "BLOCKED"
  BY <1>1, Zenon DEF Roused, NoneFreed
<1> QED BY <1>2, <1>3, Zenon

\* sched_block, called by the process on the CPU.
LEMMA PipeBlockDoes ==
  ASSUME PSched, NEW p \in Proc, s.cur = p, s' = SchedBlock(s)
  PROVE  /\ PSched' /\ NoneFreed
         /\ \A u \in Proc : s'.st[u] = IF u = p THEN "BLOCKED" ELSE s.st[u]
<1> DEFINE x == "BLOCKED"
<1>1. /\ Queue(s, PipeTask, PipeStates) /\ s.st[IdleTask] = "RUNNING" /\ IdleTask \in PipeTask
      /\ s.cur # IdleTask /\ x \in PipeStates /\ x # "RUNNING" /\ Proc \subseteq PipeTask
      /\ IdleTask # p
  BY PipeAssumption, Zenon DEF PSched, PipeTask, PipeStates
<1> HIDE DEF x
<1>2. WithState(SchedLeave(s, x), s, s.cur, x, PipeTask, PipeStates) /\ Runs(SchedLeave(s, x))
  BY <1>1, LeaveQueue, Zenon
<1>3. WithState(s', s, p, x, PipeTask, PipeStates) /\ Runs(s')
  BY <1>2, Zenon DEF SchedBlock, x
<1>4. \A u \in PipeTask : s'.st[u] = IF u = p THEN "BLOCKED" ELSE s.st[u]
  BY <1>3, Zenon DEF WithState, x
<1>5. PSched'
  BY <1>1, <1>3, <1>4, Zenon DEF PSched, WithState
<1> QED BY <1>1, <1>4, <1>5, Zenon DEF NoneFreed
=============================================================================
