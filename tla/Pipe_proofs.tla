----------------------------- MODULE Pipe_proofs ----------------------------
(***************************************************************************)
(* Proofs about Pipe: every call keeps the invariant of Pipe_lemmas, for   *)
(* any number of processes and descriptors and any size of the ring.       *)
(***************************************************************************)
EXTENDS Pipe_lemmas

\* Nothing that p waits for has changed.
LEMMA WaitsSame ==
  ASSUME NEW p \in Proc, Waits(p), pc'[p] = pc[p], UNCHANGED <<load, count, refs, waiting, waiters>>
  PROVE  Waits(p)'
BY Zenon DEF Waits, OnlyOne, Readers, Writers, Ready

\* A call that returns at once: end of file, or no reader left.
LEMMA DoneInv ==
  ASSUME PInv, UNCHANGED <<load, hold, refs, freed, hung, s, ring, waiting, waiters>>,
         NEW p \in Proc, s.cur = p, Done(p)
  PROVE  PInv'
<1> USE DEF PInv
<1>0. /\ pc' = [pc EXCEPT ![p] = "user"] /\ want' = [want EXCEPT ![p] = 0]
      /\ PIPE_BUF_SIZE \in Nat
  BY PipeAssumption, Zenon DEF Done
<1>1. PFields'
  BY <1>0 DEF PFields, Calls
<1>2. PSched' /\ NoneFreed
  BY Zenon DEF PSched, NoneFreed
<1>3. PRing'
  BY Zenon DEF PRing, ring
<1>4. PRefs'
  BY <1>2, RefsSame, Zenon
<1>5. PWaits'
  <2>1. \A q \in Proc : pc'[q] = IF q = p THEN "user" ELSE pc[q]
    BY <1>0, Zenon DEF PFields
  <2>2. ASSUME NEW q \in Proc, s'.st[q] = "BLOCKED" PROVE Waits(q)'
    <3>1. q # p /\ pc'[q] = pc[q] /\ Waits(q)
      BY <2>1, <2>2, Zenon DEF PSched, Runs, PWaits
    <3>2. UNCHANGED <<load, count, refs, waiting, waiters>>
      BY Zenon DEF ring
    <3> QED BY <3>1, <3>2, WaitsSame, Zenon
  <2>3. \A q \in Proc : (pc'[q] = "read" => q \in Readers') /\ (pc'[q] = "write" => q \in Writers')
    BY <2>1, Zenon DEF PWaits, Readers, Writers
  <2> QED BY <2>2, <2>3, Zenon DEF PWaits
<1> QED BY <1>1, <1>2, <1>3, <1>4, <1>5, Zenon

\* pipe_read_fn.
LEMMA ReadInv ==
  ASSUME PInv, load' = load, NEW p \in Proc, NEW n \in 0..PIPE_BUF_SIZE, s.cur = p, p \in Readers,
         ReadLoop(p, n)
  PROVE  PInv'
<1> USE DEF PInv
<1>0. UNCHANGED <<hold, refs, freed, hung>> /\ PIPE_BUF_SIZE \in Nat /\ count \in Nat /\ s.st[p] = "RUNNING"
  BY PipeAssumption DEF ReadLoop, PRing, PSched, Runs
<1>1. CASE Done(p) /\ UNCHANGED <<s, ring, waiting, waiters>>
  BY <1>0, <1>1, DoneInv, Zenon
<1>2. CASE count = 0 /\ refs["w"] # 0 /\ Sleep(p, "r", "read", n)
  <2>1. /\ waiting' = [waiting EXCEPT !["r"] = p] /\ s' = SchedBlock(s)
        /\ pc' = [pc EXCEPT ![p] = "read"] /\ want' = [want EXCEPT ![p] = n]
        /\ UNCHANGED <<ring, waiters>>
    BY <1>2, Zenon DEF Sleep
  <2>2. /\ PSched' /\ NoneFreed
        /\ \A u \in Proc : s'.st[u] = IF u = p THEN "BLOCKED" ELSE s.st[u]
    BY <2>1, PipeBlockDoes, Zenon
  <2>3. PFields'
    BY <1>0, <2>1, Zenon DEF PFields, Calls
  <2>4. PRing'
    BY <2>1, Zenon DEF PRing, ring
  <2>5. PRefs'
    BY <1>0, <2>2, RefsSame, Zenon
  <2>6. PWaits'
    <3>1. /\ \A q \in Proc : pc'[q] = IF q = p THEN "read" ELSE pc[q]
          /\ waiting'["r"] = p /\ waiting'["w"] = waiting["w"]
      BY <2>1, Zenon DEF PFields, End
    <3>2. Waits(p)'
      <4>1. count' = 0 /\ refs'["w"] > 0
        BY <1>0, <1>2, <2>1 DEF ring, PFields, End
      <4> QED BY <3>1, <4>1, Zenon DEF Waits
    <3>3. ASSUME NEW q \in Proc, q # p, s'.st[q] = "BLOCKED" PROVE Waits(q)'
      <4>1. pc'[q] = pc[q] /\ Waits(q) /\ UNCHANGED <<count, refs, waiters>> /\ waiting'["w"] = waiting["w"]
        BY <1>0, <2>1, <2>2, <3>1, <3>3, Zenon DEF PWaits, ring
      <4>2. ~OnlyOne(q, Readers)
        BY <3>3, Zenon DEF OnlyOne
      <4>3. Readers' = Readers /\ Writers' = Writers
        BY Zenon DEF Readers, Writers
      <4> QED BY <4>1, <4>2, <4>3, Zenon DEF Waits, OnlyOne, Ready
    <3>4. \A q \in Proc : (pc'[q] = "read" => q \in Readers') /\ (pc'[q] = "write" => q \in Writers')
      BY <3>1, Zenon DEF PWaits, Readers, Writers
    <3> QED BY <3>2, <3>3, <3>4, Zenon DEF PWaits
  <2> QED BY <2>2, <2>3, <2>4, <2>5, <2>6, Zenon
<1>3. CASE /\ count # 0
           /\ LET k == Taken(n)
              IN  /\ read_pos' = (read_pos + k) % PIPE_BUF_SIZE
                  /\ count' = count - k
                  /\ nrd' = (nrd + k) % Mod
           /\ s' = WakeEnd(s, "w")
           /\ waiting' = [waiting EXCEPT !["w"] = NoTask]
           /\ Done(p)
           /\ UNCHANGED <<buf, write_pos, nwr, waiters>>
  <2>1. PRing'
    <3> DEFINE k == Taken(n)
    <3>1. k \in 0..count
      BY <1>0 DEF Taken
    <3>2. read_pos' = (read_pos + k) % PIPE_BUF_SIZE /\ count' = count - k /\ nrd' = (nrd + k) % Mod
      BY <1>3, Zenon
    <3> HIDE DEF k
    <3> QED BY <1>3, <3>1, <3>2, RingRead, Zenon
  <2>2. /\ pc' = [pc EXCEPT ![p] = "user"] /\ want' = [want EXCEPT ![p] = 0]
        /\ waiting' = [waiting EXCEPT !["w"] = NoTask] /\ waiters' = waiters
    BY <1>3, Zenon DEF Done
  <2>3. PFields'
    <3>1. waiting' \in [End -> Proc \cup {NoTask}]
      BY <2>2, Zenon DEF PFields
    <3>2. pc' \in [Proc -> Calls] /\ want' \in [Proc -> 0..PIPE_BUF_SIZE]
      BY <1>0, <2>2 DEF PFields, Calls
    <3> QED BY <1>0, <2>2, <3>1, <3>2, Zenon DEF PFields
  <2>4. Roused(s', s, WaitsAt("w"))
    BY <1>3, WakeEndDoes, Zenon DEF End
  <2>5. /\ PSched' /\ NoneFreed
        /\ \A u \in Proc : s'.st[u] = "BLOCKED" => u \notin WaitsAt("w") /\ s.st[u] = "BLOCKED"
    BY <2>4, RousedDoes, Zenon
  <2>6. PRefs'
    BY <1>0, <2>5, RefsSame, Zenon
  <2>7. PWaits'
    <3>1. \A q \in Proc : pc'[q] = IF q = p THEN "user" ELSE pc[q]
      BY <2>2, Zenon DEF PFields
    <3>2. ASSUME NEW q \in Proc, s'.st[q] = "BLOCKED" PROVE Waits(q)'
      <4>1. q # p /\ q \notin WaitsAt("w") /\ Waits(q) /\ pc'[q] = pc[q]
        BY <1>0, <2>5, <3>1, <3>2, Zenon DEF PWaits
      <4>2. /\ pc[q] # "pollw" /\ (pc[q] = "write" => ~OnlyOne(q, Writers))
        BY <4>1, Zenon DEF WaitsAt, Waits
      <4>3. /\ pc[q] # "pollr" /\ (pc[q] = "read" => ~OnlyOne(q, Readers))
        <5>1. count # 0 /\ Ready("r")
          BY <1>0, <1>3 DEF Ready
        <5> QED BY <4>1, <5>1, Zenon DEF Waits
      <4>4. Readers' = Readers /\ Writers' = Writers
        BY Zenon DEF Readers, Writers
      <4> QED BY <4>1, <4>2, <4>3, <4>4, Zenon DEF Waits, OnlyOne
    <3>3. \A q \in Proc : (pc'[q] = "read" => q \in Readers') /\ (pc'[q] = "write" => q \in Writers')
      BY <3>1, Zenon DEF PWaits, Readers, Writers
    <3> QED BY <3>2, <3>3, Zenon DEF PWaits
  <2> QED BY <2>1, <2>3, <2>5, <2>6, <2>7, Zenon
<1> QED BY <1>1, <1>2, <1>3, Zenon DEF ReadLoop

\* pipe_write_fn.
LEMMA WriteInv ==
  ASSUME PInv, load' = load, NEW p \in Proc, NEW n \in 0..PIPE_BUF_SIZE, s.cur = p, p \in Writers,
         WriteLoop(p, n)
  PROVE  PInv'
<1> USE DEF PInv
<1>0. /\ UNCHANGED <<hold, refs, freed, hung>> /\ PIPE_BUF_SIZE \in Nat \ {0} /\ count \in Nat
      /\ s.st[p] = "RUNNING" /\ count <= PIPE_BUF_SIZE
  BY PipeAssumption DEF WriteLoop, PRing, PSched, Runs
<1>1. CASE Done(p) /\ UNCHANGED <<s, ring, waiting, waiters>>
  BY <1>0, <1>1, DoneInv, Zenon
<1>2. CASE refs["r"] # 0 /\ count = PIPE_BUF_SIZE /\ Sleep(p, "w", "write", n)
  <2>1. /\ waiting' = [waiting EXCEPT !["w"] = p] /\ s' = SchedBlock(s)
        /\ pc' = [pc EXCEPT ![p] = "write"] /\ want' = [want EXCEPT ![p] = n]
        /\ UNCHANGED <<ring, waiters>>
    BY <1>2, Zenon DEF Sleep
  <2>2. /\ PSched' /\ NoneFreed
        /\ \A u \in Proc : s'.st[u] = IF u = p THEN "BLOCKED" ELSE s.st[u]
    BY <2>1, PipeBlockDoes, Zenon
  <2>3. PFields'
    BY <1>0, <2>1, Zenon DEF PFields, Calls
  <2>4. PRing'
    BY <2>1, Zenon DEF PRing, ring
  <2>5. PRefs'
    BY <1>0, <2>2, RefsSame, Zenon
  <2>6. PWaits'
    <3>1. /\ \A q \in Proc : pc'[q] = IF q = p THEN "write" ELSE pc[q]
          /\ waiting'["w"] = p /\ waiting'["r"] = waiting["r"]
      BY <2>1, Zenon DEF PFields, End
    <3>2. Waits(p)'
      <4>1. count' = PIPE_BUF_SIZE /\ refs'["r"] > 0
        BY <1>0, <1>2, <2>1 DEF ring, PFields, End
      <4> QED BY <3>1, <4>1, Zenon DEF Waits
    <3>3. ASSUME NEW q \in Proc, q # p, s'.st[q] = "BLOCKED" PROVE Waits(q)'
      <4>1. pc'[q] = pc[q] /\ Waits(q) /\ UNCHANGED <<count, refs, waiters>> /\ waiting'["r"] = waiting["r"]
        BY <1>0, <2>1, <2>2, <3>1, <3>3, Zenon DEF PWaits, ring
      <4>2. ~OnlyOne(q, Writers)
        BY <3>3, Zenon DEF OnlyOne
      <4>3. Readers' = Readers /\ Writers' = Writers
        BY Zenon DEF Readers, Writers
      <4> QED BY <4>1, <4>2, <4>3, Zenon DEF Waits, OnlyOne, Ready
    <3>4. \A q \in Proc : (pc'[q] = "read" => q \in Readers') /\ (pc'[q] = "write" => q \in Writers')
      BY <3>1, Zenon DEF PWaits, Readers, Writers
    <3> QED BY <3>2, <3>3, <3>4, Zenon DEF PWaits
  <2> QED BY <2>2, <2>3, <2>4, <2>5, <2>6, Zenon
<1>3. CASE /\ refs["r"] # 0 /\ count # PIPE_BUF_SIZE
           /\ LET k == Stored(n)
              IN  /\ buf' = Store(k)
                  /\ write_pos' = (write_pos + k) % PIPE_BUF_SIZE
                  /\ count' = count + k
                  /\ nwr' = (nwr + k) % Mod
           /\ s' = WakeEnd(s, "r")
           /\ waiting' = [waiting EXCEPT !["r"] = NoTask]
           /\ Done(p)
           /\ UNCHANGED <<read_pos, nrd, waiters>>
  <2>1. PRing'
    <3> DEFINE k == Stored(n)
    <3>1. k \in 0..PIPE_BUF_SIZE - count
      BY <1>0 DEF Stored
    <3>2. /\ buf' = Store(k) /\ write_pos' = (write_pos + k) % PIPE_BUF_SIZE /\ count' = count + k
          /\ nwr' = (nwr + k) % Mod
      BY <1>3, Zenon
    <3> HIDE DEF k
    <3> QED BY <1>3, <3>1, <3>2, RingWrite, Zenon
  <2>2. /\ pc' = [pc EXCEPT ![p] = "user"] /\ want' = [want EXCEPT ![p] = 0]
        /\ waiting' = [waiting EXCEPT !["r"] = NoTask] /\ waiters' = waiters
    BY <1>3, Zenon DEF Done
  <2>3. PFields'
    <3>1. waiting' \in [End -> Proc \cup {NoTask}]
      BY <2>2, Zenon DEF PFields
    <3>2. pc' \in [Proc -> Calls] /\ want' \in [Proc -> 0..PIPE_BUF_SIZE]
      BY <1>0, <2>2 DEF PFields, Calls
    <3> QED BY <1>0, <2>2, <3>1, <3>2, Zenon DEF PFields
  <2>4. Roused(s', s, WaitsAt("r"))
    BY <1>3, WakeEndDoes, Zenon DEF End
  <2>5. /\ PSched' /\ NoneFreed
        /\ \A u \in Proc : s'.st[u] = "BLOCKED" => u \notin WaitsAt("r") /\ s.st[u] = "BLOCKED"
    BY <2>4, RousedDoes, Zenon
  <2>6. PRefs'
    BY <1>0, <2>5, RefsSame, Zenon
  <2>7. PWaits'
    <3>1. \A q \in Proc : pc'[q] = IF q = p THEN "user" ELSE pc[q]
      BY <2>2, Zenon DEF PFields
    <3>2. ASSUME NEW q \in Proc, s'.st[q] = "BLOCKED" PROVE Waits(q)'
      <4>1. q # p /\ q \notin WaitsAt("r") /\ Waits(q) /\ pc'[q] = pc[q]
        BY <1>0, <2>5, <3>1, <3>2, Zenon DEF PWaits
      <4>2. /\ pc[q] # "pollr" /\ (pc[q] = "read" => ~OnlyOne(q, Readers))
        BY <4>1, Zenon DEF WaitsAt, Waits
      <4>3. /\ pc[q] # "pollw" /\ (pc[q] = "write" => ~OnlyOne(q, Writers))
        <5>1. count # PIPE_BUF_SIZE /\ Ready("w")
          BY <1>0, <1>3 DEF Ready
        <5> QED BY <4>1, <5>1, Zenon DEF Waits
      <4>4. Readers' = Readers /\ Writers' = Writers
        BY Zenon DEF Readers, Writers
      <4> QED BY <4>1, <4>2, <4>3, <4>4, Zenon DEF Waits, OnlyOne
    <3>3. \A q \in Proc : (pc'[q] = "read" => q \in Readers') /\ (pc'[q] = "write" => q \in Writers')
      BY <3>1, Zenon DEF PWaits, Readers, Writers
    <3> QED BY <3>2, <3>3, Zenon DEF PWaits
  <2> QED BY <2>1, <2>3, <2>5, <2>6, <2>7, Zenon
<1> QED BY <1>1, <1>2, <1>3, Zenon DEF WriteLoop

\* waitq_remove takes out one poller's entry and leaves the others.
LEMMA UnqueuedIs ==
  ASSUME NEW q \in Seq(Proc), NEW p \in Proc
  PROVE  /\ Unqueued(q, p) \in Seq(Proc)
         /\ \A u \in Proc : u # p /\ Queued(q, u) => Queued(Unqueued(q, p), u)
<1>1. CASE ~Queued(q, p)
  BY <1>1, Zenon DEF Unqueued
<1>2. CASE Queued(q, p)
  <2> DEFINE i == CHOOSE j \in 1..Len(q) : q[j] = p
             r == Unlinked(q, i)
  <2>1. i \in 1..Len(q) /\ q[i] = p
    BY <1>2, Zenon DEF Queued
  <2>2. Unqueued(q, p) = r
    BY <1>2, Zenon DEF Unqueued
  <2> HIDE DEF i
  <2>3. /\ r \in Seq(Proc) /\ Len(r) = Len(q) - 1
        /\ \A j \in 1..Len(q) - 1 : r[j] = IF j < i THEN q[j] ELSE q[j + 1]
    BY <2>1, UnlinkedIs, Zenon
  <2> HIDE DEF r
  <2>4. ASSUME NEW u \in Proc, u # p, NEW j \in 1..Len(q), q[j] = u PROVE Queued(r, u)
    <3>1. CASE j < i
      BY <2>1, <2>3, <2>4, <3>1 DEF Queued
    <3>2. CASE j > i
      <4>1. j - 1 \in 1..Len(r) /\ r[j - 1] = q[j]
        BY <2>1, <2>3, <3>2
      <4> QED BY <2>4, <4>1, Zenon DEF Queued
    <3> QED BY <2>1, <2>4, <3>1, <3>2
  <2> QED BY <2>2, <2>3, <2>4, Zenon DEF Queued
<1> QED BY <1>1, <1>2, Zenon

\* waitq_add puts an entry before the others.
LEMMA EnqueuedIs ==
  ASSUME NEW q \in Seq(Proc), NEW p \in Proc
  PROVE  /\ <<p>> \o q \in Seq(Proc) /\ Queued(<<p>> \o q, p)
         /\ \A u : Queued(q, u) => Queued(<<p>> \o q, u)
<1> DEFINE r == <<p>> \o q
<1>1. r \in Seq(Proc) /\ Len(r) = 1 + Len(q) /\ r[1] = p
  OBVIOUS
<1>2. \A j \in 1..Len(q) : r[j + 1] = q[j]
  OBVIOUS
<1> HIDE DEF r
<1>3. ASSUME NEW u, NEW j \in 1..Len(q), q[j] = u PROVE Queued(r, u)
  <2>1. j + 1 \in 1..Len(r) /\ r[j + 1] = u
    BY <1>1, <1>2, <1>3
  <2> QED BY <2>1, Zenon DEF Queued
<1>4. Queued(r, p)
  <2>1. 1 \in 1..Len(r)
    BY <1>1
  <2> QED BY <1>1, <2>1, Zenon DEF Queued
<1> QED BY <1>1, <1>3, <1>4, Zenon DEF r, Queued

\* sys_poll.
LEMMA PollInv ==
  ASSUME PInv, load' = load, NEW p \in Proc, NEW e \in End, s.cur = p, NEW q \in Seq(Proc),
         \A u \in Proc : u # p /\ Queued(waiters[e], u) => Queued(q, u), PollLoop(p, e, q)
  PROVE  PInv'
<1> USE DEF PInv
<1>0. /\ UNCHANGED <<want, hold, ring, refs, waiting, freed, hung>> /\ s.st[p] = "RUNNING"
      /\ waiters \in [End -> Seq(Proc)] /\ pc \in [Proc -> Calls]
      /\ count' = count
  BY Zenon DEF PollLoop, PSched, Runs, PFields, ring
<1>1. PRing'
  BY <1>0, Zenon DEF PRing, ring
<1>2. /\ PSched' /\ NoneFreed
      /\ \A u \in Proc : u # p => s'.st[u] = s.st[u]
      /\ s'.st[p] = IF Ready(e) THEN "RUNNING" ELSE "BLOCKED"
  <2>1. CASE Ready(e)
    BY <1>0, <2>1, Zenon DEF PollLoop, PSched, NoneFreed
  <2>2. CASE ~Ready(e)
    <3>1. s' = SchedBlock(s)
      BY <2>2, Zenon DEF PollLoop
    <3> QED BY <2>2, <3>1, PipeBlockDoes, Zenon
  <2> QED BY <2>1, <2>2, Zenon
<1>3. /\ waiters'[e] \in Seq(Proc) /\ waiters' = [waiters EXCEPT ![e] = waiters'[e]]
      /\ \A u \in Proc : u # p /\ Queued(waiters[e], u) => Queued(waiters'[e], u)
      /\ ~Ready(e) => Queued(waiters'[e], p)
  <2>1. CASE Ready(e)
    BY <1>0, <2>1, Zenon DEF PollLoop
  <2>2. CASE ~Ready(e)
    <3> DEFINE r == <<p>> \o q
    <3>1. waiters' = [waiters EXCEPT ![e] = r]
      BY <2>2, Zenon DEF PollLoop
    <3>2. r \in Seq(Proc) /\ Queued(r, p) /\ \A u : Queued(q, u) => Queued(r, u)
      BY EnqueuedIs, Zenon
    <3> HIDE DEF r
    <3> QED BY <1>0, <3>1, <3>2, Zenon
  <2> QED BY <2>1, <2>2, Zenon
<1>4. /\ pc' = [pc EXCEPT ![p] = IF Ready(e) THEN "user" ELSE PollCall(e)]
      /\ PollCall(e) = IF e = "r" THEN "pollr" ELSE "pollw"
  BY Zenon DEF PollLoop, PollCall
<1>5. PFields'
  <2>1. waiters' \in [End -> Seq(Proc)]
    BY <1>0, <1>3, Zenon
  <2>2. pc' \in [Proc -> Calls]
    BY <1>0, <1>4, Zenon DEF Calls
  <2> QED BY <1>0, <2>1, <2>2, Zenon DEF PFields
<1>6. PRefs'
  BY <1>0, <1>2, RefsSame, Zenon
<1>7. PWaits'
  <2>1. /\ \A u \in Proc : pc'[u] = IF u = p THEN IF Ready(e) THEN "user" ELSE PollCall(e) ELSE pc[u]
        /\ \A x \in End : x # e => waiters'[x] = waiters[x]
    BY <1>0, <1>3, <1>4, Zenon
  <2>2. /\ Readers' = Readers /\ Writers' = Writers
        /\ \A x \in End : Ready(x)' = Ready(x)
    BY <1>0, Zenon DEF Readers, Writers, Ready
  <2>3. ASSUME NEW u \in Proc, u # p, s'.st[u] = "BLOCKED" PROVE Waits(u)'
    <3>1. Waits(u) /\ pc'[u] = pc[u]
      BY <1>2, <2>1, <2>3, Zenon DEF PWaits
    <3>2. \A x \in End : Queued(waiters[x], u) => Queued(waiters'[x], u)
      BY <1>3, <2>1, <2>3, Zenon
    <3> QED BY <1>0, <2>2, <3>1, <3>2, Zenon DEF Waits, OnlyOne, End
  <2>4. ASSUME s'.st[p] = "BLOCKED" PROVE Waits(p)'
    <3>1. ~Ready(e) /\ pc'[p] = PollCall(e) /\ Queued(waiters'[e], p)
      BY <1>2, <1>3, <2>1, <2>4, Zenon
    <3>2. ~Ready(e)'
      BY <2>2, <3>1, Zenon
    <3> QED BY <1>4, <3>1, <3>2, Zenon DEF Waits, End
  <2>5. \A u \in Proc : (pc'[u] = "read" => u \in Readers') /\ (pc'[u] = "write" => u \in Writers')
    BY <1>4, <2>1, <2>2 DEF PWaits
  <2> QED BY <2>3, <2>4, <2>5, Zenon DEF PWaits
<1> QED BY <1>1, <1>2, <1>5, <1>6, <1>7, Zenon

\* close.
LEMMA CloseInv ==
  ASSUME PInv, load' = load, NEW p \in Proc, NEW e \in End, Close(p, e)
  PROVE  PInv'
<1> USE DEF PInv
<1>0. /\ s.cur = p /\ hold[p][e] > 0 /\ CloseEnd(p, e) /\ s' = WakeOnClose(s, e)
      /\ UNCHANGED <<pc, want, ring, waiters, hung>> /\ s.st[p] = "RUNNING"
  BY Zenon DEF Close, ProcInUser, PSched, Runs
<1>1. /\ hold \in [Proc -> [End -> 0..MaxHold]] /\ refs \in [End -> Nat]
      /\ waiting \in [End -> Proc \cup {NoTask}]
  BY Zenon DEF PFields
<1>2. /\ hold[p][e] - 1 \in 0..MaxHold /\ refs[e] - 1 \in Nat /\ refs[e] \in Nat
  <2>1. hold[p][e] \in 0..MaxHold /\ hold[p][e] <= refs[e] /\ refs[e] \in Nat
    BY <1>1, RefsAre, Zenon
  <2> QED BY <1>0, <2>1, PipeAssumption
<1>3. /\ hold' = [hold EXCEPT ![p][e] = @ - 1] /\ refs' = [refs EXCEPT ![e] = @ - 1]
      /\ waiting' = [waiting EXCEPT ![Other(e)] = NoTask]
      /\ freed' = (LastRef(e) /\ refs[Other(e)] = 0)
  BY <1>0, Zenon DEF CloseEnd
<1> DEFINE W == IF LastRef(e) THEN WaitsAt(Other(e)) ELSE {waiting[Other(e)]}
<1>4. Roused(s', s, W)
  BY <1>0, WakeOnCloseDoes, Zenon
<1>5. PSched' /\ NoneFreed /\ \A u \in Proc : s'.st[u] = "BLOCKED" => u \notin W /\ s.st[u] = "BLOCKED"
  <2> HIDE DEF W
  <2> QED BY <1>4, RousedDoes, Zenon
<1>6. PRing'
  BY <1>0, Zenon DEF PRing, ring
<1>7. PRefs'
  BY <1>0, <1>5, RefsClose, Zenon
<1>8. PFields'
  <2>1. hold' \in [Proc -> [End -> 0..MaxHold]]
    BY <1>1, <1>2, <1>3, Zenon
  <2>2. refs' \in [End -> Nat]
    BY <1>1, <1>2, <1>3, Zenon
  <2>3. waiting' \in [End -> Proc \cup {NoTask}]
    BY <1>1, <1>3, Zenon
  <2>4. freed' \in BOOLEAN
    BY <1>3, Zenon
  <2> QED BY <1>0, <2>1, <2>2, <2>3, <2>4, Zenon DEF PFields
<1>9. PWaits'
  <2>1. ASSUME NEW q \in Proc, s'.st[q] = "BLOCKED" PROVE Waits(q)'
    <3>1. Waits(q) /\ pc'[q] = pc[q] /\ q \notin W
      BY <1>0, <1>5, <2>1, Zenon DEF PWaits
    <3>2. /\ Other(e) \in End /\ Other(e) # e /\ \A x \in End : x = e \/ x = Other(e)
      BY Zenon DEF End, Other
    <3>3. /\ waiting[Other(e)] # q /\ waiting'[e] = waiting[e]
          /\ LastRef(e) => ~Queued(waiters[Other(e)], q)
      BY <1>1, <1>3, <3>1, <3>2, Zenon DEF WaitsAt
    <3>4. /\ refs'[Other(e)] = refs[Other(e)] /\ (~LastRef(e) => refs'[e] > 0)
          /\ refs'[e] \in Nat
      <4>1. refs'[Other(e)] = refs[Other(e)] /\ refs'[e] = refs[e] - 1
        BY <1>1, <1>3, <3>2, Zenon
      <4>2. refs[e] \in Nat /\ refs[e] >= 1
        BY <1>2
      <4> QED BY <4>1, <4>2 DEF LastRef
    <3>5. Readers' = Readers /\ Writers' = Writers /\ UNCHANGED <<count, waiters>>
      BY <1>0, Zenon DEF Readers, Writers, ring
    <3>6. CASE e = "r"
      <4>1. Other(e) = "w"
        BY <3>6, Zenon DEF Other
      <4>2. /\ waiting["w"] # q /\ waiting'["r"] = waiting["r"] /\ refs'["w"] = refs["w"]
            /\ LastRef("r") => ~Queued(waiters["w"], q)
            /\ ~LastRef("r") => refs'["r"] > 0
        BY <3>3, <3>4, <3>6, <4>1, Zenon
      <4>3. Ready("r")' = Ready("r")
        BY <3>5, <4>2, Zenon DEF Ready
      <4>4. ~LastRef("r") /\ ~Ready("w") => ~Ready("w")'
        BY <3>5, <3>6, <4>2, <3>4 DEF Ready
      <4> QED BY <3>1, <3>5, <4>2, <4>3, <4>4, Zenon DEF Waits, OnlyOne
    <3>7. CASE e = "w"
      <4>1. Other(e) = "r"
        BY <3>7, Zenon DEF Other
      <4>2. /\ waiting["r"] # q /\ waiting'["w"] = waiting["w"] /\ refs'["r"] = refs["r"]
            /\ LastRef("w") => ~Queued(waiters["r"], q)
            /\ ~LastRef("w") => refs'["w"] > 0
        BY <3>3, <3>4, <3>7, <4>1, Zenon
      <4>3. Ready("w")' = Ready("w")
        BY <3>5, <4>2, Zenon DEF Ready
      <4>4. ~LastRef("w") /\ ~Ready("r") => ~Ready("r")'
        BY <3>5, <3>7, <4>2, <3>4 DEF Ready
      <4> QED BY <3>1, <3>5, <4>2, <4>3, <4>4, Zenon DEF Waits, OnlyOne
    <3> QED BY <3>6, <3>7, Zenon DEF End
  <2>2. \A q \in Proc : (pc'[q] = "read" => q \in Readers') /\ (pc'[q] = "write" => q \in Writers')
    BY <1>0, Zenon DEF PWaits, Readers, Writers
  <2> QED BY <2>1, <2>2, Zenon DEF PWaits
<1> QED BY <1>5, <1>6, <1>7, <1>8, <1>9, Zenon

\* Nobody's wait changes when nothing it depends on does.
LEMMA WaitsKept ==
  ASSUME PWaits, UNCHANGED <<load, pc, count, refs, waiting, waiters>>,
         \A u \in Proc : s'.st[u] = "BLOCKED" => s.st[u] = "BLOCKED"
  PROVE  PWaits'
<1>1. ASSUME NEW u \in Proc, s'.st[u] = "BLOCKED" PROVE Waits(u)'
  <2>1. Waits(u)
    BY <1>1, Zenon DEF PWaits
  <2> QED BY <2>1, WaitsSame, Zenon
<1> QED BY <1>1, Zenon DEF PWaits, Readers, Writers

\* A step of the scheduler that leaves the pipe alone: a signal, a tick.
LEMMA SchedInv ==
  ASSUME PInv, UNCHANGED <<load, pc, want, hold, ring, refs, waiting, waiters, freed, hung>>,
         PSched', NoneFreed, \A u \in Proc : s'.st[u] = "BLOCKED" => s.st[u] = "BLOCKED"
  PROVE  PInv'
<1> USE DEF PInv
<1>1. PFields'
  BY Zenon DEF PFields
<1>2. PRing' /\ count' = count
  BY Zenon DEF PRing, ring
<1>3. PRefs'
  BY RefsSame, Zenon
<1>4. PWaits'
  BY <1>2, WaitsKept, Zenon
<1> QED BY <1>1, <1>2, <1>3, <1>4, Zenon

\* A signal to a blocked process.
LEMMA SignalInv ==
  ASSUME PInv, load' = load, NEW p \in Proc, NEW q \in Proc, Signal(p, q)
  PROVE  PInv'
<1> USE DEF PInv
<1>1. q \in PipeTask /\ "RUNNING" \in PipeStates /\ Queue(s, PipeTask, PipeStates)
  BY Zenon DEF PipeTask, PipeStates, PSched
<1>2. WithState(SchedWake(s, q), s, q, "RUNNING", PipeTask, PipeStates) /\ SchedWake(s, q).cur = s.cur
  BY <1>1, WakeQueue, Zenon
<1>3. Roused(s', s, {q})
  BY <1>2, Zenon DEF Signal, WithState, Roused
<1>4. PSched' /\ NoneFreed /\ \A u \in Proc : s'.st[u] = "BLOCKED" => s.st[u] = "BLOCKED"
  BY <1>3, RousedDoes, Zenon
<1> QED BY <1>4, SchedInv, Zenon DEF Signal

\* The timer.
LEMMA TickInv ==
  ASSUME PInv, load' = load, PipeTick
  PROVE  PInv'
<1> USE DEF PInv
<1>1. IdleTask \in PipeTask /\ Queue(s, PipeTask, PipeStates) /\ s.st[IdleTask] = "RUNNING"
  BY Zenon DEF PipeTask, PSched
<1>2. Switched(SchedPreempt(s), s, PipeTask, PipeStates) /\ Runs(SchedPreempt(s))
  BY <1>1, PreemptQueue, Zenon
<1>3. PSched' /\ s'.st = s.st
  BY <1>1, <1>2, Zenon DEF PipeTick, Switched, PSched
<1> QED BY <1>3, SchedInv, Zenon DEF PipeTick, NoneFreed

\* dup and dup2.
LEMMA DupInv ==
  ASSUME PInv, load' = load, NEW p \in Proc, NEW e \in End, Dup(p, e)
  PROVE  PInv'
<1> USE DEF PInv
<1>0. /\ s.st[p] = "RUNNING" /\ hold[p][e] \in 1..MaxHold - 1 /\ MaxHold \in Nat
      /\ hold' = [hold EXCEPT ![p][e] = @ + 1] /\ refs' = [refs EXCEPT ![e] = @ + 1]
      /\ UNCHANGED <<s, pc, want, ring, waiting, waiters, freed, hung>>
  BY PipeAssumption, Zenon DEF Dup, ProcInUser, PSched, Runs
<1>1. PRefs'
  BY <1>0, RefsDup, Zenon
<1>2. PFields'
  <2>1. hold[p][e] + 1 \in 0..MaxHold
    BY <1>0
  <2>2. hold' \in [Proc -> [End -> 0..MaxHold]]
    BY <1>0, <2>1, Zenon DEF PFields
  <2>3. refs' \in [End -> Nat]
    BY <1>0 DEF PFields
  <2> QED BY <1>0, <2>2, <2>3, Zenon DEF PFields
<1>3. PSched' /\ PRing' /\ count' = count
  BY <1>0, Zenon DEF PSched, PRing, ring
<1>4. PWaits'
  <2>1. refs[e] # 0 /\ refs[e] \in Nat
    BY <1>0, RefsAre
  <2>2. \A x \in End : (refs'[x] = 0 <=> refs[x] = 0) /\ (refs[x] > 0 => refs'[x] > 0)
    BY <1>0, <2>1 DEF PFields
  <2>3. \A x \in End : Ready(x)' = Ready(x)
    BY <1>3, <2>2, Zenon DEF Ready, End
  <2>4. ASSUME NEW u \in Proc, s'.st[u] = "BLOCKED" PROVE Waits(u)'
    <3>1. Waits(u)
      BY <1>0, <2>4, Zenon DEF PWaits
    <3> QED BY <1>0, <1>3, <2>2, <2>3, <3>1, Zenon DEF Waits, OnlyOne, Readers, Writers, End
  <2> QED BY <1>0, <2>4, Zenon DEF PWaits, Readers, Writers
<1> QED BY <1>1, <1>2, <1>3, <1>4, Zenon

\* fork.
LEMMA ForkInv ==
  ASSUME PInv, load' = load, NEW p \in Proc, NEW c \in Proc, Fork(p, c)
  PROVE  PInv'
<1> USE DEF PInv
<1>0. /\ s.st[p] = "RUNNING" /\ s.st[c] = "free" /\ MaxHold \in Nat
      /\ hold' = [hold EXCEPT ![c] = hold[p]] /\ refs' = [e \in End |-> refs[e] + hold[p][e]]
      /\ s' = SchedAdd(s, c)
      /\ UNCHANGED <<pc, want, ring, waiting, waiters, freed, hung>>
  BY PipeAssumption, Zenon DEF Fork, ProcInUser, PSched, Runs
<1>1. c \in PipeTask /\ "RUNNING" \in PipeStates /\ Queue(s, PipeTask, PipeStates)
  BY Zenon DEF PipeTask, PipeStates, PSched
<1>2. WithState(SchedWake(s, c), s, c, "RUNNING", PipeTask, PipeStates) /\ SchedWake(s, c).cur = s.cur
  BY <1>1, WakeQueue, Zenon
<1>3. Roused(s', s, {c})
  BY <1>0, <1>2, Zenon DEF SchedAdd, SchedWake, WithState, Roused
<1>4. PSched' /\ NoneFreed /\ \A u \in Proc : s'.st[u] = "BLOCKED" => s.st[u] = "BLOCKED"
  BY <1>3, RousedDoes, Zenon
<1>5. s'.st[c] # "free"
  BY <1>1, <1>3, Zenon DEF Roused
<1>6. PRefs'
  BY <1>0, <1>4, <1>5, RefsFork, Zenon
<1>7. \A x \in End : /\ refs[x] \in Nat /\ hold[p][x] \in Nat /\ refs'[x] = refs[x] + hold[p][x]
                     /\ hold[p][x] <= refs[x]
  <2> TAKE x \in End
  <2>1. refs[x] \in Nat /\ hold[p][x] \in 0..MaxHold /\ hold[p][x] <= refs[x]
    BY RefsAre, Zenon
  <2> QED BY <1>0, <2>1
<1>8. PFields'
  <2>1. hold' \in [Proc -> [End -> 0..MaxHold]]
    BY <1>0, Zenon DEF PFields
  <2>2. refs' \in [End -> Nat]
    BY <1>0, <1>7
  <2> QED BY <1>0, <2>1, <2>2, Zenon DEF PFields
<1>9. PRing' /\ count' = count
  BY <1>0, Zenon DEF PRing, ring
<1>10. PWaits'
  <2>1. \A x \in End : (refs'[x] = 0 <=> refs[x] = 0) /\ (refs[x] > 0 => refs'[x] > 0)
    BY <1>7
  <2>2. \A x \in End : Ready(x)' = Ready(x)
    BY <1>9, <2>1, Zenon DEF Ready, End
  <2>3. ASSUME NEW u \in Proc, s'.st[u] = "BLOCKED" PROVE Waits(u)'
    <3>1. Waits(u)
      BY <1>4, <2>3, Zenon DEF PWaits
    <3> QED BY <1>0, <1>9, <2>1, <2>2, <3>1, Zenon DEF Waits, OnlyOne, Readers, Writers, End
  <2> QED BY <1>0, <2>3, Zenon DEF PWaits, Readers, Writers
<1> QED BY <1>4, <1>6, <1>8, <1>9, <1>10, Zenon

\* sched_exit: the descriptors go when nobody has to be woken for it; when
\* somebody has, the CPU stops there.
LEMMA ExitInv ==
  ASSUME PInv, load' = load, NEW p \in Proc, ExitProc(p)
  PROVE  PInv'
<1> USE DEF PInv
<1>0. /\ s.cur = p /\ pc[p] = "user" /\ s.st[p] = "RUNNING"
      /\ UNCHANGED <<pc, want, ring, waiting, waiters>> /\ count' = count
  BY Zenon DEF ExitProc, ProcInUser, PSched, Runs, ring
<1>1. CASE WakesOnExit(p)
  <2>1. hung' = TRUE /\ UNCHANGED <<s, hold, refs, freed>>
    BY <1>1, Zenon DEF ExitProc
  <2>2. PFields' /\ PSched' /\ PRing' /\ NoneFreed
    BY <1>0, <2>1, Zenon DEF PFields, PSched, PRing, ring, NoneFreed
  <2>3. PRefs'
    BY <2>1, <2>2, RefsSame, Zenon
  <2>4. PWaits'
    BY <1>0, <2>1, WaitsKept, Zenon
  <2> QED BY <2>2, <2>3, <2>4, Zenon
<1>2. CASE ~WakesOnExit(p)
  <2>1. /\ hold' = [hold EXCEPT ![p] = [e \in End |-> 0]]
        /\ refs' = [e \in End |-> refs[e] - hold[p][e]]
        /\ freed' = \A e \in End : refs[e] = hold[p][e]
        /\ s' = SchedYieldToNext(SchedZombie(s)) /\ hung' = hung
    BY <1>2, Zenon DEF ExitProc
  <2>2. /\ PSched' /\ NoneFreed /\ s'.st[p] = "ZOMBIE"
        /\ \A u \in Proc : s'.st[u] = "BLOCKED" => s.st[u] = "BLOCKED"
    <3> DEFINE z == SchedZombie(s)
    <3>1. /\ Queue(s, PipeTask, PipeStates) /\ "ZOMBIE" \in PipeStates /\ p \in PipeTask
          /\ IdleTask \in PipeTask /\ IdleTask # p /\ s.st[IdleTask] = "RUNNING" /\ Proc \subseteq PipeTask
      BY PipeAssumption, Zenon DEF PSched, PipeStates, PipeTask
    <3>2. WithState(z, s, s.cur, "ZOMBIE", PipeTask, PipeStates) /\ z.cur = s.cur
      BY <3>1, ZombieQueue, Zenon
    <3> HIDE DEF z
    <3>3. Queue(z, PipeTask, PipeStates) /\ z.st[IdleTask] = "RUNNING"
      BY <1>0, <3>1, <3>2, Zenon DEF WithState
    <3>4. Switched(SchedYieldToNext(z), z, PipeTask, PipeStates) /\ Runs(SchedYieldToNext(z))
      BY <3>1, <3>3, YieldQueue, Zenon
    <3>5. Queue(s', PipeTask, PipeStates) /\ Runs(s') /\ s'.st = z.st
      BY <2>1, <3>4, Zenon DEF z, Switched
    <3>6. \A u \in PipeTask : s'.st[u] = IF u = p THEN "ZOMBIE" ELSE s.st[u]
      BY <1>0, <3>2, <3>5, Zenon DEF WithState
    <3>7. PSched'
      BY <3>1, <3>5, <3>6, Zenon DEF PSched
    <3> QED BY <1>0, <3>1, <3>6, <3>7, Zenon DEF NoneFreed
  <2>3. PRefs' /\ refs' \in [End -> Nat] /\ hold' \in [Proc -> [End -> 0..MaxHold]]
    BY <2>1, <2>2, RefsExit, Zenon
  <2>4. PFields' /\ PRing'
    <3>1. freed' \in BOOLEAN
      BY <2>1, Zenon
    <3> QED BY <1>0, <2>1, <2>3, <3>1, Zenon DEF PFields, PRing, ring
  <2>5. PWaits'
    <3>1. \A x \in End : /\ refs[x] \in Nat /\ hold[p][x] \in Nat /\ refs'[x] = refs[x] - hold[p][x]
                         /\ hold[p][x] <= refs[x]
      <4> TAKE x \in End
      <4>1. refs[x] \in Nat /\ hold[p][x] \in 0..MaxHold /\ hold[p][x] <= refs[x] /\ MaxHold \in Nat
        BY RefsAre, PipeAssumption, Zenon
      <4> QED BY <2>1, <4>1
    <3>2. \A x \in End : waiting[Other(x)] # NoTask => refs'[x] = refs[x]
      BY <1>2, <3>1 DEF WakesOnExit, Holds
    <3>3. \A x \in End : waiters[Other(x)] # <<>> /\ refs[x] > 0 => refs'[x] > 0
      BY <1>2, <3>1 DEF WakesOnExit, Holds, LastOf
    <3>4. /\ waiting["r"] # NoTask => refs'["w"] = refs["w"]
          /\ waiting["w"] # NoTask => refs'["r"] = refs["r"]
          /\ waiters["r"] # <<>> /\ refs["w"] > 0 => refs'["w"] > 0
          /\ waiters["w"] # <<>> /\ refs["r"] > 0 => refs'["r"] > 0
      BY <3>2, <3>3, Zenon DEF Other, End
    <3>5. \A x : Queued(<<>>, x) <=> FALSE
      BY DEF Queued
    <3>6. ASSUME NEW u \in Proc, s'.st[u] = "BLOCKED" PROVE Waits(u)'
      <4>1. Waits(u) /\ u # NoTask
        BY <2>2, <3>6, PipeAssumption, Zenon DEF PWaits
      <4>2. /\ pc[u] = "pollr" => Queued(waiters["r"], u) /\ ~Ready("r")'
            /\ pc[u] = "pollw" => Queued(waiters["w"], u) /\ ~Ready("w")'
        <5>1. /\ ~Ready("r") => refs["w"] > 0 /\ ~(count > 0)
              /\ ~Ready("w") => refs["r"] > 0 /\ ~(count < PIPE_BUF_SIZE)
          BY <3>1 DEF Ready, End
        <5>2. /\ refs'["w"] > 0 /\ ~(count > 0) => ~Ready("r")'
              /\ refs'["r"] > 0 /\ ~(count < PIPE_BUF_SIZE) => ~Ready("w")'
          BY <1>0, <3>1 DEF Ready, End
        <5> QED BY <3>4, <3>5, <4>1, <5>1, <5>2, Zenon DEF Waits
      <4> QED BY <1>0, <3>4, <4>1, <4>2, Zenon DEF Waits, OnlyOne, Readers, Writers
    <3> QED BY <1>0, <3>6, Zenon DEF PWaits, Readers, Writers
  <2> QED BY <2>2, <2>3, <2>4, <2>5, Zenon
<1> QED BY <1>1, <1>2, Zenon

\* pipe_create: an empty ring with one descriptor of each end.
LEMMA PipeInitInv == PipeInit => PInv
<1> SUFFICES ASSUME PipeInit PROVE PInv
  BY Zenon
<1>0. /\ Creator \in Proc /\ IdleTask \notin Proc /\ PIPE_BUF_SIZE \in Nat \ {0}
      /\ Mod \in Nat /\ Mod > PIPE_BUF_SIZE /\ MaxHold \in Nat \ {0}
  BY PipeAssumption, Zenon
<1>1. PFields
  <2>1. load \in Loads /\ pc \in [Proc -> Calls] /\ freed \in BOOLEAN /\ hung \in BOOLEAN
    BY Zenon DEF PipeInit, Calls
  <2>2. want \in [Proc -> 0..PIPE_BUF_SIZE] /\ refs \in [End -> Nat]
    BY <1>0 DEF PipeInit
  <2>3. hold \in [Proc -> [End -> 0..MaxHold]]
    BY <1>0 DEF PipeInit
  <2>4. waiting \in [End -> Proc \cup {NoTask}] /\ waiters \in [End -> Seq(Proc)]
    BY DEF PipeInit
  <2> QED BY <2>1, <2>2, <2>3, <2>4, Zenon DEF PFields
<1>2. PSched
  <2>1. s \in [st : [PipeTask -> PipeStates], rq : Seq(PipeTask), cur : PipeTask]
    BY <1>0 DEF PipeInit, PipeTask, PipeStates
  <2>2. /\ Len(s.rq) = 2 /\ s.rq[1] = IdleTask /\ s.rq[2] = Creator /\ s.cur = Creator
        /\ \A t \in PipeTask : s.st[t] = "RUNNING" <=> t \in {IdleTask, Creator}
    BY Zenon DEF PipeInit
  <2>3. \A i, j \in 1..2 : s.rq[i] = s.rq[j] => i = j
    BY <1>0, <2>2
  <2>4. \A t : Queued(s.rq, t) <=> t \in {IdleTask, Creator}
    BY <2>2 DEF Queued
  <2>5. IdleTask \in PipeTask /\ Creator \in PipeTask
    BY <1>0, Zenon DEF PipeTask
  <2> QED BY <2>1, <2>2, <2>3, <2>4, <2>5, Zenon DEF PSched, Queue, Runs
<1>3. PRing
  BY <1>0 DEF PipeInit, PRing
<1>4. PRefs
  <2> DEFINE none == [p \in Proc |-> [e \in End |-> 0]]
  <2>1. hold \in [Proc -> [End -> 0..MaxHold]] /\ none \in [Proc -> [End -> 0..MaxHold]]
    BY <1>0, <1>1 DEF PFields
  <2>2. ASSUME NEW e \in End PROVE refs[e] = Cardinality(Descriptors(e))
    <3>1. /\ \A q \in Proc : q # Creator => hold[q][e] = none[q][e]
          /\ hold[Creator][e] = 1 /\ none[Creator][e] = 0 /\ refs[e] = 1
      BY <1>0, Zenon DEF PipeInit
    <3>2. DescriptorsOf(none, e) = {}
      BY <1>0 DEF DescriptorsOf
    <3> HIDE DEF none
    <3> DEFINE h == hold
    <3>3. h \in [Proc -> [End -> 0..MaxHold]] /\ \A q \in Proc : q # Creator => h[q][e] = none[q][e]
      BY <2>1, <3>1, Zenon
    <3> HIDE DEF h
    <3>4. Creator \in Proc
      BY <1>0, Zenon
    <3>5. Cardinality(DescriptorsOf(h, e)) =
            Cardinality(DescriptorsOf(none, e)) - none[Creator][e] + h[Creator][e]
      BY <2>1, <3>3, <3>4, DescriptorsChange, Zenon
    <3>6. Cardinality(DescriptorsOf(hold, e)) =
            Cardinality(DescriptorsOf(none, e)) - none[Creator][e] + hold[Creator][e]
      BY <3>5, Zenon DEF h
    <3> QED BY <3>1, <3>2, <3>6, FS_EmptySet, DescriptorsAre
  <2>3. freed <=> \A e \in End : refs[e] = 0
    BY DEF PipeInit, End
  <2>4. \A p \in Proc, e \in End : s.st[p] = "free" => hold[p][e] = 0
    BY Zenon DEF PipeInit, PipeTask
  <2> QED BY <2>2, <2>3, <2>4, Zenon DEF PRefs, RefsCountDescriptors
<1>5. PWaits
  BY Zenon DEF PipeInit, PWaits, PipeTask
<1> QED BY <1>1, <1>2, <1>3, <1>4, <1>5, Zenon DEF PInv

\* Every step keeps the invariant.
LEMMA PipeStepInv == PInv /\ [PipeNext]_pipeVars => PInv'
<1> SUFFICES ASSUME PInv, [PipeNext]_pipeVars PROVE PInv'
  BY Zenon
<1>0. /\ PIPE_BUF_SIZE \in Nat /\ \A n \in 1..PIPE_BUF_SIZE : n \in 0..PIPE_BUF_SIZE
      /\ \A p \in Proc : want[p] \in 0..PIPE_BUF_SIZE
      /\ waiters \in [End -> Seq(Proc)]
  BY PipeAssumption DEF PInv, PFields
<1>1. CASE UNCHANGED pipeVars
  <2>1. UNCHANGED <<load, pc, want, hold, ring, refs, waiting, waiters, freed, hung, s>>
    BY <1>1, Zenon DEF pipeVars
  <2>2. PSched' /\ NoneFreed /\ \A u \in Proc : s'.st[u] = "BLOCKED" => s.st[u] = "BLOCKED"
    BY <2>1, Zenon DEF PInv, PSched, NoneFreed
  <2> QED BY <2>1, <2>2, SchedInv, Zenon
<1>2. ASSUME load' = load, NEW p \in Proc, NEW n \in 1..PIPE_BUF_SIZE, Read(p, n) PROVE PInv'
  BY <1>0, <1>2, ReadInv, Zenon DEF Read, ProcInUser
<1>3. ASSUME load' = load, NEW p \in Proc, NEW n \in 1..PIPE_BUF_SIZE, Write(p, n) PROVE PInv'
  BY <1>0, <1>3, WriteInv, Zenon DEF Write, ProcInUser
<1>4. ASSUME load' = load, NEW p \in Proc, ReadRetry(p) PROVE PInv'
  <2>1. p \in Readers
    BY <1>4, Zenon DEF ReadRetry, In, PInv, PWaits
  <2> QED BY <1>0, <1>4, <2>1, ReadInv, Zenon DEF ReadRetry, In
<1>5. ASSUME load' = load, NEW p \in Proc, WriteRetry(p) PROVE PInv'
  <2>1. p \in Writers
    BY <1>5, Zenon DEF WriteRetry, In, PInv, PWaits
  <2> QED BY <1>0, <1>5, <2>1, WriteInv, Zenon DEF WriteRetry, In
<1>6. ASSUME load' = load, NEW p \in Proc, NEW e \in End, Poll(p, e) PROVE PInv'
  <2>1. waiters[e] \in Seq(Proc)
    BY <1>0, Zenon
  <2> QED BY <1>6, <2>1, PollInv, Zenon DEF Poll, ProcInUser
<1>7. ASSUME load' = load, NEW p \in Proc, NEW e \in End, PollRetry(p, e) PROVE PInv'
  <2> DEFINE q == Unqueued(waiters[e], p)
  <2>1. waiters[e] \in Seq(Proc)
    BY <1>0, Zenon
  <2>2. q \in Seq(Proc) /\ \A u \in Proc : u # p /\ Queued(waiters[e], u) => Queued(q, u)
    BY <2>1, UnqueuedIs, Zenon
  <2>3. s.cur = p /\ PollLoop(p, e, q)
    BY <1>7, Zenon DEF PollRetry, In
  <2> HIDE DEF q
  <2> QED BY <1>7, <2>2, <2>3, PollInv, Zenon
<1> QED BY <1>1, <1>2, <1>3, <1>4, <1>5, <1>6, <1>7, CloseInv, DupInv, ForkInv, ExitInv,
           SignalInv, TickInv, Zenon DEF PipeNext

-----------------------------------------------------------------------------
\* The invariant holds of every behaviour of the pipe.
THEOREM PipeInvariant == PipeSpec => []PInv
BY PipeInitInv, PipeStepInv, PTL DEF PipeSpec

\* pipe_read_fn and pipe_write_fn: whatever the size of the ring, it holds the
\* bytes written and not yet read, in order.
THEOREM PipeStream == PipeSpec => []StreamIntact
<1>1. PInv => StreamIntact
  <2> SUFFICES ASSUME PInv PROVE StreamIntact
    BY Zenon
  <2>1. s.st \in [PipeTask -> PipeStates] /\ s.rq \in Seq(PipeTask) /\ s.cur \in PipeTask
    BY Zenon DEF PInv, PSched, Queue
  <2>2. refs \in [End -> 0..MaxHold * Cardinality(Proc)]
    <3>1. hold \in [Proc -> [End -> 0..MaxHold]] /\ refs \in [End -> Nat]
      BY Zenon DEF PInv, PFields
    <3>2. ASSUME NEW e \in End PROVE refs[e] \in 0..MaxHold * Cardinality(Proc)
      <4>1. refs[e] = Cardinality(DescriptorsOf(hold, e)) /\ refs[e] \in Nat
        BY RefsAre, Zenon DEF PInv
      <4>2. Cardinality(DescriptorsOf(hold, e)) <= MaxHold * Cardinality(Proc)
        BY <3>1, DescriptorsFinite, Zenon
      <4>3. MaxHold * Cardinality(Proc) \in Nat
        BY PipeAssumption, FS_CardinalityType
      <4> QED BY <4>1, <4>2, <4>3
    <3> QED BY <3>1, <3>2, Zenon
  <2>3. PipeTypeOK
    BY <2>1, <2>2, Zenon DEF PInv, PFields, PRing, PipeTypeOK, PipeStates, Calls
  <2> QED BY <2>3, Zenon DEF PInv, PRing, StreamIntact
<1> QED BY <1>1, PipeInvariant, PTL

\* sched_wake and waitq_wake_all in pipe.c: however many processes share the
\* pipe, no reader, writer or poller sleeps through what it waits for.
THEOREM PipeNobodyForgotten == PipeSpec => []NobodyForgotten
<1>1. PInv => NobodyForgotten
  BY Zenon DEF PInv, PFields, PWaits, Waits, NobodyForgotten, Calls
<1> QED BY <1>1, PipeInvariant, PTL

\* The dup and close hooks and the copy and release of fd tables: read_refs and
\* write_refs are the numbers of open descriptors.
THEOREM PipeRefsCount == PipeSpec => []RefsCountDescriptors
<1>1. PInv => RefsCountDescriptors
  BY Zenon DEF PInv, PRefs
<1> QED BY <1>1, PipeInvariant, PTL
=============================================================================
