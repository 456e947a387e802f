-------------------------------- MODULE Epoll --------------------------------
(***************************************************************************)
(* epoll (net/epoll.c and its system calls in syscall/sys_socket.c):       *)
(* watches, the ready list, epoll_notify from the interrupt that handles   *)
(* segments, and epoll_wait with its deadline, its sweep over descriptors  *)
(* that can be polled, and its entries in their wait queues.               *)
(*                                                                         *)
(* A descriptor is a "file", with a poll operation (a pipe, a terminal, an *)
(* AF_UNIX socket), or "inet", known to epoll_notify by its socket number. *)
(* The threads of one process use one descriptor table.                    *)
(***************************************************************************)
EXTENDS Integers, Sequences, SequencesExt, FiniteSets

CONSTANTS EThread, EFd, EPOLL_MAX_INSTANCES, EPOLL_MAX_WATCHES

Instance == 0..EPOLL_MAX_INSTANCES - 1
Watch == 0..EPOLL_MAX_WATCHES - 1
Forever == -1          \* a timeout of 0xFFFFFFFF
NoOne == "nobody"

VARIABLES
  load,
  ep,                  \* s_epoll
  eready,              \* what each descriptor is ready for
  eopen,               \* the descriptors that are open
  epc, earg, eblocked, \* the call of each thread, its arguments, who sleeps
  ereg,                \* the wait queues a sleeping thread is in, with the events it waits for
  eold                 \* ghost: instances in which a watch was deleted that was in the ready list

epollVars == <<ep, eready, eopen, epc, earg, eblocked, ereg, eold>>
ecalls == <<epc, earg, eblocked, ereg>>

NoWatch == [in_use |-> FALSE, fd |-> 0, events |-> {}, et |-> FALSE]
NoInstance == [in_use |-> FALSE, watches |-> [w \in Watch |-> NoWatch], nwatches |-> 0,
               waiter |-> NoOne, ready |-> <<>>]
NoWait == [ep |-> 0, max |-> 0, left |-> Forever]

EpollInit ==
  /\ ep = [e \in Instance |-> NoInstance]
  /\ eready = [f \in EFd |-> {}] /\ eopen = EFd
  /\ epc = [p \in EThread |-> "user"] /\ earg = [p \in EThread |-> NoWait]
  /\ eblocked = {} /\ ereg = [p \in EThread |-> {}]
  /\ eold = {}

ERunning(p) == p \in load.threads /\ p \notin eblocked
ECall(p, c) == ERunning(p) /\ epc[p] = "user" /\ c \in load.calls

-----------------------------------------------------------------------------
\* epoll_alloc clears the slot it takes; epoll_free only marks it free.
ECreate(p) ==
  /\ ECall(p, "create")
  /\ LET free == {e \in Instance : ~ep[e].in_use}
         e == CHOOSE x \in free : \A y \in free : x <= y
     IN  /\ free # {}
         /\ ep' = [ep EXCEPT ![e] = [NoInstance EXCEPT !.in_use = TRUE]]
         /\ eold' = eold \ {e}
  /\ UNCHANGED <<eready, eopen, ecalls>>

EFree(p, e) ==
  /\ ECall(p, "free") /\ ep[e].in_use
  /\ ep' = [ep EXCEPT ![e].in_use = FALSE]
  /\ UNCHANGED <<eready, eopen, ecalls, eold>>

InUse(e) == {w \in Watch : ep[e].watches[w].in_use}
On(e, f) == {w \in InUse(e) : ep[e].watches[w].fd = f}
First(S) == CHOOSE w \in S : \A v \in S : w <= v

Mut_EAdd(p, e, f, ev, et) ==
  /\ ECall(p, "add") /\ ep[e].in_use /\ f \in eopen
  /\ ep[e].nwatches < EPOLL_MAX_WATCHES
  /\ ep' = [ep EXCEPT ![e].watches[First(Watch \ InUse(e))] = [in_use |-> TRUE, fd |-> f, events |-> ev, et |-> et],
                      ![e].nwatches = @ + 1]
  /\ UNCHANGED <<eready, eopen, ecalls, eold>>
\* epoll_ctl_impl.  Descriptors are not looked up: any number can be added.
EAdd(p, e, f, ev, et) ==
  /\ ECall(p, "add") /\ ep[e].in_use /\ f \in eopen
  /\ ep[e].nwatches < EPOLL_MAX_WATCHES /\ On(e, f) = {}
  /\ ep' = [ep EXCEPT ![e].watches[First(Watch \ InUse(e))] = [in_use |-> TRUE, fd |-> f, events |-> ev, et |-> et],
                      ![e].nwatches = @ + 1]
  /\ UNCHANGED <<eready, eopen, ecalls, eold>>

EDel(p, e, f) ==
  /\ ECall(p, "del") /\ ep[e].in_use /\ On(e, f) # {}
  /\ LET w == First(On(e, f))
     IN  /\ ep' = [ep EXCEPT ![e].watches[w].in_use = FALSE, ![e].nwatches = @ - 1]
         /\ eold' = IF w \in Range(ep[e].ready) THEN eold \cup {e} ELSE eold
  /\ UNCHANGED <<eready, eopen, ecalls>>

EMod(p, e, f, ev, et) ==
  /\ ECall(p, "mod") /\ ep[e].in_use /\ On(e, f) # {}
  /\ ep' = [ep EXCEPT ![e].watches[First(On(e, f))] = [@ EXCEPT !.events = ev, !.et = et]]
  /\ UNCHANGED <<eready, eopen, ecalls, eold>>

-----------------------------------------------------------------------------
\* Watches W, in the order of their slots, behind what is in the list already.
Queued(list, W) ==
  LET slots == [i \in 1..EPOLL_MAX_WATCHES |-> i - 1]
  IN  list \o SelectSeq(slots, LAMBDA w : w \in W /\ w \notin Range(list))

\* The sweep of epoll_wait.
Polled(e) ==
  {w \in InUse(e) : LET x == ep[e].watches[w]
                    IN  x.fd \in eopen /\ load.kind[x.fd] = "file" /\ eready[x.fd] \cap x.events # {}}

\* The delivery loop: the first max entries are reported, and of these the
\* edge-triggered ones leave the list.
Delivered(e, list, max) ==
  LET limit == IF Len(list) < max THEN Len(list) ELSE max
  IN  SelectSeq(SubSeq(list, 1, limit), LAMBDA w : ~ep[e].watches[w].et) \o SubSeq(list, limit + 1, Len(list))

\* One round of epoll_wait_impl, up to sched_block.
WaitLoop(p, a) ==
  LET e == a.ep
      list == Queued(ep[e].ready, Polled(e))
  IN  /\ IF list # <<>> \/ a.left = 0
           THEN /\ ep' = [ep EXCEPT ![e].ready = Delivered(e, list, a.max)]
                /\ epc' = [epc EXCEPT ![p] = "user"] /\ earg' = [earg EXCEPT ![p] = NoWait]
                /\ ereg' = [ereg EXCEPT ![p] = {}] /\ UNCHANGED eblocked
           ELSE /\ ep' = [ep EXCEPT ![e].waiter = p]
                /\ epc' = [epc EXCEPT ![p] = "wait"] /\ earg' = [earg EXCEPT ![p] = a]
                /\ ereg' = [ereg EXCEPT ![p] = {[fd |-> ep[e].watches[w].fd, events |-> ep[e].watches[w].events] :
                                                 w \in {v \in InUse(e) : ep[e].watches[v].fd \in eopen}}]
                /\ eblocked' = eblocked \cup {p}
      /\ UNCHANGED <<eready, eopen, eold>>

EWait(p, e, max, left) == ECall(p, "wait") /\ ep[e].in_use /\ WaitLoop(p, [ep |-> e, max |-> max, left |-> left])
EWaitRetry(p) == ERunning(p) /\ epc[p] = "wait" /\ WaitLoop(p, earg[p])

\* epoll_notify: every instance that watches a descriptor with the number of
\* the socket.
Hit(e, s, x) == {w \in InUse(e) : ep[e].watches[w].fd = s /\ x \in ep[e].watches[w].events}
Notified(s, x) ==
  [e \in Instance |-> IF ep[e].in_use /\ Hit(e, s, x) # {}
                        THEN [ep[e] EXCEPT !.ready = Queued(@, Hit(e, s, x)), !.waiter = NoOne]
                        ELSE ep[e]]
NotifyWakes(s, x) == {ep[e].waiter : e \in {y \in Instance : ep[y].in_use /\ Hit(y, s, x) # {}}}

\* Something happens to a descriptor: another process, or the interrupt, makes
\* it ready and wakes its wait queue; for a socket epoll_notify is called.
EArrive(f, x) ==
  /\ f \in eopen /\ x \notin eready[f]
  /\ eready' = [eready EXCEPT ![f] = @ \cup {x}]
  /\ LET queue == {p \in EThread : \E r \in ereg[p] : r.fd = f}
     IN  IF load.kind[f] = "inet"
           THEN /\ ep' = Notified(load.sock[f], x)
                /\ eblocked' = eblocked \ (queue \cup NotifyWakes(load.sock[f], x))
           ELSE /\ eblocked' = eblocked \ queue /\ UNCHANGED ep
  /\ UNCHANGED <<eopen, epc, earg, ereg, eold>>

EConsume(p, f) ==
  /\ ECall(p, "read") /\ f \in eopen /\ eready[f] # {}
  /\ eready' = [eready EXCEPT ![f] = {}]
  /\ UNCHANGED <<ep, eopen, ecalls, eold>>

\* Closing a descriptor leaves its watches; the number is given out again.
EClose(p, f) ==
  /\ ECall(p, "close") /\ f \in eopen /\ eopen' = eopen \ {f} /\ eready' = [eready EXCEPT ![f] = {}]
  /\ UNCHANGED <<ep, ecalls, eold>>
EReopen(p, f) ==
  /\ ECall(p, "close") /\ f \notin eopen /\ eopen' = eopen \cup {f}
  /\ UNCHANGED <<ep, eready, ecalls, eold>>

\* The timer: g_timer_waitq holds the threads with a deadline.
ETick ==
  /\ \E p \in eblocked : earg[p].left > 0
  /\ earg' = [p \in EThread |-> IF earg[p].left > 0 THEN [earg[p] EXCEPT !.left = @ - 1] ELSE earg[p]]
  /\ eblocked' = {p \in eblocked : earg[p].left = Forever}
  /\ UNCHANGED <<ep, eready, eopen, epc, ereg, eold>>

-----------------------------------------------------------------------------
EpollIn(A) == load.part = "epoll" /\ A /\ UNCHANGED load
EpollNext ==
  EpollIn(\/ ETick
          \/ \E f \in EFd, x \in UNION {k.ev : k \in load.events} : EArrive(f, x)
          \/ \E p \in EThread :
               \/ ECreate(p) \/ EWaitRetry(p)
               \/ \E f \in EFd : EConsume(p, f) \/ EClose(p, f) \/ EReopen(p, f)
               \/ \E e \in Instance :
                    \/ EFree(p, e)
                    \/ \E max \in 1..2, left \in load.left : EWait(p, e, max, left)
                    \/ \E f \in EFd : EDel(p, e, f)
                    \/ \E f \in EFd, k \in load.events : EAdd(p, e, f, k.ev, k.et) \/ EMod(p, e, f, k.ev, k.et))

\* A thread that was woken goes on, and timer interrupts come.
EpollFairness ==
  /\ \A p \in EThread : WF_epollVars(EpollIn(EWaitRetry(p)))
  /\ WF_epollVars(EpollIn(ETick))

\* Watches are counted, a descriptor is watched once, and the ready list
\* holds each watch once, and watches that are in use (unless one was deleted
\* while it was in the list, which leaves it there).
EpollListsSound ==
  \A e \in {x \in Instance : ep[x].in_use} :
    /\ ep[e].nwatches = Cardinality(InUse(e))
    /\ \A f \in EFd : Cardinality(On(e, f)) <= 1
    /\ \A i, j \in 1..Len(ep[e].ready) : ep[e].ready[i] = ep[e].ready[j] => i = j
    /\ e \notin eold => Range(ep[e].ready) \subseteq InUse(e)

\* A thread sleeps in epoll_wait only while none of the files it is queued at
\* is ready for what it waits for, and while no socket is in the ready list of
\* the instance that will wake it: an instance remembers one waiter, and of one
\* in which a watch was deleted while it was in the ready list (eold), whose
\* number the list keeps, nothing is said.
EpollNobodyForgotten ==
  \A p \in eblocked :
    /\ \A r \in ereg[p] : r.fd \in eopen /\ load.kind[r.fd] = "file" => eready[r.fd] \cap r.events = {}
    /\ LET x == ep[earg[p].ep]
       IN  x.waiter = p /\ earg[p].ep \notin eold => \A w \in Range(x.ready) : load.kind[x.watches[w].fd] = "file"

\* The thread is in epoll_wait with a deadline, or was told that it can return.
EpollDue(p) == epc[p] = "wait" /\ earg[p].left # Forever
=============================================================================
