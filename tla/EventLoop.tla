------------------------------ MODULE EventLoop ------------------------------
(***************************************************************************)
(* Accept threads hand connections to event threads: acceptor.c accepts    *)
(* one, processor.c picks an event thread and pushes an event on the       *)
(* external queue of that thread, thread.c moves events from the external  *)
(* queue to the thread's own collect queue and handles them there, between *)
(* two rounds of which it polls its sockets.                               *)
(*                                                                         *)
(* The external queue is an atomiclist, here the stack that AtomicList is  *)
(* shown to implement: push and popall take effect in one step.  The walk  *)
(* along a popped chain touches only what the thread owns (ChainShape of   *)
(* AtomicList), so it is part of the step that pops the chain.  No code    *)
(* under src/ gives an event a timeout, so the timer buckets stay empty    *)
(* here (event_priority_enqueue and priority_queue_check are not reached). *)
(***************************************************************************)
EXTENDS Integers, Sequences, SequencesExt

CONSTANTS
  NThreads,   \* number of event threads (DEFAULT_THREADS is 3)
  Acceptor,   \* the accept threads (MAX_ACCEPTOR_THREADS is 1)
  Conn,       \* the connections that may arrive, each with its event
  Poll,       \* the poll event of a thread
  Null        \* no one

Thread == 0 .. NThreads - 1

ASSUME ThreadsAssumption == NThreads \in Nat \ {0}
ASSUME NamesAssumption ==
  /\ Poll \notin Conn
  /\ Null \notin Thread \cup Acceptor
  /\ Thread \cap Acceptor = {}

VARIABLES
  nextThread,  \* evprocessor.next_thread
  accepted,    \* the connections that accept() has returned
  apc,         \* apc[a]: the next shared access of accept thread a
  ev,          \* ev[a]: the connection a is scheduling
  idx,         \* idx[a]: the value of next_thread that a read
  xq,          \* xq[t]: externalqueue.al of thread t, newest first
  lock,        \* lock[t]: who holds externalqueue.lock of t
  tpc,         \* tpc[t]: where thread t is in its loop
  collect,     \* collect[t]: collectqueue, its top first
  postponed,   \* postponed[t]: postponedqueue, its top first
  hasPoll,     \* hasPoll[t]: pollbase_init succeeded for t
  handled      \* auxiliary: handled[t], the connections t has handled

acceptVars == <<nextThread, accepted, apc, ev, idx>>
localVars  == <<collect, postponed, hasPoll, handled>>
vars == <<acceptVars, xq, lock, tpc, localVars>>

(* EVENT_IDLE in e->type and e->redo: set for the poll event only. *)
NeverIdle(e) == FALSE
NoRedo(e)    == FALSE
Idle(e) == e = Poll
Redo(e) == e = Poll

(* collectqueue_enqueue and localq_enqueue; both queues are used as stacks. *)
Enqueue(q, e) == <<e>> \o q

Init ==
  /\ nextThread = 0
  /\ accepted = {}
  /\ apc = [a \in Acceptor |-> "accept"]
  /\ ev = [a \in Acceptor |-> Null]
  /\ idx = [a \in Acceptor |-> 0]
  /\ xq = [t \in Thread |-> <<>>]
  /\ lock = [t \in Thread |-> Null]
  /\ tpc = [t \in Thread |-> "start"]
  /\ collect = [t \in Thread |-> <<>>]
  /\ postponed = [t \in Thread |-> <<>>]
  /\ hasPoll = [t \in Thread |-> FALSE]
  /\ handled = [t \in Thread |-> <<>>]

-----------------------------------------------------------------------------
(* accept_block_loop and event_schedule, in an accept thread *)

(* accept() returns; init_connection and os_calloc make its event. *)
Accept(a) ==
  /\ apc[a] = "accept"
  /\ \E c \in Conn \ accepted :
       /\ accepted' = accepted \cup {c}
       /\ ev' = [ev EXCEPT ![a] = c]
  /\ apc' = [apc EXCEPT ![a] = "read"]
  /\ UNCHANGED <<nextThread, idx, xq, lock, tpc, localVars>>

(* next_thread++ is a load and a store, without a lock. *)
AssignRead(a) ==
  /\ apc[a] = "read"
  /\ idx' = [idx EXCEPT ![a] = nextThread]
  /\ apc' = [apc EXCEPT ![a] = "write"]
  /\ UNCHANGED <<nextThread, accepted, ev, xq, lock, tpc, localVars>>

(* A slip: the counter stays where it is. *)
AssignWriteSame(a) ==
  /\ apc[a] = "write"
  /\ apc' = [apc EXCEPT ![a] = "push"]
  /\ UNCHANGED <<nextThread, accepted, ev, idx, xq, lock, tpc, localVars>>

(* A slip: the counter goes down. *)
AssignWriteDown(a) ==
  /\ apc[a] = "write"
  /\ nextThread' = idx[a] - 1
  /\ apc' = [apc EXCEPT ![a] = "push"]
  /\ UNCHANGED <<accepted, ev, idx, xq, lock, tpc, localVars>>

AssignWrite(a) ==
  /\ apc[a] = "write"
  /\ nextThread' = idx[a] + 1
  /\ apc' = [apc EXCEPT ![a] = "push"]
  /\ UNCHANGED <<accepted, ev, idx, xq, lock, tpc, localVars>>

Target(a) == idx[a] % NThreads

(* thread_event_enqueue: only the push on an empty list wakes the thread. *)
Push(a) ==
  /\ apc[a] = "push"
  /\ xq' = [xq EXCEPT ![Target(a)] = <<ev[a]>> \o @]
  /\ apc' = [apc EXCEPT ![a] =
               IF xq[Target(a)] = <<>> THEN "wake" ELSE "accept"]
  /\ ev' = [ev EXCEPT ![a] = Null]
  /\ UNCHANGED <<nextThread, accepted, idx, lock, tpc, localVars>>

WakeLock(a) ==
  /\ apc[a] = "wake"
  /\ lock[Target(a)] = Null
  /\ lock' = [lock EXCEPT ![Target(a)] = a]
  /\ apc' = [apc EXCEPT ![a] = "signal"]
  /\ UNCHANGED <<nextThread, accepted, ev, idx, xq, tpc, localVars>>

(* cond_signal and mutex_release; a waiting thread can go on either way,  *)
(* as its wait is timed.                                                   *)
WakeSignal(a) ==
  /\ apc[a] = "signal"
  /\ lock' = [lock EXCEPT ![Target(a)] = Null]
  /\ apc' = [apc EXCEPT ![a] = "accept"]
  /\ UNCHANGED <<nextThread, accepted, ev, idx, xq, tpc, localVars>>

-----------------------------------------------------------------------------
(* thread_loop_internal, in an event thread *)

(* Without a pollbase, thread_init returns before it makes a poll event. *)
ThreadInit(t) ==
  /\ tpc[t] = "start"
  /\ \E ok \in BOOLEAN :
       /\ hasPoll' = [hasPoll EXCEPT ![t] = ok]
       /\ postponed' = [postponed EXCEPT ![t] = IF ok THEN <<Poll>> ELSE <<>>]
  /\ tpc' = [tpc EXCEPT ![t] = "drain"]
  /\ UNCHANGED <<acceptVars, xq, lock, collect, handled>>

(* process_event: the handler, then back on the collect queue on redo.     *)
(* rest is the collect queue by then.  Of the handlers, netio_init and     *)
(* netio_pollevent, neither is under src/; a poll waits at most a second.  *)
Process(t, e, rest) ==
  /\ handled' = IF e \in Conn THEN [handled EXCEPT ![t] = Append(@, e)]
                              ELSE handled
  /\ collect' = [collect EXCEPT ![t] = IF Redo(e) THEN Enqueue(rest, e) ELSE rest]

(* A slip: an idle event is dropped when it is taken from the queue. *)
DrainIdleDrop(t) ==
  /\ tpc[t] = "drain"
  /\ collect[t] # <<>>
  /\ Idle(Head(collect[t]))
  /\ collect' = [collect EXCEPT ![t] = Tail(@)]
  /\ UNCHANGED <<acceptVars, xq, lock, tpc, postponed, hasPoll, handled>>

DrainIdle(t) ==
  /\ tpc[t] = "drain"
  /\ collect[t] # <<>>
  /\ Idle(Head(collect[t]))
  /\ collect' = [collect EXCEPT ![t] = Tail(@)]
  /\ postponed' = [postponed EXCEPT ![t] = Enqueue(@, Head(collect[t]))]
  /\ UNCHANGED <<acceptVars, xq, lock, tpc, hasPoll, handled>>

DrainProcess(t) ==
  /\ tpc[t] = "drain"
  /\ collect[t] # <<>>
  /\ ~ Idle(Head(collect[t]))
  /\ Process(t, Head(collect[t]), Tail(collect[t]))
  /\ UNCHANGED <<acceptVars, xq, lock, tpc, postponed, hasPoll>>

DrainEnd(t) ==
  /\ tpc[t] = "drain"
  /\ collect[t] = <<>>
  /\ tpc' = [tpc EXCEPT ![t] = "external"]
  /\ UNCHANGED <<acceptVars, xq, lock, localVars>>

(* A slip: dequeueall is called whatever the list holds. *)
TestAlways(t) ==
  /\ tpc[t] = "external"
  /\ tpc' = [tpc EXCEPT ![t] = "lock"]
  /\ UNCHANGED <<acceptVars, xq, lock, localVars>>

TestExternal(t) ==
  /\ tpc[t] = "external"
  /\ tpc' = [tpc EXCEPT ![t] = IF xq[t] = <<>> THEN "idle" ELSE "lock"]
  /\ UNCHANGED <<acceptVars, xq, lock, localVars>>

(* mutex_acquire, and the end of cond_timewait, which has the mutex back. *)
DequeueLock(t) ==
  /\ tpc[t] \in {"lock", "waiting"}
  /\ lock[t] = Null
  /\ lock' = [lock EXCEPT ![t] = t]
  /\ tpc' = [tpc EXCEPT ![t] = "locked"]
  /\ UNCHANGED <<acceptVars, xq, localVars>>

(* An empty list sends the thread into cond_timewait, which releases the   *)
(* mutex, any other to mutex_release.                                      *)
DequeueTest(t) ==
  /\ tpc[t] = "locked"
  /\ lock' = [lock EXCEPT ![t] = Null]
  /\ tpc' = [tpc EXCEPT ![t] = IF xq[t] = <<>> THEN "waiting" ELSE "popall"]
  /\ UNCHANGED <<acceptVars, xq, localVars>>

(* Each event of the chain goes on top of the collect queue, so that the   *)
(* one pushed first ends up on top.                                        *)
DequeueAll(t) ==
  /\ tpc[t] = "popall"
  /\ collect' = [collect EXCEPT ![t] = Reverse(xq[t]) \o @]
  /\ xq' = [xq EXCEPT ![t] = <<>>]
  /\ tpc' = [tpc EXCEPT ![t] = "idle"]
  /\ UNCHANGED <<acceptVars, lock, postponed, hasPoll, handled>>

IdleProcess(t) ==
  /\ tpc[t] = "idle"
  /\ postponed[t] # <<>>
  /\ postponed' = [postponed EXCEPT ![t] = Tail(@)]
  /\ Process(t, Head(postponed[t]), collect[t])
  /\ UNCHANGED <<acceptVars, xq, lock, tpc, hasPoll>>

(* The timer buckets are empty; the loop starts over. *)
IdleEnd(t) ==
  /\ tpc[t] = "idle"
  /\ postponed[t] = <<>>
  /\ tpc' = [tpc EXCEPT ![t] = "drain"]
  /\ UNCHANGED <<acceptVars, xq, lock, localVars>>

-----------------------------------------------------------------------------
(* What an accept thread does between two calls of accept(). *)
Scheduling(a) ==
  AssignRead(a) \/ AssignWrite(a) \/ Push(a) \/ WakeLock(a) \/ WakeSignal(a)

ThreadStep(t) ==
  \/ ThreadInit(t)
  \/ DrainIdle(t) \/ DrainProcess(t) \/ DrainEnd(t)
  \/ TestExternal(t) \/ DequeueLock(t) \/ DequeueTest(t) \/ DequeueAll(t)
  \/ IdleProcess(t) \/ IdleEnd(t)

Next ==
  \/ \E a \in Acceptor : Accept(a) \/ Scheduling(a)
  \/ \E t \in Thread : ThreadStep(t)

Spec == Init /\ [][Next]_vars

(* Threads keep running; nothing makes a client connect. *)
Fairness ==
  /\ \A a \in Acceptor : WF_vars(Scheduling(a))
  /\ \A t \in Thread : WF_vars(ThreadStep(t))

FairSpec == Spec /\ Fairness

-----------------------------------------------------------------------------
(* What the code promises *)

TypeOK ==
  /\ nextThread \in Nat
  /\ accepted \subseteq Conn
  /\ apc \in [Acceptor -> {"accept", "read", "write", "push", "wake", "signal"}]
  /\ ev \in [Acceptor -> Conn \cup {Null}]
  /\ idx \in [Acceptor -> Nat]
  /\ xq \in [Thread -> Seq(Conn)]
  /\ lock \in [Thread -> Thread \cup Acceptor \cup {Null}]
  /\ tpc \in [Thread -> {"start", "drain", "external", "lock", "locked",
                         "waiting", "popall", "idle"}]
  /\ collect \in [Thread -> Seq(Conn \cup {Poll})]
  /\ postponed \in [Thread -> Seq(Conn \cup {Poll})]
  /\ hasPoll \in [Thread -> BOOLEAN]
  /\ handled \in [Thread -> Seq(Conn)]

(***************************************************************************)
(* An event thread never sleeps on might_have_data: it tests the list      *)
(* before it takes the mutex, and nobody else removes from its list, so    *)
(* the second test, under the mutex, finds what the first one found.  The  *)
(* wake-up that thread_event_enqueue sends can then not be lost.           *)
(***************************************************************************)
NeverWaits == \A t \in Thread : tpc[t] # "waiting"

(***************************************************************************)
(* The poll event of a thread is in exactly one of its queues, alone or on *)
(* top: it is neither lost when it moves from one queue to the other, nor  *)
(* queued twice, nor behind a connection when the loop looks for it.       *)
(***************************************************************************)
PollKept ==
  \A t \in Thread :
    /\ postponed[t] \in {<<>>, <<Poll>>}
    /\ \A i \in DOMAIN collect[t] :
         collect[t][i] = Poll => i = 1 /\ postponed[t] = <<>>
    /\ hasPoll[t] => \/ postponed[t] = <<Poll>>
                     \/ collect[t] # <<>> /\ collect[t][1] = Poll

(* The connections on a collect queue, which only the poll event precedes. *)
Connections(q) == IF q # <<>> /\ Head(q) = Poll THEN Tail(q) ELSE q

Box == [t \in Thread |-> Connections(collect[t]) \o Reverse(xq[t])]

Mail == INSTANCE Mailbox WITH box <- Box

(***************************************************************************)
(* Every connection that is pushed is handled once, by the thread it was   *)
(* pushed to, in the order of the pushes, although it passes two queues    *)
(* that each reverse it.                                                   *)
(***************************************************************************)
ImplementsMailbox == Mail!MailSpec

(* ... and, when the threads keep running, it is handled eventually. *)
ImplementsFairMailbox == Mail!FairMailSpec

(***************************************************************************)
(* A single accept thread spreads connections evenly: no two event threads *)
(* differ by more than one in what has been scheduled to them.             *)
(***************************************************************************)
Load(t) == Len(handled[t]) + Len(Box[t])

EvenLoad == \A t, u \in Thread : Load(t) - Load(u) <= 1

(***************************************************************************)
(* A thread that has a pollbase polls its sockets again and again, however *)
(* many connections are pushed to it meanwhile.                            *)
(***************************************************************************)
PollsForever ==
  \A t \in Thread :
    hasPoll[t] ~> (hasPoll[t] /\ tpc[t] = "idle" /\ postponed[t] = <<Poll>>)
=============================================================================
