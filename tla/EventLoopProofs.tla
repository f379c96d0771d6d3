--------------------------- MODULE EventLoopProofs ---------------------------
(***************************************************************************)
(* Proofs about EventLoop, for any number of accept threads, event threads *)
(* and connections.                                                        *)
(***************************************************************************)
EXTENDS EventLoop, SequenceTheorems, TLAPS

USE ThreadsAssumption, NamesAssumption

(***************************************************************************)
(* What the place of a thread in its loop says about its queues: dequeueall *)
(* runs with an empty collect queue, and from the test of the list to the  *)
(* removal of its chain the list has something.                            *)
(***************************************************************************)
LoopPlace ==
  \A t \in Thread :
    /\ tpc[t] = "start" => collect[t] = <<>> /\ postponed[t] = <<>> /\ ~ hasPoll[t]
    /\ tpc[t] \in {"external", "lock", "locked", "popall"} => collect[t] = <<>>
    /\ tpc[t] \in {"lock", "locked", "popall"} => xq[t] # <<>>

(* An accept thread that has a connection to push has one. *)
Pending(a) == apc[a] \in {"read", "write", "push"}

HasConnection == \A a \in Acceptor : Pending(a) => ev[a] \in Conn

LoopInv == TypeOK /\ NeverWaits /\ PollKept /\ LoopPlace /\ HasConnection

-----------------------------------------------------------------------------
(* Sequences *)

LEMMA ReverseFacts ==
  ASSUME NEW S, NEW s \in Seq(S)
  PROVE  /\ Reverse(s) \in Seq(S)
         /\ Len(Reverse(s)) = Len(s)
         /\ \A i \in 1 .. Len(s) : Reverse(s)[i] = s[(Len(s) - i) + 1]
BY DEF Reverse

LEMMA ReverseCons ==
  ASSUME NEW S, NEW s \in Seq(S), NEW x \in S
  PROVE  Reverse(<<x>> \o s) = Append(Reverse(s), x)
<1> DEFINE t == <<x>> \o s
<1>1. /\ t \in Seq(S) /\ Len(t) = Len(s) + 1 /\ t[1] = x
      /\ \A i \in 1 .. Len(s) : t[i + 1] = s[i]
  OBVIOUS
<1> HIDE DEF t
<1>2. /\ Reverse(t) \in Seq(S) /\ Len(Reverse(t)) = Len(s) + 1
      /\ \A i \in 1 .. Len(s) + 1 : Reverse(t)[i] = t[(Len(s) + 1 - i) + 1]
  BY <1>1, ReverseFacts
<1>3. /\ Append(Reverse(s), x) \in Seq(S)
      /\ Len(Append(Reverse(s), x)) = Len(s) + 1
      /\ \A i \in 1 .. Len(s) : Append(Reverse(s), x)[i] = s[(Len(s) - i) + 1]
      /\ Append(Reverse(s), x)[Len(s) + 1] = x
  BY ReverseFacts
<1>4. ASSUME NEW i \in 1 .. Len(s) + 1
      PROVE  Reverse(t)[i] = Append(Reverse(s), x)[i]
  <2>1. CASE i = Len(s) + 1
    BY <1>1, <1>2, <1>3, <2>1
  <2>2. CASE i # Len(s) + 1
    <3>1. i \in 1 .. Len(s) /\ (Len(s) - i) + 1 \in 1 .. Len(s)
      BY <2>2
    <3>2. t[((Len(s) - i) + 1) + 1] = s[(Len(s) - i) + 1]
      BY <1>1, <3>1
    <3>3. ((Len(s) - i) + 1) + 1 = (Len(s) + 1 - i) + 1
      BY <3>1
    <3> QED
      BY <1>2, <1>3, <3>1, <3>2, <3>3
  <2> QED
    BY <2>1, <2>2
<1> QED
  BY <1>2, <1>3, <1>4, SeqEqual DEF t

LEMMA SmallerRange ==
  ASSUME NEW S, NEW T, NEW s \in Seq(S), \A i \in 1 .. Len(s) : s[i] \in T
  PROVE  s \in Seq(T)
OBVIOUS

LEMMA ConcatAppend ==
  ASSUME NEW S, NEW s \in Seq(S), NEW t \in Seq(S), NEW x \in S
  PROVE  s \o Append(t, x) = Append(s \o t, x)
OBVIOUS

LEMMA ConcatHead ==
  ASSUME NEW S, NEW s \in Seq(S), NEW t \in Seq(S), s # <<>>
  PROVE  Head(s \o t) = Head(s) /\ Tail(s \o t) = Tail(s) \o t /\ s \o t # <<>>
OBVIOUS

-----------------------------------------------------------------------------
(* Type correctness and the place in the loop *)

LEMMA InitLoop == Init => LoopInv
BY DEF Init, LoopInv, TypeOK, NeverWaits, PollKept, LoopPlace, HasConnection,
       Pending, Thread

LEMMA TargetIsThread ==
  ASSUME TypeOK, NEW a \in Acceptor
  PROVE  Target(a) \in Thread
<1>1. idx[a] \in Nat
  BY DEF TypeOK
<1> QED
  BY <1>1 DEF Target, Thread

LEMMA AcceptorTypes ==
  ASSUME LoopInv, NEW a \in Acceptor, Accept(a) \/ Scheduling(a)
  PROVE  TypeOK' /\ HasConnection'
<1> USE DEF LoopInv, TypeOK, HasConnection, Pending, localVars
<1>1. CASE Accept(a)
  BY <1>1 DEF Accept
<1>2. CASE AssignRead(a)
  BY <1>2 DEF AssignRead
<1>3. CASE AssignWrite(a)
  BY <1>3 DEF AssignWrite
<1>4. CASE Push(a)
  BY <1>4, TargetIsThread DEF Push
<1>5. CASE WakeLock(a)
  BY <1>5, TargetIsThread DEF WakeLock
<1>6. CASE WakeSignal(a)
  BY <1>6, TargetIsThread DEF WakeSignal
<1> QED
  BY <1>1, <1>2, <1>3, <1>4, <1>5, <1>6 DEF Scheduling

Event == Conn \cup {Poll}

LEMMA ProcessTypes ==
  ASSUME TypeOK, NEW t \in Thread, NEW e \in Event, NEW rest \in Seq(Event),
         Process(t, e, rest)
  PROVE  handled' \in [Thread -> Seq(Conn)] /\ collect' \in [Thread -> Seq(Event)]
<1>1. Enqueue(rest, e) \in Seq(Event)
  BY DEF Enqueue
<1>2. collect' \in [Thread -> Seq(Event)]
  BY <1>1 DEF Process, TypeOK, Event
<1>3. handled' \in [Thread -> Seq(Conn)]
  <2>1. e \in Conn => Append(handled[t], e) \in Seq(Conn)
    BY DEF TypeOK
  <2> QED
    BY <2>1 DEF Process, TypeOK
<1> QED
  BY <1>2, <1>3

LEMMA HeadTail ==
  ASSUME NEW S, NEW s \in Seq(S), s # <<>>
  PROVE  Head(s) \in S /\ Tail(s) \in Seq(S) /\ s = <<Head(s)>> \o Tail(s)
OBVIOUS

LEMMA ThreadTypes ==
  ASSUME LoopInv, NEW t \in Thread, ThreadStep(t)
  PROVE  TypeOK' /\ HasConnection'
<1> USE DEF LoopInv, TypeOK, acceptVars, localVars
<1>0. HasConnection'
  BY DEF HasConnection, Pending, ThreadStep, ThreadInit, DrainIdle, DrainProcess,
         DrainEnd, TestExternal, DequeueLock, DequeueTest, DequeueAll,
         IdleProcess, IdleEnd
<1>1. CASE ThreadInit(t)
  <2>1. /\ hasPoll' \in [Thread -> BOOLEAN]
        /\ postponed' \in [Thread -> Seq(Conn \cup {Poll})]
    <3>1. PICK ok \in BOOLEAN :
            /\ hasPoll' = [hasPoll EXCEPT ![t] = ok]
            /\ postponed' = [postponed EXCEPT ![t] = IF ok THEN <<Poll>> ELSE <<>>]
      BY <1>1 DEF ThreadInit
    <3>2. (IF ok THEN <<Poll>> ELSE <<>>) \in Seq(Conn \cup {Poll})
      <4>1. <<>> \in Seq(Conn \cup {Poll}) /\ <<Poll>> \in Seq(Conn \cup {Poll})
        OBVIOUS
      <4>2. CASE ok
        BY <4>1, <4>2
      <4>3. CASE ~ ok
        BY <4>1, <4>3
      <4> QED
        BY <4>2, <4>3
    <3> QED
      BY <3>1, <3>2
  <2> QED
    BY <1>0, <1>1, <2>1 DEF ThreadInit
<1>2. CASE DrainIdle(t)
  <2>1. /\ Tail(collect[t]) \in Seq(Conn \cup {Poll})
        /\ Enqueue(postponed[t], Head(collect[t])) \in Seq(Conn \cup {Poll})
    BY <1>2, HeadTail DEF DrainIdle, Enqueue
  <2> QED
    BY <1>0, <1>2, <2>1 DEF DrainIdle
<1>3. CASE DrainProcess(t)
  <2>1. Head(collect[t]) \in Event /\ Tail(collect[t]) \in Seq(Event)
    BY <1>3, HeadTail DEF DrainProcess, Event
  <2>2. handled' \in [Thread -> Seq(Conn)] /\ collect' \in [Thread -> Seq(Event)]
    BY <1>3, <2>1, ProcessTypes DEF DrainProcess
  <2> QED
    BY <1>0, <1>3, <2>2 DEF DrainProcess, Event
<1>4. CASE DrainEnd(t)
  BY <1>0, <1>4 DEF DrainEnd
<1>5. CASE TestExternal(t)
  BY <1>0, <1>5 DEF TestExternal
<1>6. CASE DequeueLock(t)
  BY <1>0, <1>6 DEF DequeueLock
<1>7. CASE DequeueTest(t)
  BY <1>0, <1>7 DEF DequeueTest
<1>8. CASE DequeueAll(t)
  <2>1. Reverse(xq[t]) \o collect[t] \in Seq(Conn \cup {Poll})
    <3>1. Reverse(xq[t]) \in Seq(Conn)
      BY ReverseFacts
    <3> QED
      BY <3>1
  <2>2. xq' \in [Thread -> Seq(Conn)] /\ collect' \in [Thread -> Seq(Conn \cup {Poll})]
    BY <1>8, <2>1 DEF DequeueAll
  <2> QED
    BY <1>0, <1>8, <2>2 DEF DequeueAll
<1>9. CASE IdleProcess(t)
  <2>1. Head(postponed[t]) \in Event /\ Tail(postponed[t]) \in Seq(Event)
    BY <1>9, HeadTail DEF IdleProcess, Event
  <2>2. handled' \in [Thread -> Seq(Conn)] /\ collect' \in [Thread -> Seq(Event)]
    BY <1>9, <2>1, ProcessTypes DEF IdleProcess, Event
  <2>3. postponed' \in [Thread -> Seq(Conn \cup {Poll})]
    BY <1>9, <2>1 DEF IdleProcess, Event
  <2> QED
    BY <1>0, <1>9, <2>2, <2>3 DEF IdleProcess, Event
<1>10. CASE IdleEnd(t)
  BY <1>0, <1>10 DEF IdleEnd
<1> QED
  BY <1>1, <1>2, <1>3, <1>4, <1>5, <1>6, <1>7, <1>8, <1>9, <1>10
  DEF ThreadStep

-----------------------------------------------------------------------------
(* Where the queues of a thread stand, one thread at a time *)

PlaceOf(t) ==
  /\ tpc[t] # "waiting"
  /\ tpc[t] = "start" => collect[t] = <<>> /\ postponed[t] = <<>> /\ ~ hasPoll[t]
  /\ tpc[t] \in {"external", "lock", "locked", "popall"} => collect[t] = <<>>
  /\ tpc[t] \in {"lock", "locked", "popall"} => xq[t] # <<>>

PollOf(t) ==
  /\ postponed[t] \in {<<>>, <<Poll>>}
  /\ \A i \in DOMAIN collect[t] :
       collect[t][i] = Poll => i = 1 /\ postponed[t] = <<>>
  /\ hasPoll[t] => \/ postponed[t] = <<Poll>>
                   \/ collect[t] # <<>> /\ collect[t][1] = Poll

LEMMA OneByOne ==
  /\ NeverWaits /\ LoopPlace <=> \A t \in Thread : PlaceOf(t)
  /\ PollKept <=> \A t \in Thread : PollOf(t)
BY DEF NeverWaits, LoopPlace, PollKept, PlaceOf, PollOf

(* The collect queue with the poll event on top, and without it. *)
LEMMA PollOnTop ==
  ASSUME TypeOK, NEW t \in Thread, PollOf(t), collect[t] # <<>>
  PROVE  /\ \A i \in DOMAIN Tail(collect[t]) : Tail(collect[t])[i] # Poll
         /\ Tail(collect[t]) \in Seq(Conn)
         /\ Head(collect[t]) \in Conn \/ Head(collect[t]) = Poll
<1> DEFINE s == collect[t]
<1>1. s \in Seq(Conn \cup {Poll}) /\ s # <<>>
  BY DEF TypeOK
<1>2. \A i \in DOMAIN s : s[i] = Poll => i = 1
  BY DEF PollOf
<1> HIDE DEF s
<1>3. /\ Tail(s) \in Seq(Conn \cup {Poll}) /\ Len(Tail(s)) = Len(s) - 1
      /\ \A i \in 1 .. Len(Tail(s)) : Tail(s)[i] = s[i + 1]
  BY <1>1
<1>4. ASSUME NEW i \in DOMAIN Tail(s) PROVE Tail(s)[i] # Poll
  <2>1. i + 1 \in DOMAIN s /\ i + 1 # 1 /\ Tail(s)[i] = s[i + 1]
    BY <1>1, <1>3
  <2> QED
    BY <1>2, <2>1
<1>5. Tail(s) \in Seq(Conn)
  <2>1. ASSUME NEW i \in 1 .. Len(Tail(s)) PROVE Tail(s)[i] \in Conn
    <3>1. i \in DOMAIN Tail(s) /\ Tail(s)[i] \in Conn \cup {Poll}
      BY <1>3
    <3> QED
      BY <1>4, <3>1
  <2> QED
    BY <1>3, <2>1, SmallerRange
<1> QED
  BY <1>1, <1>4, <1>5 DEF s

LEMMA NoPollBelow ==
  ASSUME TypeOK, NEW t \in Thread, PollOf(t), postponed[t] = <<Poll>>
  PROVE  collect[t] \in Seq(Conn)
<1>1. collect[t] \in Seq(Conn \cup {Poll})
  BY DEF TypeOK
<1>2. \A i \in 1 .. Len(collect[t]) : collect[t][i] \in Conn
  BY <1>1 DEF PollOf
<1> QED
  BY <1>1, <1>2, SmallerRange

LEMMA AcceptorPlaces ==
  ASSUME LoopInv, NEW a \in Acceptor, Accept(a) \/ Scheduling(a), NEW t \in Thread
  PROVE  PlaceOf(t)' /\ PollOf(t)'
<1>1. PlaceOf(t) /\ PollOf(t) /\ TypeOK
  BY OneByOne DEF LoopInv
<1>2. UNCHANGED <<tpc, localVars>>
  BY DEF Accept, Scheduling, AssignRead, AssignWrite, Push, WakeLock, WakeSignal
<1>3. xq[t] # <<>> => xq'[t] # <<>>
  BY <1>1 DEF TypeOK, Accept, Scheduling, AssignRead, AssignWrite, Push, WakeLock,
             WakeSignal
<1> QED
  BY <1>1, <1>2, <1>3 DEF PlaceOf, PollOf, localVars

LEMMA ThreadPlaces ==
  ASSUME LoopInv, NEW t \in Thread, ThreadStep(t)
  PROVE  PlaceOf(t)' /\ PollOf(t)'
<1>0. PlaceOf(t) /\ PollOf(t) /\ TypeOK
  BY OneByOne DEF LoopInv
<1> USE DEF PlaceOf, PollOf, TypeOK, acceptVars, localVars
<1>1. CASE ThreadInit(t)
  <2>1. PICK ok \in BOOLEAN :
          /\ hasPoll'[t] = ok /\ postponed'[t] = IF ok THEN <<Poll>> ELSE <<>>
          /\ tpc'[t] = "drain" /\ collect'[t] = <<>>
    BY <1>0, <1>1 DEF ThreadInit
  <2> QED
    BY <2>1
<1>2. CASE DrainIdle(t)
  <2>1. Head(collect[t]) = Poll /\ collect[t][1] = Poll /\ postponed[t] = <<>>
        /\ collect[t] # <<>>
    BY <1>0, <1>2 DEF DrainIdle, Idle
  <2>2. /\ postponed'[t] = <<Poll>> /\ collect'[t] = Tail(collect[t])
        /\ hasPoll' = hasPoll /\ tpc' = tpc /\ tpc[t] = "drain"
    BY <1>0, <1>2, <2>1 DEF DrainIdle, Enqueue
  <2>3. \A i \in DOMAIN Tail(collect[t]) : Tail(collect[t])[i] # Poll
    BY <1>0, <2>1, PollOnTop
  <2> QED
    BY <2>2, <2>3
<1>3. CASE DrainProcess(t)
  <2>1. Head(collect[t]) # Poll /\ collect[t][1] # Poll /\ collect[t] # <<>>
    BY <1>0, <1>3 DEF DrainProcess, Idle
  <2>2. /\ postponed' = postponed /\ collect'[t] = Tail(collect[t])
        /\ hasPoll' = hasPoll /\ tpc' = tpc /\ tpc[t] = "drain"
    BY <1>0, <1>3, <2>1 DEF DrainProcess, Process, Redo
  <2>3. \A i \in DOMAIN Tail(collect[t]) : Tail(collect[t])[i] # Poll
    BY <1>0, <2>1, PollOnTop
  <2> QED
    BY <1>0, <2>1, <2>2, <2>3
<1>4. CASE DrainEnd(t) \/ TestExternal(t) \/ DequeueLock(t) \/ DequeueTest(t)
           \/ IdleEnd(t)
  <2>1. UNCHANGED <<xq, collect, postponed, hasPoll>>
    BY <1>4 DEF DrainEnd, TestExternal, DequeueLock, DequeueTest, IdleEnd
  <2>2. PlaceOf(t)'
    BY <1>0, <1>4, <2>1 DEF DrainEnd, TestExternal, DequeueLock, DequeueTest, IdleEnd
  <2> QED
    BY <1>0, <2>1, <2>2
<1>5. CASE DequeueAll(t)
  <2>1. Reverse(xq[t]) \in Seq(Conn) /\ collect[t] = <<>>
    BY <1>0, <1>5, ReverseFacts DEF DequeueAll
  <2>2. /\ collect'[t] = Reverse(xq[t]) \o collect[t] /\ postponed' = postponed
        /\ hasPoll' = hasPoll /\ tpc'[t] = "idle"
    BY <1>0, <1>5 DEF DequeueAll
  <2>3. collect'[t] \in Seq(Conn)
    BY <2>1, <2>2
  <2> QED
    BY <1>0, <2>1, <2>2, <2>3
<1>6. CASE IdleProcess(t)
  <2>1. postponed[t] = <<Poll>> /\ Head(<<Poll>>) = Poll /\ Tail(<<Poll>>) = <<>>
    BY <1>0, <1>6 DEF IdleProcess
  <2>2. /\ postponed'[t] = <<>> /\ collect'[t] = <<Poll>> \o collect[t]
        /\ hasPoll' = hasPoll /\ tpc' = tpc /\ tpc[t] = "idle"
    BY <1>0, <1>6, <2>1 DEF IdleProcess, Process, Redo, Enqueue
  <2>3. collect[t] \in Seq(Conn)
    BY <1>0, <2>1, NoPollBelow
  <2>4. /\ collect'[t] # <<>> /\ collect'[t][1] = Poll
        /\ \A i \in DOMAIN collect'[t] : collect'[t][i] = Poll => i = 1
    <3>1. ASSUME NEW i \in DOMAIN collect'[t], i # 1 PROVE collect'[t][i] # Poll
      <4>1. i - 1 \in 1 .. Len(collect[t]) /\ collect'[t][i] = collect[t][i - 1]
        BY <2>2, <2>3, <3>1
      <4> QED
        BY <2>3, <4>1
    <3> QED
      BY <2>2, <2>3, <3>1
  <2> QED
    BY <2>2, <2>4
<1> QED
  BY <1>1, <1>2, <1>3, <1>4, <1>5, <1>6 DEF ThreadStep

LEMMA OtherThreads ==
  ASSUME TypeOK, NEW t \in Thread, ThreadStep(t), NEW u \in Thread \ {t}
  PROVE  /\ xq'[u] = xq[u] /\ tpc'[u] = tpc[u] /\ collect'[u] = collect[u]
         /\ postponed'[u] = postponed[u] /\ hasPoll'[u] = hasPoll[u]
         /\ handled'[u] = handled[u]
<1> USE DEF TypeOK, acceptVars, localVars
<1>1. CASE ThreadInit(t)
  BY <1>1 DEF ThreadInit
<1>2. CASE DrainIdle(t)
  BY <1>2 DEF DrainIdle
<1>3. CASE DrainProcess(t)
  BY <1>3 DEF DrainProcess, Process
<1>4. CASE DrainEnd(t)
  BY <1>4 DEF DrainEnd
<1>5. CASE TestExternal(t)
  BY <1>5 DEF TestExternal
<1>6. CASE DequeueLock(t)
  BY <1>6 DEF DequeueLock
<1>7. CASE DequeueTest(t)
  BY <1>7 DEF DequeueTest
<1>8. CASE DequeueAll(t)
  BY <1>8 DEF DequeueAll
<1>9. CASE IdleProcess(t)
  BY <1>9 DEF IdleProcess, Process
<1>10. CASE IdleEnd(t)
  BY <1>10 DEF IdleEnd
<1> QED
  BY <1>1, <1>2, <1>3, <1>4, <1>5, <1>6, <1>7, <1>8, <1>9, <1>10
  DEF ThreadStep

LEMMA StepLoop == LoopInv /\ [Next]_vars => LoopInv'
<1> SUFFICES ASSUME LoopInv, [Next]_vars PROVE LoopInv'
  OBVIOUS
<1>1. ASSUME NEW a \in Acceptor, Accept(a) \/ Scheduling(a) PROVE LoopInv'
  <2>1. TypeOK' /\ HasConnection'
    BY <1>1, AcceptorTypes
  <2>2. \A t \in Thread : PlaceOf(t)' /\ PollOf(t)'
    BY <1>1, AcceptorPlaces
  <2> QED
    BY <2>1, <2>2 DEF LoopInv, NeverWaits, LoopPlace, PollKept, PlaceOf, PollOf
<1>2. ASSUME NEW t \in Thread, ThreadStep(t) PROVE LoopInv'
  <2>1. TypeOK' /\ HasConnection'
    BY <1>2, ThreadTypes
  <2>2. ASSUME NEW u \in Thread PROVE PlaceOf(u)' /\ PollOf(u)'
    <3>1. CASE u = t
      BY <1>2, <3>1, ThreadPlaces
    <3>2. CASE u # t
      BY <1>2, <3>2, OtherThreads, OneByOne DEF LoopInv, PlaceOf, PollOf
    <3> QED
      BY <3>1, <3>2
  <2> QED
    BY <2>1, <2>2 DEF LoopInv, NeverWaits, LoopPlace, PollKept, PlaceOf, PollOf
<1>3. CASE UNCHANGED vars
  BY <1>3 DEF vars, acceptVars, localVars, LoopInv, TypeOK, NeverWaits, PollKept,
              LoopPlace, HasConnection, Pending
<1> QED
  BY <1>1, <1>2, <1>3 DEF Next

LEMMA LoopInvariant == Spec => []LoopInv
BY InitLoop, StepLoop, PTL DEF Spec

(* Every variable keeps its type. *)
THEOREM TypeCorrect == Spec => []TypeOK
BY LoopInvariant, PTL DEF LoopInv

(***************************************************************************)
(* No event thread ever sleeps on might_have_data, so no wake-up of        *)
(* thread_event_enqueue can be missed.                                     *)
(***************************************************************************)
THEOREM NoSleep == Spec => []NeverWaits
BY LoopInvariant, PTL DEF LoopInv

(* The poll event of a thread is never lost and never queued twice. *)
THEOREM PollEventKept == Spec => []PollKept
BY LoopInvariant, PTL DEF LoopInv

-----------------------------------------------------------------------------
(* The mailbox of a thread, step by step *)

BoxOf(t) == Connections(collect[t]) \o Reverse(xq[t])

LEMMA ConnectionsFacts ==
  ASSUME TypeOK, NEW t \in Thread, PollOf(t)
  PROVE  /\ Connections(collect[t]) \in Seq(Conn)
         /\ Reverse(xq[t]) \in Seq(Conn)
         /\ BoxOf(t) \in Seq(Conn)
<1>1. Reverse(xq[t]) \in Seq(Conn)
  BY ReverseFacts DEF TypeOK
<1>2. Connections(collect[t]) \in Seq(Conn)
  <2>1. CASE collect[t] = <<>>
    BY <2>1 DEF Connections
  <2>2. CASE collect[t] # <<>> /\ Head(collect[t]) = Poll
    BY <2>2, PollOnTop DEF Connections
  <2>3. CASE collect[t] # <<>> /\ Head(collect[t]) # Poll
    <3>1. /\ Head(collect[t]) \in Conn /\ Tail(collect[t]) \in Seq(Conn)
          /\ collect[t] = <<Head(collect[t])>> \o Tail(collect[t])
      BY <2>3, PollOnTop, HeadTail DEF TypeOK
    <3> QED
      BY <2>3, <3>1 DEF Connections
  <2> QED
    BY <2>1, <2>2, <2>3
<1> QED
  BY <1>1, <1>2 DEF BoxOf

LEMMA NoPollNoChange ==
  ASSUME NEW s \in Seq(Conn)
  PROVE  Connections(s) = s
<1>1. s # <<>> => Head(s) \in Conn
  OBVIOUS
<1> QED
  BY <1>1 DEF Connections

(* A push appends to the mailbox. *)
LEMMA PushBox ==
  ASSUME LoopInv, NEW a \in Acceptor, Push(a)
  PROVE  /\ ev[a] \in Conn /\ handled' = handled
         /\ \E u \in Thread :
              /\ u = Target(a)
              /\ BoxOf(u)' = Append(BoxOf(u), ev[a])
              /\ \A w \in Thread \ {u} : BoxOf(w)' = BoxOf(w)
<1>1. PICK u \in Thread : u = Target(a)
  BY TargetIsThread DEF LoopInv
<1>2. TypeOK /\ PollOf(u) /\ ev[a] \in Conn
  BY OneByOne DEF LoopInv, HasConnection, Pending, Push
<1>3. /\ xq' = [xq EXCEPT ![u] = <<ev[a]>> \o @] /\ collect' = collect
      /\ handled' = handled
  BY <1>1 DEF Push, localVars
<1>4. xq'[u] = <<ev[a]>> \o xq[u] /\ xq[u] \in Seq(Conn)
  BY <1>2, <1>3 DEF TypeOK
<1>5. Reverse(xq'[u]) = Append(Reverse(xq[u]), ev[a])
  BY <1>2, <1>4, ReverseCons
<1>6. BoxOf(u)' = Connections(collect[u]) \o Append(Reverse(xq[u]), ev[a])
  BY <1>3, <1>5 DEF BoxOf, Connections, Reverse
<1>7. BoxOf(u)' = Append(BoxOf(u), ev[a])
  BY <1>2, <1>6, ConnectionsFacts, ConcatAppend DEF BoxOf
<1>8. ASSUME NEW w \in Thread \ {u} PROVE BoxOf(w)' = BoxOf(w)
  <2>1. xq'[w] = xq[w] /\ collect'[w] = collect[w]
    BY <1>2, <1>3, <1>8 DEF TypeOK
  <2> QED
    BY <2>1 DEF BoxOf, Connections, Reverse
<1> QED
  BY <1>1, <1>2, <1>3, <1>7, <1>8

(* A thread handles the oldest connection of its mailbox, or leaves it. *)
LEMMA ThreadBox ==
  ASSUME LoopInv, NEW t \in Thread, ThreadStep(t)
  PROVE  \/ /\ BoxOf(t) # <<>> /\ BoxOf(t)' = Tail(BoxOf(t))
            /\ handled' = [handled EXCEPT ![t] = Append(@, Head(BoxOf(t)))]
         \/ BoxOf(t)' = BoxOf(t) /\ handled' = handled
<1>0. TypeOK /\ PlaceOf(t) /\ PollOf(t)
  BY OneByOne DEF LoopInv
<1> USE DEF acceptVars, localVars
<1>1. CASE ThreadInit(t) \/ DrainEnd(t) \/ TestExternal(t) \/ DequeueLock(t)
           \/ DequeueTest(t) \/ IdleEnd(t)
  <2>1. xq' = xq /\ collect' = collect /\ handled' = handled
    BY <1>1 DEF ThreadInit, DrainEnd, TestExternal, DequeueLock, DequeueTest, IdleEnd
  <2> QED
    BY <2>1 DEF BoxOf, Connections, Reverse
<1>2. CASE DrainIdle(t)
  <2>1. /\ collect[t] # <<>> /\ Head(collect[t]) = Poll
        /\ collect'[t] = Tail(collect[t]) /\ xq' = xq /\ handled' = handled
    BY <1>0, <1>2 DEF DrainIdle, Idle, TypeOK
  <2>2. Connections(collect'[t]) = Tail(collect[t])
    BY <1>0, <2>1, PollOnTop, NoPollNoChange
  <2>3. Connections(collect[t]) = Tail(collect[t])
    BY <2>1 DEF Connections
  <2>4. Connections(collect[t])' = Connections(collect[t])
    BY <2>2, <2>3 DEF Connections
  <2> QED
    BY <2>1, <2>4 DEF BoxOf, Reverse
<1>3. CASE DrainProcess(t)
  <2>1. /\ collect[t] # <<>> /\ Head(collect[t]) # Poll
        /\ Head(collect[t]) \in Conn /\ Tail(collect[t]) \in Seq(Conn)
    BY <1>0, <1>3, PollOnTop DEF DrainProcess, Idle
  <2>2. /\ collect'[t] = Tail(collect[t]) /\ xq' = xq
        /\ handled' = [handled EXCEPT ![t] = Append(@, Head(collect[t]))]
    BY <1>0, <1>3, <2>1 DEF DrainProcess, Process, Redo, TypeOK
  <2>3. Connections(collect[t]) = collect[t]
    BY <2>1 DEF Connections
  <2>4. Connections(collect[t])' = Tail(collect[t])
    <3>1. Connections(collect'[t]) = Tail(collect[t])
      BY <2>1, <2>2, NoPollNoChange
    <3> QED
      BY <3>1 DEF Connections
  <2>5. collect[t] \in Seq(Conn) /\ Reverse(xq[t]) \in Seq(Conn)
    BY <1>0, <2>3, ConnectionsFacts
  <2>6. /\ BoxOf(t) = collect[t] \o Reverse(xq[t])
        /\ BoxOf(t)' = Tail(collect[t]) \o Reverse(xq[t])
    BY <2>2, <2>3, <2>4 DEF BoxOf, Reverse
  <2>7. /\ BoxOf(t) # <<>> /\ BoxOf(t)' = Tail(BoxOf(t))
        /\ Head(BoxOf(t)) = Head(collect[t])
    BY <2>1, <2>5, <2>6, ConcatHead
  <2> QED
    BY <2>2, <2>7
<1>4. CASE DequeueAll(t)
  <2>1. collect[t] = <<>> /\ Reverse(xq[t]) \in Seq(Conn)
    BY <1>0, <1>4, ReverseFacts DEF DequeueAll, PlaceOf, TypeOK
  <2>2. /\ collect'[t] = Reverse(xq[t]) \o collect[t] /\ xq'[t] = <<>>
        /\ handled' = handled
    BY <1>0, <1>4 DEF DequeueAll, TypeOK
  <2>3. collect'[t] = Reverse(xq[t])
    BY <2>1, <2>2
  <2>4. Connections(collect[t])' = Reverse(xq[t])
    <3>1. Connections(collect'[t]) = Reverse(xq[t])
      BY <2>1, <2>3, NoPollNoChange
    <3> QED
      BY <3>1 DEF Connections
  <2>5. Reverse(xq[t])' = <<>>
    BY <2>2 DEF Reverse
  <2>6. BoxOf(t)' = Reverse(xq[t]) \o <<>> /\ BoxOf(t) = <<>> \o Reverse(xq[t])
    BY <2>1, <2>4, <2>5 DEF BoxOf, Connections
  <2> QED
    BY <2>1, <2>2, <2>6
<1>5. CASE IdleProcess(t)
  <2>1. postponed[t] = <<Poll>> /\ collect[t] \in Seq(Conn)
    BY <1>0, <1>5, NoPollBelow DEF IdleProcess, PollOf
  <2>2. /\ collect'[t] = <<Poll>> \o collect[t] /\ xq' = xq
        /\ handled' = handled
    BY <1>0, <1>5, <2>1 DEF IdleProcess, Process, Redo, Enqueue, TypeOK
  <2>3. Connections(collect[t]) = collect[t]
    BY <2>1, NoPollNoChange
  <2>4. Connections(collect[t])' = collect[t]
    <3>1. /\ <<Poll>> \o collect[t] # <<>> /\ Head(<<Poll>> \o collect[t]) = Poll
          /\ Tail(<<Poll>> \o collect[t]) = collect[t]
      BY <2>1
    <3> QED
      BY <2>2, <3>1 DEF Connections
  <2> QED
    BY <2>2, <2>3, <2>4 DEF BoxOf, Reverse
<1> QED
  BY <1>1, <1>2, <1>3, <1>4, <1>5 DEF ThreadStep

-----------------------------------------------------------------------------
(* The mailboxes are those of Mailbox *)

(***************************************************************************)
(* A connection that has been scheduled to some thread, handled or not,    *)
(* was accepted, and no accept thread is about to schedule it once more.   *)
(***************************************************************************)
Has(s, c) == \E i \in DOMAIN s : s[i] = c

Taken(c) == \E t \in Thread : Has(BoxOf(t), c) \/ Has(handled[t], c)

Holds(a, c) == Pending(a) /\ ev[a] = c

Fresh ==
  /\ \A a \in Acceptor, c \in Conn : Holds(a, c) => c \in accepted /\ ~ Taken(c)
  /\ \A a, b \in Acceptor, c \in Conn : Holds(a, c) /\ Holds(b, c) => a = b
  /\ \A c \in Conn : Taken(c) => c \in accepted

LEMMA HasAppend ==
  ASSUME NEW s \in Seq(Conn), NEW x \in Conn, NEW c
  PROVE  Has(Append(s, x), c) <=> Has(s, c) \/ c = x
<1> DEFINE r == Append(s, x)
<1>1. /\ DOMAIN r = 1 .. Len(s) + 1 /\ DOMAIN s = 1 .. Len(s) /\ Len(s) \in Nat
      /\ r[Len(s) + 1] = x /\ \A i \in 1 .. Len(s) : r[i] = s[i]
  OBVIOUS
<1> HIDE DEF r
<1>2. Has(r, c) => Has(s, c) \/ c = x
  <2> SUFFICES ASSUME NEW i \in DOMAIN r, r[i] = c, i # Len(s) + 1 PROVE Has(s, c)
    BY <1>1 DEF Has
  <2>1. i \in DOMAIN s
    BY <1>1
  <2> QED
    BY <1>1, <2>1 DEF Has
<1>3. Has(s, c) => Has(r, c)
  BY <1>1 DEF Has
<1>4. c = x => Has(r, c)
  BY <1>1 DEF Has
<1> QED
  BY <1>2, <1>3, <1>4 DEF r

LEMMA HasHeadTail ==
  ASSUME NEW s \in Seq(Conn), s # <<>>, NEW c
  PROVE  Has(s, c) <=> c = Head(s) \/ Has(Tail(s), c)
<1>1. Has(s, c) => c = Head(s) \/ Has(Tail(s), c)
  <2> SUFFICES ASSUME NEW i \in DOMAIN s, s[i] = c, i # 1
               PROVE  Has(Tail(s), c)
    BY DEF Has
  <2>1. i - 1 \in DOMAIN Tail(s) /\ Tail(s)[i - 1] = s[i]
    OBVIOUS
  <2> QED
    BY <2>1 DEF Has
<1>2. c = Head(s) => Has(s, c)
  BY DEF Has
<1>3. Has(Tail(s), c) => Has(s, c)
  <2> SUFFICES ASSUME NEW i \in DOMAIN Tail(s), Tail(s)[i] = c
               PROVE  Has(s, c)
    BY DEF Has
  <2>1. i + 1 \in DOMAIN s /\ Tail(s)[i] = s[i + 1]
    OBVIOUS
  <2> QED
    BY <2>1 DEF Has
<1> QED
  BY <1>1, <1>2, <1>3

LEMMA BoxTypes ==
  ASSUME LoopInv, NEW t \in Thread
  PROVE  BoxOf(t) \in Seq(Conn) /\ handled[t] \in Seq(Conn)
<1>1. TypeOK /\ PollOf(t)
  BY OneByOne DEF LoopInv
<1> QED
  BY <1>1, ConnectionsFacts DEF TypeOK

LEMMA InitFresh == Init => Fresh
<1> SUFFICES ASSUME Init PROVE Fresh
  OBVIOUS
<1>1. ASSUME NEW t \in Thread PROVE BoxOf(t) = <<>> /\ handled[t] = <<>>
  <2>1. collect[t] = <<>> /\ xq[t] = <<>> /\ handled[t] = <<>>
    BY DEF Init
  <2>2. Connections(<<>>) = <<>> /\ Reverse(<<>>) = <<>>
    BY DEF Connections, Reverse
  <2> QED
    BY <2>1, <2>2 DEF BoxOf
<1>2. \A c : ~ Taken(c)
  BY <1>1 DEF Taken, Has
<1>3. \A a \in Acceptor : ~ Pending(a)
  BY DEF Init, Pending
<1>4. \A a \in Acceptor, c \in Conn : ~ Holds(a, c)
  BY <1>3 DEF Holds
<1> QED
  BY <1>2, <1>4 DEF Fresh

(* The steps of an accept thread other than a push leave every mailbox alone. *)
LEMMA NoPushBox ==
  ASSUME LoopInv, NEW a \in Acceptor,
         Accept(a) \/ AssignRead(a) \/ AssignWrite(a) \/ WakeLock(a) \/ WakeSignal(a)
  PROVE  handled' = handled /\ \A t \in Thread : BoxOf(t)' = BoxOf(t)
<1>1. xq' = xq /\ collect' = collect /\ handled' = handled
  BY DEF Accept, AssignRead, AssignWrite, WakeLock, WakeSignal, localVars
<1> QED
  BY <1>1 DEF BoxOf, Connections, Reverse

(* Only a push makes a connection taken. *)
LEMMA AcceptFresh ==
  ASSUME LoopInv, Fresh, NEW a \in Acceptor, Accept(a)
  PROVE  Fresh'
<1>1. \A c : Taken(c)' <=> Taken(c)
  BY NoPushBox DEF Taken, Has
<1>2. PICK c \in Conn \ accepted :
        /\ accepted' = accepted \cup {c} /\ ev' = [ev EXCEPT ![a] = c]
        /\ apc' = [apc EXCEPT ![a] = "read"]
  BY DEF Accept
<1>3. ~ Taken(c)
  BY <1>2 DEF Fresh
<1>4. \A b \in Acceptor, x \in Conn :
        Holds(b, x)' <=> IF b = a THEN x = c ELSE Holds(b, x)
  <2>1. Holds(a, c)' /\ \A x \in Conn : Holds(a, x)' => x = c
    BY <1>2 DEF LoopInv, TypeOK, Holds, Pending
  <2>2. \A b \in Acceptor \ {a} : ev'[b] = ev[b] /\ apc'[b] = apc[b]
    BY <1>2 DEF LoopInv, TypeOK
  <2> QED
    BY <2>1, <2>2 DEF Holds, Pending
<1>5. ASSUME NEW b \in Acceptor, NEW x \in Conn, Holds(b, x)'
      PROVE  x \in accepted' /\ ~ Taken(x)'
  BY <1>1, <1>2, <1>3, <1>4, <1>5 DEF Fresh
<1>6. ASSUME NEW b \in Acceptor, NEW d \in Acceptor, NEW x \in Conn,
             Holds(b, x)', Holds(d, x)'
      PROVE  b = d
  BY <1>2, <1>4, <1>6 DEF Fresh
<1>7. \A x \in Conn : Taken(x)' => x \in accepted'
  BY <1>1, <1>2 DEF Fresh
<1> QED
  BY <1>5, <1>6, <1>7 DEF Fresh

LEMMA PushFresh ==
  ASSUME LoopInv, Fresh, NEW a \in Acceptor, Push(a)
  PROVE  Fresh'
<1>1. PICK u \in Thread :
        /\ BoxOf(u)' = Append(BoxOf(u), ev[a])
        /\ \A w \in Thread \ {u} : BoxOf(w)' = BoxOf(w)
  BY PushBox
<1>2. ev[a] \in Conn /\ handled' = handled /\ accepted' = accepted
  BY PushBox DEF Push
<1>3. \A c \in Conn : Taken(c)' <=> Taken(c) \/ c = ev[a]
  <2> TAKE c \in Conn
  <2>1. Has(BoxOf(u), c)' <=> Has(BoxOf(u), c) \/ c = ev[a]
    <3>1. Has(Append(BoxOf(u), ev[a]), c) <=> Has(BoxOf(u), c) \/ c = ev[a]
      BY <1>2, HasAppend, BoxTypes
    <3> QED
      BY <1>1, <3>1 DEF Has
  <2>2. \A w \in Thread \ {u} : Has(BoxOf(w), c)' <=> Has(BoxOf(w), c)
    BY <1>1 DEF Has
  <2>3. \A w \in Thread : Has(handled[w], c)' <=> Has(handled[w], c)
    BY <1>2 DEF Has
  <2> QED
    BY <2>1, <2>2, <2>3 DEF Taken
<1>4. Holds(a, ev[a])
  BY DEF Push, Holds, Pending
<1>5. \A b \in Acceptor, x \in Conn : Holds(b, x)' => b # a /\ Holds(b, x)
  BY DEF Push, Holds, Pending, LoopInv, TypeOK
<1> QED
  BY <1>2, <1>3, <1>4, <1>5 DEF Fresh

LEMMA OtherAcceptorFresh ==
  ASSUME LoopInv, Fresh, NEW a \in Acceptor,
         AssignRead(a) \/ AssignWrite(a) \/ WakeLock(a) \/ WakeSignal(a)
  PROVE  Fresh'
<1>1. \A c : Taken(c)' <=> Taken(c)
  BY NoPushBox DEF Taken, Has
<1>2. accepted' = accepted
  BY DEF AssignRead, AssignWrite, WakeLock, WakeSignal
<1>3. \A b \in Acceptor, x \in Conn : Holds(b, x)' => Holds(b, x)
  BY DEF AssignRead, AssignWrite, WakeLock, WakeSignal, Holds, Pending, LoopInv,
         TypeOK
<1> QED
  BY <1>1, <1>2, <1>3 DEF Fresh

(* Handling moves a connection from one side of Taken to the other. *)
LEMMA ThreadFresh ==
  ASSUME LoopInv, Fresh, NEW t \in Thread, ThreadStep(t)
  PROVE  Fresh'
<1>1. \A u \in Thread \ {t} : BoxOf(u)' = BoxOf(u)
  BY OtherThreads DEF LoopInv, BoxOf, Connections, Reverse
<1>2. UNCHANGED <<accepted, ev, apc>>
  BY DEF ThreadStep, ThreadInit, DrainIdle, DrainProcess, DrainEnd, TestExternal,
         DequeueLock, DequeueTest, DequeueAll, IdleProcess, IdleEnd, acceptVars
<1>3. \A c \in Conn : Taken(c)' <=> Taken(c)
  <2> TAKE c \in Conn
  <2>1. CASE BoxOf(t)' = BoxOf(t) /\ handled' = handled
    BY <1>1, <2>1 DEF Taken, Has
  <2>2. CASE /\ BoxOf(t) # <<>> /\ BoxOf(t)' = Tail(BoxOf(t))
             /\ handled' = [handled EXCEPT ![t] = Append(@, Head(BoxOf(t)))]
    <3>1. /\ BoxOf(t) \in Seq(Conn) /\ handled[t] \in Seq(Conn)
          /\ Head(BoxOf(t)) \in Conn
      BY <2>2, BoxTypes
    <3>2. /\ Has(BoxOf(t), c) <=> c = Head(BoxOf(t)) \/ Has(Tail(BoxOf(t)), c)
          /\ Has(Append(handled[t], Head(BoxOf(t))), c)
               <=> Has(handled[t], c) \/ c = Head(BoxOf(t))
      BY <2>2, <3>1, HasAppend, HasHeadTail
    <3>3. /\ handled'[t] = Append(handled[t], Head(BoxOf(t)))
          /\ \A u \in Thread \ {t} : handled'[u] = handled[u]
      BY <2>2 DEF LoopInv, TypeOK
    <3>4. Has(BoxOf(t), c)' \/ Has(handled[t], c)'
            <=> Has(BoxOf(t), c) \/ Has(handled[t], c)
      BY <2>2, <3>2, <3>3 DEF Has
    <3>5. \A u \in Thread \ {t} :
            Has(BoxOf(u), c)' \/ Has(handled[u], c)'
              <=> Has(BoxOf(u), c) \/ Has(handled[u], c)
      BY <1>1, <3>3 DEF Has
    <3> QED
      BY <3>4, <3>5 DEF Taken
  <2> QED
    BY <2>1, <2>2, ThreadBox
<1>4. \A a \in Acceptor, x \in Conn : Holds(a, x)' <=> Holds(a, x)
  BY <1>2 DEF Holds, Pending
<1> QED
  BY <1>2, <1>3, <1>4 DEF Fresh

MailInv == LoopInv /\ Fresh

LEMMA StepMail == MailInv /\ [Next]_vars => MailInv'
<1> SUFFICES ASSUME LoopInv, Fresh, [Next]_vars PROVE Fresh'
  BY StepLoop DEF MailInv
<1>1. ASSUME NEW a \in Acceptor, Accept(a) \/ Scheduling(a) PROVE Fresh'
  BY <1>1, AcceptFresh, PushFresh, OtherAcceptorFresh DEF Scheduling
<1>2. ASSUME NEW t \in Thread, ThreadStep(t) PROVE Fresh'
  BY <1>2, ThreadFresh
<1>3. CASE UNCHANGED vars
  <2>1. UNCHANGED <<accepted, apc, ev, xq, collect, handled>>
    BY <1>3 DEF vars, acceptVars, localVars
  <2>2. \A t \in Thread : BoxOf(t)' = BoxOf(t)
    BY <2>1 DEF BoxOf, Connections, Reverse
  <2>3. \A c : Taken(c)' <=> Taken(c)
    BY <2>1, <2>2 DEF Taken, Has
  <2>4. \A a \in Acceptor, c \in Conn : Holds(a, c)' <=> Holds(a, c)
    BY <2>1 DEF Holds, Pending
  <2> QED
    BY <2>1, <2>3, <2>4 DEF Fresh
<1> QED
  BY <1>1, <1>2, <1>3 DEF Next

LEMMA InitMail == Init => Mail!MailInit
<1> SUFFICES ASSUME Init PROVE Mail!MailInit
  OBVIOUS
<1>1. ASSUME NEW t \in Thread
      PROVE  Connections(collect[t]) \o Reverse(xq[t]) = <<>>
  <2>1. collect[t] = <<>> /\ xq[t] = <<>>
    BY DEF Init
  <2>2. Connections(<<>>) = <<>> /\ Reverse(<<>>) = <<>>
    BY DEF Connections, Reverse
  <2> QED
    BY <2>1, <2>2
<1>2. Box = [t \in Thread |-> <<>>]
  BY <1>1 DEF Box
<1> QED
  BY <1>2 DEF Mail!MailInit, Init

LEMMA BoxIs ==
  /\ \A t \in Thread : Box[t] = BoxOf(t) /\ Box'[t] = BoxOf(t)'
  /\ Box = [t \in Thread |-> BoxOf(t)] /\ Box' = [t \in Thread |-> BoxOf(t)']
BY DEF Box, BoxOf

LEMMA StepRefines ==
  MailInv /\ [Next]_vars => [Mail!MailNext]_(Mail!mailVars)
<1> SUFFICES ASSUME LoopInv, Fresh, [Next]_vars
             PROVE  Mail!MailNext \/ (Box' = Box /\ handled' = handled)
  BY DEF MailInv, Mail!mailVars
<1>1. ASSUME NEW a \in Acceptor, Push(a) PROVE Mail!MailNext
  <2>1. PICK u \in Thread :
          /\ BoxOf(u)' = Append(BoxOf(u), ev[a])
          /\ \A w \in Thread \ {u} : BoxOf(w)' = BoxOf(w)
    BY <1>1, PushBox
  <2>2. ev[a] \in Conn /\ handled' = handled
    BY <1>1, PushBox
  <2>3. Box' = [Box EXCEPT ![u] = Append(@, ev[a])]
    BY <2>1, BoxIs
  <2>4. ~ Taken(ev[a])
    BY <1>1, <2>2 DEF Push, Fresh, Holds, Pending
  <2>5. \A w \in Thread : ~ Mail!In(ev[a], Box[w]) /\ ~ Mail!In(ev[a], handled[w])
    BY <2>4, BoxIs DEF Taken, Has, Mail!In
  <2>6. Mail!Schedule(u, ev[a])
    BY <2>2, <2>3, <2>5 DEF Mail!Schedule
  <2> QED
    BY <2>2, <2>6 DEF Mail!MailNext
<1>2. ASSUME NEW a \in Acceptor,
             Accept(a) \/ AssignRead(a) \/ AssignWrite(a) \/ WakeLock(a)
               \/ WakeSignal(a)
      PROVE  Box' = Box /\ handled' = handled
  BY <1>2, NoPushBox, BoxIs
<1>3. ASSUME NEW t \in Thread, ThreadStep(t)
      PROVE  Mail!MailNext \/ (Box' = Box /\ handled' = handled)
  <2>1. \A u \in Thread \ {t} : BoxOf(u)' = BoxOf(u)
    BY <1>3, OtherThreads DEF LoopInv, BoxOf, Connections, Reverse
  <2>2. CASE BoxOf(t)' = BoxOf(t) /\ handled' = handled
    BY <2>1, <2>2, BoxIs
  <2>3. CASE /\ BoxOf(t) # <<>> /\ BoxOf(t)' = Tail(BoxOf(t))
             /\ handled' = [handled EXCEPT ![t] = Append(@, Head(BoxOf(t)))]
    <3>1. Box' = [Box EXCEPT ![t] = Tail(@)]
      BY <2>1, <2>3, BoxIs
    <3>2. Mail!Handle(t)
      BY <2>3, <3>1, BoxIs DEF Mail!Handle
    <3> QED
      BY <3>2 DEF Mail!MailNext
  <2> QED
    BY <1>3, <2>2, <2>3, ThreadBox
<1>4. CASE UNCHANGED vars
  BY <1>4 DEF vars, localVars, Box, Connections, Reverse
<1> QED
  BY <1>1, <1>2, <1>3, <1>4 DEF Next, Scheduling

(***************************************************************************)
(* Every connection is scheduled once and handled in the order of the      *)
(* pushes, whatever the number of accept threads: the two reversals, of    *)
(* the stack and of the collect queue, cancel out.                         *)
(***************************************************************************)
THEOREM Refinement == Spec => ImplementsMailbox
<1>1. Init => MailInv
  BY InitLoop, InitFresh DEF MailInv
<1> QED
  BY <1>1, StepMail, InitMail, StepRefines, PTL
  DEF Spec, ImplementsMailbox, Mail!MailSpec
-----------------------------------------------------------------------------
(* How the connections are spread by a single accept thread *)

LEMMA Times ==
  ASSUME NEW n \in Nat \ {0}, NEW c \in Int, c >= 1
  PROVE  n * c >= n
OBVIOUS

LEMMA Distributes ==
  ASSUME NEW n \in Nat \ {0}, NEW a \in Int, NEW b \in Int
  PROVE  n * a - n * b = n * (a - b)
OBVIOUS

(* Quotient and remainder are unique. *)
LEMMA RemainderUnique ==
  ASSUME NEW n \in Nat \ {0}, NEW a \in Int, NEW b \in Int,
         NEW r \in 0 .. n - 1, NEW s \in 0 .. n - 1, n * a + r = n * b + s
  PROVE  r = s
<1>1. CASE a - b >= 1
  BY <1>1, Times, Distributes
<1>2. CASE b - a >= 1
  BY <1>2, Times, Distributes
<1>3. CASE a = b
  BY <1>3
<1> QED
  BY <1>1, <1>2, <1>3

LEMMA DivFacts ==
  ASSUME NEW n \in Nat \ {0}, NEW m \in Nat
  PROVE  /\ m = n * (m \div n) + (m % n)
         /\ m % n \in 0 .. n - 1 /\ m \div n \in Nat
OBVIOUS

(* The next remainder is the next thread, and the first one after the last. *)
LEMMA NextRemainder ==
  ASSUME NEW n \in Nat \ {0}, NEW m \in Nat
  PROVE  (m + 1) % n = IF m % n = n - 1 THEN 0 ELSE (m % n) + 1
<1> DEFINE d == m \div n
           r == m % n
           e == (m + 1) \div n
           s == (m + 1) % n
<1>1. m = n * d + r /\ r \in 0 .. n - 1 /\ d \in Nat
  BY DivFacts
<1>2. m + 1 = n * e + s /\ s \in 0 .. n - 1 /\ e \in Nat
  <2>1. m + 1 \in Nat
    OBVIOUS
  <2> HIDE DEF d, r
  <2> QED
    BY <2>1, DivFacts
<1>3. n * (d + 1) = n * d + n /\ n * (d + 1) \in Int /\ n * d \in Int
  BY <1>1, Distributes
<1> HIDE DEF d, r, e, s
<1>4. CASE r = n - 1
  <2>1. n * e + s = n * (d + 1) + 0
    BY <1>1, <1>2, <1>3, <1>4
  <2>2. 0 \in 0 .. n - 1 /\ d + 1 \in Int /\ e \in Int
    BY <1>1, <1>2
  <2>3. s = 0
    BY <1>2, <2>1, <2>2, RemainderUnique
  <2> QED
    BY <1>4, <2>3 DEF r, s
<1>5. CASE r # n - 1
  <2>1. n * e + s = n * d + (r + 1)
    BY <1>1, <1>2, <1>3, <1>5
  <2>2. r + 1 \in 0 .. n - 1 /\ d \in Int /\ e \in Int
    BY <1>1, <1>2, <1>5
  <2>3. s = r + 1
    BY <1>2, <2>1, <2>2, RemainderUnique
  <2> QED
    BY <1>5, <2>3 DEF r, s
<1> QED
  BY <1>4, <1>5

OneAcceptor == \A a, b \in Acceptor : a = b

(* Between the store to next_thread and the push the counter is one ahead. *)
Pushing == \E a \in Acceptor : apc[a] = "push"

Pushed == IF Pushing THEN nextThread - 1 ELSE nextThread

Counts ==
  \A a \in Acceptor :
    /\ apc[a] = "write" => idx[a] = nextThread
    /\ apc[a] = "push" => nextThread = idx[a] + 1

(***************************************************************************)
(* The connections that were pushed went round the threads: those before   *)
(* the next one in turn have one more than the others.                     *)
(***************************************************************************)
Rounds ==
  \E q \in Nat :
    \A t \in Thread : Load(t) = IF t < Pushed % NThreads THEN q + 1 ELSE q

EvenInv == LoopInv /\ Counts /\ Rounds

LEMMA PushedIsNat ==
  ASSUME TypeOK, Counts
  PROVE  Pushed \in Nat
<1>1. CASE Pushing
  <2>1. PICK a \in Acceptor : apc[a] = "push"
    BY <1>1 DEF Pushing
  <2>2. nextThread = idx[a] + 1 /\ idx[a] \in Nat
    BY <2>1 DEF Counts, TypeOK
  <2> QED
    BY <1>1, <2>2 DEF Pushed
<1>2. CASE ~ Pushing
  BY <1>2 DEF Pushed, TypeOK
<1> QED
  BY <1>1, <1>2

LEMMA LoadIs ==
  ASSUME LoopInv, NEW t \in Thread
  PROVE  Load(t) = Len(handled[t]) + Len(BoxOf(t)) /\ Load(t) \in Nat
<1>1. BoxOf(t) \in Seq(Conn) /\ handled[t] \in Seq(Conn) /\ Box[t] = BoxOf(t)
  BY BoxTypes, BoxIs
<1>2. Len(BoxOf(t)) \in Nat /\ Len(handled[t]) \in Nat
  BY <1>1
<1> QED
  BY <1>1, <1>2 DEF Load

LEMMA LoadIsNext ==
  ASSUME NEW t \in Thread
  PROVE  Load(t)' = Len(handled'[t]) + Len(BoxOf(t)')
BY BoxIs DEF Load

(* The steps of the threads take from a mailbox what they handle. *)
LEMMA ThreadLoad ==
  ASSUME LoopInv, NEW t \in Thread, ThreadStep(t), NEW u \in Thread
  PROVE  Load(u)' = Load(u)
<1>1. CASE u # t
  <2>1. handled'[u] = handled[u] /\ BoxOf(u)' = BoxOf(u)
    BY <1>1, OtherThreads DEF LoopInv, BoxOf, Connections, Reverse
  <2> QED
    BY <2>1, LoadIs, LoadIsNext
<1>2. CASE u = t
  <2> DEFINE b == BoxOf(t)
             h == handled[t]
  <2>1. b \in Seq(Conn) /\ h \in Seq(Conn)
    BY BoxTypes
  <2>2. CASE BoxOf(t)' = b /\ handled' = handled
    BY <1>2, <2>2, LoadIs, LoadIsNext
  <2>3. CASE /\ b # <<>> /\ BoxOf(t)' = Tail(b)
             /\ handled' = [handled EXCEPT ![t] = Append(@, Head(b))]
    <3>1. handled'[t] = Append(h, Head(b))
      BY <2>3 DEF LoopInv, TypeOK
    <3>2. Load(t)' = Len(Append(h, Head(b))) + Len(Tail(b))
      <4>1. Load(t)' = Len(handled'[t]) + Len(BoxOf(t)')
        BY LoadIsNext
      <4> QED
        BY <2>3, <3>1, <4>1, Zenon
    <3>3. Load(t) = Len(h) + Len(b)
      BY LoadIs
    <3> HIDE DEF b, h
    <3>4. Len(Append(h, Head(b))) = Len(h) + 1 /\ Len(Tail(b)) = Len(b) - 1
          /\ Len(h) \in Nat /\ Len(b) \in Nat
      BY <2>1, <2>3
    <3>5. Len(Append(h, Head(b))) + Len(Tail(b)) = Len(h) + Len(b)
      BY <2>1, <2>3, <3>4
    <3> QED
      BY <1>2, <3>2, <3>3, <3>5, Zenon
  <2> QED
    BY <2>2, <2>3, ThreadBox, Zenon
<1> QED
  BY <1>1, <1>2
(* A push gives the thread in turn one more. *)
LEMMA PushLoad ==
  ASSUME LoopInv, NEW a \in Acceptor, Push(a), NEW u \in Thread
  PROVE  Load(u)' = IF u = Target(a) THEN Load(u) + 1 ELSE Load(u)
<1>1. PICK t \in Thread :
        /\ t = Target(a)
        /\ BoxOf(t)' = Append(BoxOf(t), ev[a])
        /\ \A w \in Thread \ {t} : BoxOf(w)' = BoxOf(w)
  BY PushBox
<1>2. ev[a] \in Conn /\ handled' = handled
  BY PushBox
<1>3. CASE u # t
  <2>1. Load(u)' = Load(u)
    BY <1>1, <1>2, <1>3, LoadIs, LoadIsNext
  <2> QED
    BY <1>1, <1>3, <2>1
<1>4. CASE u = t
  <2> DEFINE b == BoxOf(u)
             n == Len(handled[u])
             x == ev[a]
  <2>1. b \in Seq(Conn) /\ handled[u] \in Seq(Conn)
    BY BoxTypes
  <2>2. Load(u)' = n + Len(Append(b, x))
    <3>1. Load(u)' = Len(handled'[u]) + Len(BoxOf(u)')
      BY LoadIsNext
    <3>2. BoxOf(u)' = Append(b, x)
      BY <1>1, <1>4
    <3> QED
      BY <1>2, <3>1, <3>2, Zenon
  <2>3. Load(u) = n + Len(b)
    BY LoadIs
  <2>4. n \in Nat
    BY <2>1
  <2> HIDE DEF b, n, x
  <2>5. n + Len(Append(b, x)) = (n + Len(b)) + 1
    <3>1. Len(Append(b, x)) = Len(b) + 1 /\ Len(b) \in Nat
      BY <2>1
    <3> QED
      BY <2>1, <2>4, <3>1
  <2>6. Load(u)' = Load(u) + 1
    BY <2>2, <2>3, <2>5, Zenon
  <2> QED
    BY <1>1, <1>4, <2>6
<1> QED
  BY <1>3, <1>4

LEMMA AcceptorCounts ==
  ASSUME OneAcceptor, LoopInv, Counts, NEW a \in Acceptor, Accept(a) \/ Scheduling(a)
  PROVE  /\ Counts'
         /\ Push(a) => Pushed = idx[a] /\ Pushed' = Pushed + 1
         /\ ~ Push(a) => Pushed' = Pushed
<1> USE DEF LoopInv, TypeOK
<1>1. Acceptor = {a}
  BY DEF OneAcceptor
<1>2. /\ Pushing <=> apc[a] = "push"
      /\ Pushing' <=> apc'[a] = "push"
  BY <1>1 DEF Pushing
<1>3. /\ apc[a] = "write" => idx[a] = nextThread
      /\ apc[a] = "push" => nextThread = idx[a] + 1
      /\ idx[a] \in Nat /\ nextThread \in Nat
  BY DEF Counts
<1>4. /\ apc'[a] = "write" => idx'[a] = nextThread'
      /\ apc'[a] = "push" => nextThread' = idx'[a] + 1
      /\ Push(a) => Pushed = idx[a] /\ Pushed' = Pushed + 1
      /\ ~ Push(a) => Pushed' = Pushed
  <2> USE DEF Pushed
  <2>1. CASE Accept(a)
    BY <1>2, <1>3, <2>1 DEF Accept, Push
  <2>2. CASE AssignRead(a)
    BY <1>2, <1>3, <2>2 DEF AssignRead, Push
  <2>3. CASE AssignWrite(a)
    BY <1>2, <1>3, <2>3 DEF AssignWrite, Push
  <2>4. CASE Push(a)
    <3>1. /\ apc[a] = "push" /\ apc'[a] \in {"wake", "accept"}
          /\ nextThread' = nextThread
      BY <2>4 DEF Push
    <3>2. apc'[a] # "push" /\ apc'[a] # "write"
      BY <3>1
    <3> QED
      BY <1>2, <1>3, <2>4, <3>1, <3>2
  <2>5. CASE WakeLock(a) \/ WakeSignal(a)
    BY <1>2, <1>3, <2>5 DEF WakeLock, WakeSignal, Push
  <2> QED
    BY <2>1, <2>2, <2>3, <2>4, <2>5 DEF Scheduling
<1> QED
  BY <1>1, <1>4 DEF Counts

LEMMA PushRounds ==
  ASSUME OneAcceptor, EvenInv, NEW a \in Acceptor, Push(a)
  PROVE  Rounds'
<1> DEFINE r == Pushed % NThreads
           s == (Pushed + 1) % NThreads
<1>1. LoopInv /\ Counts /\ TypeOK
  BY DEF EvenInv, LoopInv
<1>2. Pushed = idx[a] /\ Pushed' = Pushed + 1 /\ Pushed \in Nat
  BY <1>1, AcceptorCounts, PushedIsNat DEF Scheduling
<1>3. Target(a) = r /\ r \in 0 .. NThreads - 1
  BY <1>2, DivFacts DEF Target
<1>4. s = IF r = NThreads - 1 THEN 0 ELSE r + 1
  BY <1>2, NextRemainder
<1>5. \A t \in Thread : Load(t)' = IF t = r THEN Load(t) + 1 ELSE Load(t)
  BY <1>1, <1>3, PushLoad
<1>6. PICK q \in Nat : \A t \in Thread : Load(t) = IF t < r THEN q + 1 ELSE q
  BY DEF EvenInv, Rounds
<1>7. Pushed' % NThreads = s
  BY <1>2
<1> HIDE DEF r, s
<1>8. \A t \in Thread :
        Load(t)' = IF t < s THEN (IF s = 0 THEN q + 1 ELSE q) + 1
                   ELSE IF s = 0 THEN q + 1 ELSE q
  BY <1>3, <1>4, <1>5, <1>6 DEF Thread
<1>9. (IF s = 0 THEN q + 1 ELSE q) \in Nat
  OBVIOUS
<1> DEFINE p == IF s = 0 THEN q + 1 ELSE q
<1> HIDE DEF p
<1>10. p \in Nat /\ \A t \in Thread : Load(t)' = IF t < Pushed' % NThreads THEN p + 1 ELSE p
  BY <1>7, <1>8, <1>9 DEF p
<1> QED
  BY <1>10 DEF Rounds

LEMMA SameRounds ==
  ASSUME Rounds, Pushed' = Pushed, \A t \in Thread : Load(t)' = Load(t)
  PROVE  Rounds'
BY DEF Rounds

LEMMA StepEven == OneAcceptor /\ EvenInv /\ [Next]_vars => EvenInv'
<1> SUFFICES ASSUME OneAcceptor, EvenInv, [Next]_vars
             PROVE  LoopInv' /\ Counts' /\ Rounds'
  BY DEF EvenInv
<1>0. LoopInv /\ Counts /\ Rounds /\ LoopInv'
  BY StepLoop DEF EvenInv
<1>1. ASSUME NEW a \in Acceptor, Accept(a) \/ Scheduling(a) PROVE Counts' /\ Rounds'
  <2>1. Counts' /\ (~ Push(a) => Pushed' = Pushed)
    BY <1>0, <1>1, AcceptorCounts
  <2>2. CASE Push(a)
    BY <2>1, <2>2, PushRounds
  <2>3. CASE ~ Push(a)
    <3>1. handled' = handled /\ \A t \in Thread : BoxOf(t)' = BoxOf(t)
      BY <1>0, <1>1, <2>3, NoPushBox DEF Scheduling
    <3>2. \A t \in Thread : Load(t)' = Load(t)
      BY <1>0, <3>1, LoadIs, LoadIsNext
    <3> QED
      BY <1>0, <2>1, <2>3, <3>2, SameRounds
  <2> QED
    BY <2>2, <2>3
<1>2. ASSUME NEW t \in Thread, ThreadStep(t) PROVE Counts' /\ Rounds'
  <2>1. UNCHANGED <<nextThread, idx, apc>>
    BY <1>2 DEF ThreadStep, ThreadInit, DrainIdle, DrainProcess, DrainEnd, TestExternal,
                DequeueLock, DequeueTest, DequeueAll, IdleProcess, IdleEnd, acceptVars
  <2>2. Counts' /\ Pushed' = Pushed
    BY <1>0, <2>1 DEF Counts, Pushed, Pushing
  <2>3. \A u \in Thread : Load(u)' = Load(u)
    BY <1>0, <1>2, ThreadLoad
  <2> QED
    BY <1>0, <2>2, <2>3, SameRounds
<1>3. CASE UNCHANGED vars
  <2>1. UNCHANGED <<nextThread, idx, apc, xq, collect, handled>>
    BY <1>3 DEF vars, acceptVars, localVars
  <2>2. Counts' /\ Pushed' = Pushed
    BY <1>0, <2>1 DEF Counts, Pushed, Pushing
  <2>3. \A u \in Thread : BoxOf(u)' = BoxOf(u)
    BY <2>1 DEF BoxOf, Connections, Reverse
  <2>4. \A u \in Thread : Load(u)' = Load(u)
    BY <1>0, <2>1, <2>3, LoadIs, LoadIsNext
  <2> QED
    BY <1>0, <2>2, <2>4, SameRounds
<1> QED
  BY <1>0, <1>1, <1>2, <1>3 DEF Next

(***************************************************************************)
(* With a single accept thread (MAX_ACCEPTOR_THREADS is 1) next_thread++   *)
(* is not disturbed, and no two event threads ever differ by more than one *)
(* in the connections that were scheduled to them.                         *)
(***************************************************************************)
THEOREM SpreadsEvenly == OneAcceptor => (Spec => []EvenLoad)
<1> SUFFICES ASSUME OneAcceptor PROVE Spec => []EvenLoad
  OBVIOUS
<1>0. EvenInv /\ [Next]_vars => EvenInv'
  BY StepEven
<1>1. Init => EvenInv
  <2> SUFFICES ASSUME Init PROVE EvenInv
    OBVIOUS
  <2>1. LoopInv
    BY InitLoop
  <2>2. /\ \A t \in Thread : collect[t] = <<>> /\ xq[t] = <<>> /\ handled[t] = <<>>
        /\ \A a \in Acceptor : apc[a] = "accept"
        /\ nextThread = 0
    BY DEF Init
  <2>3. Counts /\ Pushed = 0
    BY <2>2 DEF Counts, Pushed, Pushing
  <2>4. ASSUME NEW t \in Thread PROVE Load(t) = 0
    <3>1. Connections(<<>>) = <<>> /\ Reverse(<<>>) = <<>>
      BY DEF Connections, Reverse
    <3>2. BoxOf(t) = <<>> \o <<>>
      BY <2>2, <3>1 DEF BoxOf
    <3>3. Load(t) = Len(handled[t]) + Len(BoxOf(t))
      BY <2>1, LoadIs
    <3> QED
      BY <2>2, <3>2, <3>3
  <2>5. 0 % NThreads = 0
    OBVIOUS
  <2>6. \A t \in Thread : Load(t) = IF t < Pushed % NThreads THEN 0 + 1 ELSE 0
    BY <2>3, <2>4, <2>5 DEF Thread
  <2>7. Rounds
    BY <2>6 DEF Rounds
  <2> QED
    BY <2>1, <2>3, <2>7 DEF EvenInv
<1>2. EvenInv => EvenLoad
  <2> SUFFICES ASSUME EvenInv PROVE EvenLoad
    OBVIOUS
  <2> DEFINE r == Pushed % NThreads
  <2>1. PICK q \in Nat : \A t \in Thread : Load(t) = IF t < r THEN q + 1 ELSE q
    BY DEF EvenInv, Rounds
  <2> HIDE DEF r
  <2>2. \A t \in Thread : Load(t) = q \/ Load(t) = q + 1
    BY <2>1
  <2> QED
    BY <2>2 DEF EvenLoad
<1> QED
  BY <1>0, <1>1, <1>2, PTL DEF Spec
=============================================================================
