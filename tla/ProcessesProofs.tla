--------------------------- MODULE ProcessesProofs ---------------------------
(***************************************************************************)
(* The safety properties of Processes, for any number of launches, signals *)
(* and crashes.                                                            *)
(*                                                                         *)
(* The inductive invariant says which of its places in main() each of the  *)
(* three processes of a launch can be at, that whoever is past sigprocmask *)
(* has the signals blocked and no thread that has not, and that the port   *)
(* is only ever somebody's who has the threads to serve it.                *)
(***************************************************************************)
EXTENDS Processes, TLAPS

(* worker_process_init and the loop of the worker *)
WorkerPcs == {"threads", "unlink", "bind", "listen", "asleep"}

RolesOf(l) ==
  /\ mode[l] = "none" =>
       pc[First(l)] = "unborn" /\ pc[Second(l)] = "unborn" /\ pc[Worker(l)] = "unborn"
  /\ mode[l] = "foreground" =>
       pc[First(l)] # "daemon" /\ pc[Second(l)] = "unborn" /\ pc[Worker(l)] = "unborn"
  /\ mode[l] = "daemon" => pc[First(l)] \notin WorkerPcs /\ pc[Second(l)] \notin WorkerPcs
  /\ mode[l] # "foreground" => threads[First(l)] = "none" /\ threads[Second(l)] = "none"
  /\ pc[First(l)] # "setsid" /\ pc[Second(l)] # "daemon"
  /\ pc[Worker(l)] \in WorkerPcs \cup {"unborn", "zombie", "gone"}
  /\ pc[First(l)] \in {"daemon", "block", "start"} =>
       pc[Second(l)] = "unborn" /\ pc[Worker(l)] = "unborn"
  /\ pc[Second(l)] \in {"setsid", "block", "start"} => pc[Worker(l)] = "unborn"

Roles == \A l \in 1 .. Launches : RolesOf(l)

Masks ==
  \A x \in Procs :
    /\ threads[x] # "open"
    /\ pc[x] \in WorkerPcs \cup {"start", "suspend", "woken", "loop"} => blocked[x]

Servers ==
  /\ \A x \in Procs : pc[x] \in WorkerPcs \ {"threads"} => threads[x] # "none"
  /\ port \in Procs => Alive(port) /\ threads[port] # "none"

Inv == TypeOK /\ Roles /\ Masks /\ Servers /\ NameBound

-----------------------------------------------------------------------------
(* The processes of a launch are three, and nothing else is a process. *)
LEMMA ProcFacts ==
  /\ \A l \in 1 .. Launches :
       /\ First(l) \in Procs /\ Second(l) \in Procs /\ Worker(l) \in Procs
       /\ First(l)[1] = l /\ Second(l)[1] = l /\ Worker(l)[1] = l
       /\ First(l) # Second(l) /\ First(l) # Worker(l) /\ Second(l) # Worker(l)
       /\ Worker(l)[2] = "worker"
  /\ \A x \in Procs :
       x[1] \in 1 .. Launches
         /\ (x = First(x[1]) \/ x = Second(x[1]) \/ x = Worker(x[1]))
  /\ System \notin Procs /\ Free \notin Procs /\ Closing \notin Procs
  /\ Missing \notin Procs
  BY DEF Procs, First, Second, Worker, System, Free, Closing, Missing

(* Processes of different launches are different. *)
LEMMA Apart ==
  ASSUME NEW k \in 1 .. Launches, NEW l \in 1 .. Launches, k # l
  PROVE  /\ First(k) # First(l) /\ First(k) # Second(l) /\ First(k) # Worker(l)
         /\ Second(k) # First(l) /\ Second(k) # Second(l) /\ Second(k) # Worker(l)
         /\ Worker(k) # First(l) /\ Worker(k) # Second(l) /\ Worker(k) # Worker(l)
  BY ProcFacts

(***************************************************************************)
(* A process that serves is deaf: it has no thread that a signal could be  *)
(* delivered to.  A process in the loop has its main thread only.          *)
(***************************************************************************)
LEMMA Deaf ==
  ASSUME Masks, NEW x \in Procs
  PROVE  /\ pc[x] \in WorkerPcs => Takers(x) = {}
         /\ Takers(x) \subseteq {"main"}
  BY DEF Masks, Takers, WorkerPcs

-----------------------------------------------------------------------------
(* The processes, their signals and what they own keep their types. *)

LEMMA TypeInit == Init => TypeOK
  BY ProcFacts, BoundAssumption
  DEF Init, TypeOK, Live, Signals

LEMMA ForkKeepsType ==
  ASSUME TypeOK, NEW x \in Procs, NEW y \in Procs,
         NEW here \in Live, NEW next \in Live, Fork(x, y, here, next, blocked[x])
  PROVE  TypeOK'
  BY DEF TypeOK, Fork, outsideVars

LEMMA PassKeepsType ==
  ASSUME TypeOK, NEW x \in Procs, NEW here, NEW next \in Live, Passes(x, here, next)
  PROVE  TypeOK'
  BY DEF TypeOK, Passes, Goes, outsideVars, signalVars

LEMMA EndKeepsType ==
  ASSUME TypeOK, NEW x \in Procs, NEW told, NEW s \in Signals, Ends(x, told, s),
         sent' = sent, kills' \in 0 .. MaxKills
  PROVE  TypeOK'
  <1>1. "CHLD" \in Signals
    BY DEF Signals
  <1>2. pc' \in [Procs -> Live \cup {"unborn", "zombie", "gone"}]
    BY DEF TypeOK, Ends
  <1>3. pending' \in [Procs -> SUBSET Signals]
    BY <1>1 DEF TypeOK, Ends
  <1>4. parent' \in [Procs -> Procs \cup {System}]
    BY DEF TypeOK, Ends
  <1>5. port' \in Procs \cup {Free, Closing}
    BY DEF TypeOK, Ends
  <1>6. reconfig' \in [Procs -> BOOLEAN]
    BY DEF TypeOK, Ends
  <1> QED
    BY <1>2, <1>3, <1>4, <1>5, <1>6 DEF TypeOK, Ends

LEMMA RunKeepsType ==
  ASSUME TypeOK, NEW x \in Procs, Runs(x)
  PROVE  TypeOK'
  <1> USE ProcFacts
  <1> {"block", "exit", "setsid", "threads", "suspend", "start", "unlink", "bind",
       "listen", "asleep", "loop"} \subseteq Live
    BY DEF Live
  <1>1. CASE Daemonize(x)
    BY <1>1, ForkKeepsType, PassKeepsType DEF Daemonize
  <1>2. CASE StarterExits(x)
    BY <1>2, EndKeepsType DEF StarterExits, outsideVars, TypeOK, Signals
  <1>3. CASE Setsid(x)
    BY <1>3 DEF Setsid, TypeOK, Goes, outsideVars, signalVars
  <1>4. CASE Block(x)
    BY <1>4 DEF Block, TypeOK, Goes, outsideVars
  <1>5. CASE StartWorker(x)
    BY <1>5, ForkKeepsType, PassKeepsType DEF StartWorker
  <1>6. CASE MakeThreads(x)
    BY <1>6 DEF MakeThreads, TypeOK, Goes, outsideVars
  <1>7. CASE Unlink(x)
    BY <1>7 DEF Unlink, TypeOK, Goes, outsideVars, signalVars
  <1>8. CASE Bind(x)
    BY <1>8 DEF Bind, TypeOK, Goes, outsideVars, signalVars
  <1>9. CASE Listen(x)
    BY <1>9 DEF Listen, AfterInit, TypeOK, Goes, outsideVars, signalVars
  <1>10. CASE Returns(x) \/ Loop(x)
    BY <1>10, PassKeepsType DEF Returns, Loop
  <1> QED
    BY <1>1, <1>2, <1>3, <1>4, <1>5, <1>6, <1>7, <1>8, <1>9, <1>10 DEF Runs

LEMMA HandleKeepsType ==
  ASSUME TypeOK, NEW x \in Procs, NEW s \in Signals, Handles(x, s)
  PROVE  TypeOK'
  <1> "woken" \in Live
    BY DEF Live
  <1>1. CASE HandleStop(x, s)
    BY <1>1, EndKeepsType DEF HandleStop, outsideVars, TypeOK
  <1>2. CASE HandleChild(x)
    BY <1>2 DEF HandleChild, After, TypeOK, outsideVars
  <1>3. CASE HandleUser(x, s)
    BY <1>3 DEF HandleUser, After, Goes, TypeOK, outsideVars
  <1> QED
    BY <1>1, <1>2, <1>3 DEF Handles

LEMMA TypeStep == TypeOK /\ [Next]_vars => TypeOK'
  <1> SUFFICES ASSUME TypeOK, [Next]_vars PROVE TypeOK'
    OBVIOUS
  <1> USE ProcFacts, BoundAssumption
  <1>1. ASSUME NEW l \in 1 .. Launches, Launch(l) PROVE TypeOK'
    <2> {"daemon", "block"} \subseteq Live
      BY DEF Live
    <2> QED
      BY <1>1 DEF Launch, Goes, TypeOK, outsideVars, signalVars
  <1>2. ASSUME NEW x \in Procs, Runs(x) PROVE TypeOK'
    BY <1>2, RunKeepsType
  <1>3. ASSUME NEW x \in Procs, Kill(x) PROVE TypeOK'
    <2>1. kills' \in 0 .. MaxKills
      BY <1>3 DEF Kill, TypeOK
    <2> QED
      BY <1>3, <2>1, EndKeepsType DEF Kill, Signals
  <1>4. ASSUME NEW x \in Procs, NEW s \in Sent, Send(x, s) PROVE TypeOK'
    <2>1. s \in Signals
      BY SentAssumption DEF Signals
    <2>2. pending' \in [Procs -> SUBSET Signals]
      BY <1>4, <2>1 DEF Send, TypeOK
    <2>3. sent' \in 0 .. MaxSent
      BY <1>4 DEF Send, TypeOK
    <2> QED
      BY <1>4, <2>2, <2>3 DEF Send, TypeOK
  <1>5. ASSUME NEW x \in Procs, NEW s \in Signals, Handles(x, s) PROVE TypeOK'
    BY <1>5, HandleKeepsType
  <1>6. CASE PortFree
    BY <1>6 DEF PortFree, TypeOK, outsideVars, signalVars
  <1>7. CASE UNCHANGED vars
    BY <1>7 DEF vars, TypeOK, outsideVars, signalVars
  <1> QED
    BY <1>1, <1>2, <1>3, <1>4, <1>5, <1>6, <1>7 DEF Next

-----------------------------------------------------------------------------
(* The places of the processes of a launch *)

(* Processes that end, are waited for, or go around the loop. *)
LEMMA Drift ==
  ASSUME Roles, mode' = mode, threads' = threads,
         \A y \in Procs :
           \/ pc'[y] = pc[y]
           \/ pc[y] # "unborn" /\ pc'[y] \in {"zombie", "gone"}
           \/ pc[y] \in {"suspend", "woken", "loop"} /\ pc'[y] \in {"suspend", "woken", "loop"}
  PROVE  Roles'
  <1> SUFFICES ASSUME NEW l \in 1 .. Launches PROVE RolesOf(l)'
    BY DEF Roles
  <1>1. RolesOf(l)
    BY DEF Roles
  <1> QED
    BY <1>1, ProcFacts DEF RolesOf, WorkerPcs

LEMMA EndDrifts ==
  ASSUME TypeOK, Roles, NEW x \in Procs, NEW told, NEW s, Ends(x, told, s), Alive(x)
  PROVE  Roles'
  <1>1. \A y \in Procs :
          \/ pc'[y] = pc[y]
          \/ pc[y] # "unborn" /\ pc'[y] \in {"zombie", "gone"}
    <2> TAKE y \in Procs
    <2>1. pc[x] # "unborn"
      BY DEF Alive, Live
    <2>2. pc'[y] = IF y = x THEN IF parent[x] \in Procs THEN "zombie" ELSE "gone"
                   ELSE IF parent[y] = x /\ pc[y] = "zombie" THEN "gone" ELSE pc[y]
      BY Zenon DEF Ends
    <2> QED
      BY <2>1, <2>2
  <1> QED
    BY <1>1, Drift DEF Ends

LEMMA RunKeepsRoles ==
  ASSUME TypeOK, Roles, NEW x \in Procs, Runs(x)
  PROVE  Roles'
  <1> USE ProcFacts
  <1>0. SUFFICES ASSUME ~ StarterExits(x), ~ Returns(x), ~ Loop(x), NEW l \in 1 .. Launches
                 PROVE  RolesOf(l)'
    <2>1. CASE StarterExits(x)
      BY <2>1, EndDrifts DEF StarterExits, Alive, Live
    <2>2. CASE Returns(x) \/ Loop(x)
      BY <2>2, Drift DEF Returns, Loop, Passes, Goes, signalVars, TypeOK
    <2> QED
      BY <2>1, <2>2 DEF Roles
  <1> DEFINE k == x[1]
  <1>1. RolesOf(l) /\ RolesOf(k)
    BY DEF Roles
  <1>2. l # k => /\ x # First(l) /\ x # Second(l) /\ x # Worker(l)
                 /\ Second(k) # First(l) /\ Second(k) # Second(l) /\ Second(k) # Worker(l)
                 /\ Worker(k) # First(l) /\ Worker(k) # Second(l) /\ Worker(k) # Worker(l)
    BY Apart
  <1> HIDE DEF k
  <1>3. k \in 1 .. Launches /\ (x = First(k) \/ x = Second(k) \/ x = Worker(k))
    BY DEF k
  <1>4. CASE Daemonize(x)
    <2>1. CASE Fork(x, Second(k), "exit", "setsid", blocked[x]) /\ pc[x] = "daemon"
      BY <2>1, <1>1, <1>2, <1>3 DEF RolesOf, Fork, TypeOK, WorkerPcs
    <2>2. CASE Passes(x, "daemon", "block")
      BY <2>2, <1>1, <1>2, <1>3 DEF RolesOf, Passes, Goes, TypeOK, WorkerPcs, signalVars
    <2> QED
      BY <1>4, <2>1, <2>2 DEF Daemonize, k
  <1>5. CASE Setsid(x)
    BY <1>5, <1>1, <1>2, <1>3 DEF RolesOf, Setsid, Goes, TypeOK, WorkerPcs, signalVars
  <1>6. CASE Block(x)
    BY <1>6, <1>1, <1>2, <1>3 DEF RolesOf, Block, Goes, TypeOK, WorkerPcs
  <1>7. CASE StartWorker(x)
    <2>1. CASE mode[k] = "foreground" /\ Passes(x, "start", "threads")
      BY <2>1, <1>1, <1>2, <1>3 DEF RolesOf, Passes, Goes, TypeOK, WorkerPcs, signalVars
    <2>2. CASE pc[x] = "start" /\ Fork(x, Worker(k), "suspend", "threads", blocked[x])
               /\ mode[k] # "foreground"
      BY <2>2, <1>1, <1>2, <1>3 DEF RolesOf, Fork, TypeOK, WorkerPcs
    <2>3. CASE Passes(x, "start", "suspend")
      BY <2>3, <1>1, <1>2, <1>3 DEF RolesOf, Passes, Goes, TypeOK, WorkerPcs, signalVars
    <2> QED
      BY <1>7, <2>1, <2>2, <2>3 DEF StartWorker, k
  <1>8. CASE MakeThreads(x)
    <2>1. \A y \in Procs : y # x => threads'[y] = threads[y]
      BY <1>8 DEF MakeThreads, TypeOK
    <2> QED
      BY <2>1, <1>8, <1>1, <1>2, <1>3 DEF RolesOf, MakeThreads, Goes, TypeOK, WorkerPcs
  <1>9. CASE Unlink(x)
    BY <1>9, <1>1, <1>2, <1>3 DEF RolesOf, Unlink, Goes, TypeOK, WorkerPcs, signalVars
  <1>10. CASE Bind(x)
    BY <1>10, <1>1, <1>2, <1>3 DEF RolesOf, Bind, Goes, TypeOK, WorkerPcs, signalVars
  <1>11. CASE Listen(x)
    <2>1. AfterInit(x) = IF mode[k] = "foreground" THEN "suspend" ELSE "asleep"
      BY DEF AfterInit, k
    <2> QED
      BY <2>1, <1>11, <1>1, <1>2, <1>3 DEF RolesOf, Listen, Goes, TypeOK, WorkerPcs, signalVars
  <1> QED
    BY <1>0, <1>4, <1>5, <1>6, <1>7, <1>8, <1>9, <1>10, <1>11 DEF Runs

LEMMA HandleKeepsRoles ==
  ASSUME TypeOK, Roles, NEW x \in Procs, NEW s \in Signals, Handles(x, s)
  PROVE  Roles'
  <1>1. CASE HandleStop(x, s)
    BY <1>1, EndDrifts DEF HandleStop
  <1>2. CASE HandleChild(x)
    <2>1. \A y \in Procs :
            \/ pc'[y] = pc[y]
            \/ pc[y] # "unborn" /\ pc'[y] \in {"zombie", "gone"}
            \/ pc[y] \in {"suspend", "woken", "loop"} /\ pc'[y] \in {"suspend", "woken", "loop"}
      BY <1>2 DEF HandleChild, After
    <2> QED
      BY <2>1, <1>2, Drift DEF HandleChild
  <1>3. CASE HandleUser(x, s)
    <2>1. \A y \in Procs :
            \/ pc'[y] = pc[y]
            \/ pc[y] \in {"suspend", "woken", "loop"} /\ pc'[y] \in {"suspend", "woken", "loop"}
      BY <1>3 DEF HandleUser, After, Goes, TypeOK
    <2> QED
      BY <2>1, <1>3, Drift DEF HandleUser
  <1> QED
    BY <1>1, <1>2, <1>3 DEF Handles

LEMMA LaunchKeepsRoles ==
  ASSUME TypeOK, Roles, NEW k \in 1 .. Launches, Launch(k)
  PROVE  Roles'
  <1> USE ProcFacts
  <1> SUFFICES ASSUME NEW l \in 1 .. Launches PROVE RolesOf(l)'
    BY DEF Roles
  <1>1. RolesOf(l) /\ mode[k] = "none"
    BY DEF Roles, Launch
  <1>2. PICK m \in {"daemon", "foreground"} :
          /\ mode' = [mode EXCEPT ![k] = m]
          /\ pc' = [pc EXCEPT ![First(k)] = IF m = "daemon" THEN "daemon" ELSE "block"]
    BY DEF Launch, Goes
  <1>3. threads' = threads
    BY DEF Launch, signalVars
  <1>4. CASE l = k
    BY <1>1, <1>2, <1>3, <1>4 DEF RolesOf, TypeOK, WorkerPcs
  <1>5. CASE l # k
    BY <1>1, <1>2, <1>3, <1>5, Apart DEF RolesOf, TypeOK, WorkerPcs
  <1> QED
    BY <1>4, <1>5

LEMMA RolesStep == TypeOK /\ Roles /\ [Next]_vars => Roles'
  <1> SUFFICES ASSUME TypeOK, Roles, [Next]_vars PROVE Roles'
    OBVIOUS
  <1>1. ASSUME NEW l \in 1 .. Launches, Launch(l) PROVE Roles'
    BY <1>1, LaunchKeepsRoles
  <1>2. ASSUME NEW x \in Procs, Runs(x) PROVE Roles'
    BY <1>2, RunKeepsRoles
  <1>3. ASSUME NEW x \in Procs, Kill(x) PROVE Roles'
    BY <1>3, EndDrifts DEF Kill
  <1>4. ASSUME NEW x \in Procs, NEW s \in Sent, Send(x, s) PROVE Roles'
    BY <1>4, Drift DEF Send
  <1>5. ASSUME NEW x \in Procs, NEW s \in Signals, Handles(x, s) PROVE Roles'
    BY <1>5, HandleKeepsRoles
  <1>6. CASE PortFree \/ UNCHANGED vars
    BY <1>6, Drift DEF PortFree, vars, signalVars
  <1> QED
    BY <1>1, <1>2, <1>3, <1>4, <1>5, <1>6 DEF Next

-----------------------------------------------------------------------------
(* Masks *)

Masked == WorkerPcs \cup {"start", "suspend", "woken", "loop"}

(* Only who was masked comes to a place that is. *)
LEMMA MaskDrift ==
  ASSUME Masks, threads' = threads, blocked' = blocked,
         \A y \in Procs : pc[y] \in Masked \/ pc'[y] = pc[y] \/ pc'[y] \notin Masked
  PROVE  Masks'
  BY DEF Masks, Masked

LEMMA EndKeepsMasks ==
  ASSUME TypeOK, Masks, NEW x \in Procs, NEW told, NEW s, Ends(x, told, s)
  PROVE  Masks'
  <1>1. ASSUME NEW y \in Procs PROVE pc'[y] = pc[y] \/ pc'[y] \in {"zombie", "gone"}
    <2>1. pc'[y] = IF y = x THEN IF parent[x] \in Procs THEN "zombie" ELSE "gone"
                   ELSE IF parent[y] = x /\ pc[y] = "zombie" THEN "gone" ELSE pc[y]
      BY Zenon DEF Ends
    <2> QED
      BY <2>1
  <1>2. "zombie" \notin Masked /\ "gone" \notin Masked
    BY DEF Masked, WorkerPcs
  <1> QED
    BY <1>1, <1>2, MaskDrift DEF Ends

LEMMA RunKeepsMasks ==
  ASSUME TypeOK, Masks, NEW x \in Procs, Runs(x)
  PROVE  Masks'
  <1> USE ProcFacts
  <1>1. CASE Daemonize(x)
    <2>1. CASE Fork(x, Second(x[1]), "exit", "setsid", blocked[x])
      BY <2>1 DEF Masks, Fork, TypeOK, WorkerPcs
    <2>2. CASE Passes(x, "daemon", "block")
      BY <2>2 DEF Masks, Passes, Goes, TypeOK, WorkerPcs, signalVars
    <2> QED
      BY <1>1, <2>1, <2>2 DEF Daemonize
  <1>2. CASE StarterExits(x)
    BY <1>2, EndKeepsMasks DEF StarterExits
  <1>3. CASE Setsid(x)
    BY <1>3 DEF Masks, Setsid, Goes, TypeOK, WorkerPcs, signalVars
  <1>4. CASE Block(x)
    BY <1>4 DEF Masks, Block, Goes, TypeOK, WorkerPcs
  <1>5. CASE StartWorker(x)
    <2>1. CASE Fork(x, Worker(x[1]), "suspend", "threads", blocked[x]) /\ pc[x] = "start"
      BY <2>1 DEF Masks, Fork, TypeOK, WorkerPcs
    <2>2. CASE Passes(x, "start", "suspend") \/ Passes(x, "start", "threads")
      BY <2>2 DEF Masks, Passes, Goes, TypeOK, WorkerPcs, signalVars
    <2> QED
      BY <1>5, <2>1, <2>2 DEF StartWorker
  <1>6. CASE MakeThreads(x)
    BY <1>6 DEF Masks, MakeThreads, Goes, TypeOK, WorkerPcs
  <1>7. CASE Unlink(x)
    BY <1>7 DEF Masks, Unlink, Goes, TypeOK, WorkerPcs, signalVars
  <1>8. CASE Bind(x)
    BY <1>8 DEF Masks, Bind, Goes, TypeOK, WorkerPcs, signalVars
  <1>9. CASE Listen(x)
    BY <1>9 DEF Masks, Listen, AfterInit, Goes, TypeOK, WorkerPcs, signalVars
  <1>10. CASE Returns(x) \/ Loop(x)
    BY <1>10 DEF Masks, Returns, Loop, Passes, Goes, TypeOK, WorkerPcs, signalVars
  <1> QED
    BY <1>1, <1>2, <1>3, <1>4, <1>5, <1>6, <1>7, <1>8, <1>9, <1>10 DEF Runs

LEMMA HandleKeepsMasks ==
  ASSUME TypeOK, Masks, NEW x \in Procs, NEW s \in Signals, Handles(x, s)
  PROVE  Masks'
  <1>1. CASE HandleStop(x, s)
    BY <1>1, EndKeepsMasks DEF HandleStop
  <1>2. CASE HandleChild(x)
    BY <1>2, MaskDrift DEF HandleChild, After, Masked, WorkerPcs
  <1>3. CASE HandleUser(x, s)
    BY <1>3, MaskDrift DEF HandleUser, After, Goes, Masked, WorkerPcs, TypeOK
  <1> QED
    BY <1>1, <1>2, <1>3 DEF Handles

LEMMA MasksStep == TypeOK /\ Masks /\ [Next]_vars => Masks'
  <1> SUFFICES ASSUME TypeOK, Masks, [Next]_vars PROVE Masks'
    OBVIOUS
  <1>1. ASSUME NEW l \in 1 .. Launches, Launch(l) PROVE Masks'
    BY <1>1, ProcFacts, MaskDrift DEF Launch, Goes, TypeOK, Masked, WorkerPcs, signalVars
  <1>2. ASSUME NEW x \in Procs, Runs(x) PROVE Masks'
    BY <1>2, RunKeepsMasks
  <1>3. ASSUME NEW x \in Procs, Kill(x) PROVE Masks'
    BY <1>3, EndKeepsMasks DEF Kill
  <1>4. ASSUME NEW x \in Procs, NEW s \in Sent, Send(x, s) PROVE Masks'
    BY <1>4, MaskDrift DEF Send
  <1>5. ASSUME NEW x \in Procs, NEW s \in Signals, Handles(x, s) PROVE Masks'
    BY <1>5, HandleKeepsMasks
  <1>6. CASE PortFree \/ UNCHANGED vars
    BY <1>6, MaskDrift DEF PortFree, vars, signalVars
  <1> QED
    BY <1>1, <1>2, <1>3, <1>4, <1>5, <1>6 DEF Next

-----------------------------------------------------------------------------
(* The port *)

LEMMA EndKeepsServers ==
  ASSUME TypeOK, Servers, NEW x \in Procs, NEW told, NEW s, Ends(x, told, s), Alive(x)
  PROVE  Servers'
  <1>1. ASSUME NEW y \in Procs PROVE pc'[y] = pc[y] \/ pc'[y] \in {"zombie", "gone"}
    <2>1. pc'[y] = IF y = x THEN IF parent[x] \in Procs THEN "zombie" ELSE "gone"
                   ELSE IF parent[y] = x /\ pc[y] = "zombie" THEN "gone" ELSE pc[y]
      BY Zenon DEF Ends
    <2> QED
      BY <2>1
  <1>2. ASSUME NEW y \in Procs, y # x, Alive(y) PROVE pc'[y] = pc[y]
    <2>1. pc'[y] = IF parent[y] = x /\ pc[y] = "zombie" THEN "gone" ELSE pc[y]
      BY <1>2, Zenon DEF Ends
    <2> QED
      BY <2>1, <1>2 DEF Alive, Live
  <1>3. threads' = threads
    BY DEF Ends
  <1>4. port' \in Procs => port' = port /\ port # x
    BY ProcFacts DEF Ends
  <1> QED
    BY <1>1, <1>2, <1>3, <1>4 DEF Servers, WorkerPcs, Alive, Live

(* Nobody ends, and nobody comes to a place where threads are needed. *)
LEMMA ServerDrift ==
  ASSUME Servers, threads' = threads, port' = port \/ port' \notin Procs,
         \A y \in Procs :
           \/ pc'[y] = pc[y]
           \/ pc'[y] \in {"suspend", "woken", "loop"} /\ pc[y] \in {"suspend", "woken", "loop"}
           \/ pc'[y] = "gone" /\ pc[y] = "zombie"
           \/ pc'[y] \in {"daemon", "block"} /\ pc[y] = "unborn"
  PROVE  Servers'
  BY DEF Servers, WorkerPcs, Alive, Live

LEMMA RunKeepsServers ==
  ASSUME TypeOK, Servers, NEW x \in Procs, Runs(x)
  PROVE  Servers'
  <1> USE ProcFacts
  <1>1. CASE Daemonize(x)
    <2>1. CASE Fork(x, Second(x[1]), "exit", "setsid", blocked[x])
      BY <2>1 DEF Servers, Fork, TypeOK, WorkerPcs, Alive, Live
    <2>2. CASE Passes(x, "daemon", "block")
      BY <2>2 DEF Servers, Passes, Goes, TypeOK, WorkerPcs, Alive, Live, signalVars
    <2> QED
      BY <1>1, <2>1, <2>2 DEF Daemonize
  <1>2. CASE StarterExits(x)
    BY <1>2, EndKeepsServers DEF StarterExits, Alive, Live
  <1>3. CASE Setsid(x)
    BY <1>3 DEF Servers, Setsid, Goes, TypeOK, WorkerPcs, Alive, Live, signalVars
  <1>4. CASE Block(x)
    BY <1>4 DEF Servers, Block, Goes, TypeOK, WorkerPcs, Alive, Live
  <1>5. CASE StartWorker(x)
    <2>1. CASE Fork(x, Worker(x[1]), "suspend", "threads", blocked[x])
      <3>1. threads' = threads /\ port' = port
        BY <2>1 DEF Fork
      <3>2. \A y \in Procs : pc'[y] = pc[y] \/ pc'[y] \in {"suspend", "threads"}
        BY <2>1 DEF Fork, TypeOK
      <3> QED
        BY <3>1, <3>2 DEF Servers, WorkerPcs, Alive, Live
    <2>2. CASE Passes(x, "start", "suspend") \/ Passes(x, "start", "threads")
      BY <2>2 DEF Servers, Passes, Goes, TypeOK, WorkerPcs, Alive, Live, signalVars
    <2> QED
      BY <1>5, <2>1, <2>2 DEF StartWorker
  <1>6. CASE MakeThreads(x)
    <2>1. threads'[x] # "none" /\ \A y \in Procs : y # x => threads'[y] = threads[y]
      BY <1>6 DEF MakeThreads, TypeOK
    <2> QED
      BY <1>6, <2>1 DEF Servers, MakeThreads, Goes, TypeOK, WorkerPcs, Alive, Live
  <1>7. CASE Unlink(x)
    BY <1>7 DEF Servers, Unlink, Goes, TypeOK, WorkerPcs, Alive, Live, signalVars
  <1>8. CASE Bind(x)
    BY <1>8 DEF Servers, Bind, Goes, TypeOK, WorkerPcs, Alive, Live, signalVars
  <1>9. CASE Listen(x)
    BY <1>9 DEF Servers, Listen, AfterInit, Goes, TypeOK, WorkerPcs, Alive, Live, signalVars
  <1>10. CASE Returns(x) \/ Loop(x)
    BY <1>10, ServerDrift DEF Returns, Loop, Passes, Goes, TypeOK, signalVars
  <1> QED
    BY <1>1, <1>2, <1>3, <1>4, <1>5, <1>6, <1>7, <1>8, <1>9, <1>10 DEF Runs

LEMMA ServersStep == TypeOK /\ Roles /\ Servers /\ [Next]_vars => Servers'
  <1> SUFFICES ASSUME TypeOK, Roles, Servers, [Next]_vars PROVE Servers'
    OBVIOUS
  <1>1. ASSUME NEW l \in 1 .. Launches, Launch(l) PROVE Servers'
    <2>1. pc[First(l)] = "unborn"
      BY <1>1 DEF Launch, Roles, RolesOf
    <2> QED
      BY <1>1, <2>1, ProcFacts, ServerDrift DEF Launch, Goes, TypeOK, signalVars
  <1>2. ASSUME NEW x \in Procs, Runs(x) PROVE Servers'
    BY <1>2, RunKeepsServers
  <1>3. ASSUME NEW x \in Procs, Kill(x) PROVE Servers'
    BY <1>3, EndKeepsServers DEF Kill
  <1>4. ASSUME NEW x \in Procs, NEW s \in Sent, Send(x, s) PROVE Servers'
    BY <1>4, ServerDrift DEF Send
  <1>5. ASSUME NEW x \in Procs, NEW s \in Signals, Handles(x, s) PROVE Servers'
    <2>1. CASE HandleStop(x, s)
      BY <2>1, EndKeepsServers DEF HandleStop
    <2>2. CASE HandleChild(x)
      BY <2>2, ServerDrift DEF HandleChild, After
    <2>3. CASE HandleUser(x, s)
      BY <2>3, ServerDrift DEF HandleUser, After, Goes, TypeOK
    <2> QED
      BY <1>5, <2>1, <2>2, <2>3 DEF Handles
  <1>6. CASE PortFree \/ UNCHANGED vars
    BY <1>6, ServerDrift, ProcFacts DEF PortFree, vars, signalVars
  <1> QED
    BY <1>1, <1>2, <1>3, <1>4, <1>5, <1>6 DEF Next

-----------------------------------------------------------------------------
(* The name of the control socket *)

(* Nobody leaves unlink and bind, and nobody comes to be past them. *)
LEMMA NameDrift ==
  ASSUME NameBound, name' = name, kills' = kills,
         \A y \in Procs :
           /\ pc'[y] \in {"listen", "asleep"} => pc[y] \in {"listen", "asleep"}
           /\ pc[y] = "bind" => pc'[y] = "bind"
  PROVE  NameBound'
  BY DEF NameBound, Alive, Live

(* Whoever ends by itself or by a signal is not between unlink and bind. *)
LEMMA EndKeepsName ==
  ASSUME TypeOK, NameBound, NEW x \in Procs, NEW told, NEW s, Ends(x, told, s),
         pc[x] # "bind", kills' = kills
  PROVE  NameBound'
  <1>1. ASSUME NEW y \in Procs
        PROVE  /\ pc'[y] \in {"listen", "asleep"} => pc[y] \in {"listen", "asleep"}
               /\ pc[y] = "bind" => pc'[y] = "bind"
    <2>1. pc'[y] = IF y = x THEN IF parent[x] \in Procs THEN "zombie" ELSE "gone"
                   ELSE IF parent[y] = x /\ pc[y] = "zombie" THEN "gone" ELSE pc[y]
      BY Zenon DEF Ends
    <2> QED
      BY <2>1
  <1> QED
    BY <1>1, NameDrift DEF Ends

LEMMA RunKeepsName ==
  ASSUME TypeOK, Roles, NameBound, NEW x \in Procs, Runs(x)
  PROVE  NameBound'
  <1> USE ProcFacts
  <1>0. RolesOf(x[1])
    BY DEF Roles
  <1>1. CASE Daemonize(x)
    <2>1. CASE Fork(x, Second(x[1]), "exit", "setsid", blocked[x]) /\ pc[x] = "daemon"
      <3>1. pc[Second(x[1])] = "unborn"
        BY <2>1, <1>0 DEF RolesOf, WorkerPcs
      <3> QED
        BY <2>1, <3>1, NameDrift DEF Fork, outsideVars, TypeOK
    <2>2. CASE Passes(x, "daemon", "block")
      BY <2>2, NameDrift DEF Passes, Goes, TypeOK, outsideVars
    <2> QED
      BY <1>1, <2>1, <2>2 DEF Daemonize
  <1>2. CASE StarterExits(x)
    BY <1>2, EndKeepsName DEF StarterExits, outsideVars
  <1>3. CASE Setsid(x)
    BY <1>3, NameDrift DEF Setsid, Goes, TypeOK, outsideVars
  <1>4. CASE Block(x)
    BY <1>4, NameDrift DEF Block, Goes, TypeOK, outsideVars
  <1>5. CASE StartWorker(x)
    <2>1. CASE Fork(x, Worker(x[1]), "suspend", "threads", blocked[x]) /\ pc[x] = "start"
      <3>1. pc[Worker(x[1])] = "unborn"
        BY <2>1, <1>0 DEF RolesOf, WorkerPcs
      <3> QED
        BY <2>1, <3>1, NameDrift DEF Fork, outsideVars, TypeOK
    <2>2. CASE Passes(x, "start", "suspend") \/ Passes(x, "start", "threads")
      BY <2>2, NameDrift DEF Passes, Goes, TypeOK, outsideVars
    <2> QED
      BY <1>5, <2>1, <2>2 DEF StartWorker
  <1>6. CASE MakeThreads(x)
    BY <1>6, NameDrift DEF MakeThreads, Goes, TypeOK, outsideVars
  <1>7. CASE Unlink(x)
    <2>1. pc'[x] = "bind"
      BY <1>7 DEF Unlink, Goes, TypeOK
    <2> QED
      BY <2>1 DEF NameBound
  <1>8. CASE Bind(x)
    <2>1. name' # Missing
      BY <1>8 DEF Bind
    <2> QED
      BY <2>1 DEF NameBound
  <1>9. CASE Listen(x)
    BY <1>9, NameDrift DEF Listen, AfterInit, Goes, TypeOK, outsideVars
  <1>10. CASE Returns(x) \/ Loop(x)
    BY <1>10, NameDrift DEF Returns, Loop, Passes, Goes, TypeOK, outsideVars
  <1> QED
    BY <1>1, <1>2, <1>3, <1>4, <1>5, <1>6, <1>7, <1>8, <1>9, <1>10 DEF Runs

LEMMA NameStep == TypeOK /\ Roles /\ Masks /\ NameBound /\ [Next]_vars => NameBound'
  <1> SUFFICES ASSUME TypeOK, Roles, Masks, NameBound, [Next]_vars PROVE NameBound'
    OBVIOUS
  <1>1. ASSUME NEW l \in 1 .. Launches, Launch(l) PROVE NameBound'
    <2>1. pc[First(l)] = "unborn"
      BY <1>1 DEF Launch, Roles, RolesOf
    <2> QED
      BY <1>1, <2>1, ProcFacts, NameDrift DEF Launch, Goes, TypeOK, outsideVars
  <1>2. ASSUME NEW x \in Procs, Runs(x) PROVE NameBound'
    BY <1>2, RunKeepsName
  <1>3. ASSUME NEW x \in Procs, Kill(x) PROVE NameBound'
    <2>1. kills' > 0
      BY <1>3, BoundAssumption DEF Kill, TypeOK
    <2> QED
      BY <2>1 DEF NameBound
  <1>4. ASSUME NEW x \in Procs, NEW s \in Sent, Send(x, s) PROVE NameBound'
    BY <1>4, NameDrift DEF Send
  <1>5. ASSUME NEW x \in Procs, NEW s \in Signals, Handles(x, s) PROVE NameBound'
    <2>1. CASE HandleStop(x, s)
      <3>1. pc[x] # "bind"
        BY <2>1, Deaf DEF HandleStop, WorkerPcs
      <3> QED
        BY <2>1, <3>1, EndKeepsName DEF HandleStop, outsideVars
    <2>2. CASE HandleChild(x)
      BY <2>2, NameDrift DEF HandleChild, After, outsideVars
    <2>3. CASE HandleUser(x, s)
      BY <2>3, NameDrift DEF HandleUser, After, Goes, TypeOK, outsideVars
    <2> QED
      BY <1>5, <2>1, <2>2, <2>3 DEF Handles
  <1>6. CASE PortFree \/ UNCHANGED vars
    BY <1>6, NameDrift DEF PortFree, vars, outsideVars
  <1> QED
    BY <1>1, <1>2, <1>3, <1>4, <1>5, <1>6 DEF Next

-----------------------------------------------------------------------------
(* The invariant and what follows from it *)

LEMMA InvInit == Init => Inv
  <1> SUFFICES ASSUME Init PROVE Inv
    OBVIOUS
  <1>1. TypeOK
    BY TypeInit
  <1>2. Roles
    BY ProcFacts DEF Init, Roles, RolesOf, WorkerPcs
  <1>3. Masks /\ Servers
    BY ProcFacts DEF Init, Masks, Servers, WorkerPcs
  <1>4. NameBound
    BY DEF Init, NameBound, Alive, Live
  <1> QED
    BY <1>1, <1>2, <1>3, <1>4 DEF Inv

LEMMA InvStep == Inv /\ [Next]_vars => Inv'
  BY TypeStep, RolesStep, MasksStep, ServersStep, NameStep DEF Inv

(* In every state of every behaviour the invariant holds. *)
THEOREM ProcessesInvariant == Spec => []Inv
  BY InvInit, InvStep, PTL DEF Spec

(* The variables of main.c, signals.c and of the system keep their types. *)
THEOREM ProcessesTyped == Spec => []TypeOK
  <1>1. Inv => TypeOK
    BY DEF Inv
  <1> QED
    BY <1>1, ProcessesInvariant, PTL

(***************************************************************************)
(* os_worker_start makes one server of a launch: with -t the process       *)
(* itself, else the worker, also when os_daemon could not fork.            *)
(***************************************************************************)
THEOREM OneServerAlways == Spec => []OneServer
  <1>1. Inv => OneServer
    <2> SUFFICES ASSUME Inv PROVE OneServer
      OBVIOUS
    <2>1. ASSUME NEW x \in Procs, Serving(x)
          PROVE  /\ mode[x[1]] # "foreground" => x = Worker(x[1])
                 /\ mode[x[1]] = "foreground" => x = First(x[1])
      <3>1. RolesOf(x[1])
        BY ProcFacts DEF Inv, Roles
      <3> QED
        BY <2>1, <3>1, ProcFacts DEF RolesOf, Serving, Alive, Live
    <2>2. \A x, y \in Procs : x[1] = y[1] /\ Serving(x) /\ Serving(y) => x = y
      BY <2>1
    <2>3. \A x \in Procs : Serving(x) /\ mode[x[1]] = "daemon" => x[2] = "worker"
      BY <2>1, ProcFacts
    <2> QED
      BY <2>2, <2>3 DEF OneServer
  <1> QED
    BY <1>1, ProcessesInvariant, PTL

(***************************************************************************)
(* reconfig_sock_init of any launch leaves a name for the control socket,  *)
(* unless a worker dies between its unlink and its bind.                   *)
(***************************************************************************)
THEOREM NameAlwaysBound == Spec => []NameBound
  <1>1. Inv => NameBound
    BY DEF Inv
  <1> QED
    BY <1>1, ProcessesInvariant, PTL

(***************************************************************************)
(* No handler runs in the worker of a daemon, so only signal 9 or a crash  *)
(* takes the port from it: killpg of the master's sig_term does not.       *)
(***************************************************************************)
THEOREM PortIsKept == Spec => WorkerKeepsPort
  <1>1. Inv /\ [Next]_vars =>
          [\A l \in 1 .. Launches :
             port = Worker(l) => port' = port \/ kills' > kills]_vars
    <2> SUFFICES ASSUME Inv, Next, NEW l \in 1 .. Launches, port = Worker(l), port' # port
                 PROVE  kills' > kills
      BY DEF vars
    <2> USE ProcFacts
    <2>1. RolesOf(l) /\ Alive(Worker(l))
      BY DEF Inv, Roles, Servers
    <2>2. pc[Worker(l)] \in WorkerPcs
      BY <2>1 DEF RolesOf, Alive, Live
    <2>3. ASSUME NEW x \in Procs, Runs(x) PROVE FALSE
      <3>1. CASE StarterExits(x)
        BY <3>1, <2>2 DEF StarterExits, Ends, WorkerPcs
      <3>2. CASE ~ StarterExits(x)
        BY <3>2, <2>3 DEF Runs, Daemonize, Setsid, Block, StartWorker, MakeThreads,
                          Unlink, Bind, Listen, Returns, Loop, Passes, Fork
      <3> QED
        BY <3>1, <3>2
    <2>4. ASSUME NEW x \in Procs, Kill(x) PROVE kills' > kills
      BY <2>4 DEF Kill, Inv, TypeOK
    <2>5. ASSUME NEW x \in Procs, NEW s \in Signals, Handles(x, s) PROVE FALSE
      <3>1. CASE HandleStop(x, s)
        <4>1. x = Worker(l)
          BY <3>1 DEF HandleStop, Ends
        <4> QED
          BY <3>1, <4>1, <2>2, Deaf DEF HandleStop, Inv
      <3>2. CASE HandleChild(x) \/ HandleUser(x, s)
        BY <3>2 DEF HandleChild, HandleUser
      <3> QED
        BY <2>5, <3>1, <3>2 DEF Handles
    <2>6. ASSUME NEW k \in 1 .. Launches, Launch(k) PROVE FALSE
      BY <2>6 DEF Launch
    <2>7. ASSUME NEW x \in Procs, NEW s \in Sent, Send(x, s) PROVE FALSE
      BY <2>7 DEF Send
    <2>8. ASSUME PortFree PROVE FALSE
      <3>1. Worker(l) \in Procs /\ Closing \notin Procs
        OBVIOUS
      <3> QED
        BY <2>8, <3>1 DEF PortFree
    <2> QED
      BY <2>3, <2>4, <2>5, <2>6, <2>7, <2>8 DEF Next
  <1> QED
    BY <1>1, ProcessesInvariant, PTL DEF Spec, WorkerKeepsPort

(***************************************************************************)
(* In the loop of main() only sigsuspend lets the handler of SIGUSR1 run,  *)
(* and it returns for it: the loop sees the flag that the handler sets.    *)
(***************************************************************************)
THEOREM FlagAlwaysWakes == Spec => FlagWakes
  <1>1. Inv /\ [Next]_vars =>
          [\A x \in Procs :
             InLoop(x) /\ ~ reconfig[x] /\ reconfig'[x] => pc'[x] = "woken"]_vars
    <2> SUFFICES ASSUME Inv, Next, NEW y \in Procs,
                        InLoop(y), ~ reconfig[y], reconfig'[y]
                 PROVE  pc'[y] = "woken"
      BY DEF vars
    <2> USE ProcFacts
    <2>1. ASSUME NEW x \in Procs, Fork(x, Second(x[1]), "exit", "setsid", blocked[x]),
                 pc[x] = "daemon"
          PROVE  FALSE
      <3>1. RolesOf(x[1])
        BY DEF Inv, Roles
      <3>2. y # Second(x[1])
        BY <2>1, <3>1 DEF RolesOf, InLoop, WorkerPcs
      <3> QED
        BY <2>1, <3>2 DEF Fork, Inv, TypeOK
    <2>2. ASSUME NEW x \in Procs, NEW next, Fork(x, Worker(x[1]), "suspend", next, blocked[x])
          PROVE  FALSE
      <3>1. RolesOf(x[1])
        BY DEF Inv, Roles
      <3>2. y # Worker(x[1])
        BY <3>1 DEF RolesOf, InLoop, WorkerPcs
      <3> QED
        BY <2>2, <3>2 DEF Fork, Inv, TypeOK
    <2>3. ASSUME NEW x \in Procs, NEW told, NEW s, Ends(x, told, s) PROVE FALSE
      BY <2>3 DEF Ends, Inv, TypeOK
    <2>4. ASSUME NEW x \in Procs, Runs(x) PROVE FALSE
      <3>1. CASE Daemonize(x) \/ StartWorker(x)
        BY <3>1, <2>1, <2>2 DEF Daemonize, StartWorker, Passes, signalVars
      <3>2. CASE StarterExits(x)
        BY <3>2, <2>3 DEF StarterExits
      <3>3. CASE ~ Daemonize(x) /\ ~ StartWorker(x) /\ ~ StarterExits(x)
        BY <3>3, <2>4 DEF Runs, Setsid, Block, MakeThreads, Unlink, Bind, Listen, Returns, Loop,
                          Passes, signalVars
      <3> QED
        BY <3>1, <3>2, <3>3
    <2>5. ASSUME NEW x \in Procs, NEW s \in Signals, Handles(x, s)
          PROVE  pc'[y] = "woken"
      <3>1. CASE HandleStop(x, s)
        BY <3>1, <2>3 DEF HandleStop
      <3>2. CASE HandleChild(x)
        BY <3>2 DEF HandleChild
      <3>3. CASE HandleUser(x, s)
        <4>1. x = y
          BY <3>3 DEF HandleUser, Inv, TypeOK
        <4>2. PICK t \in Takers(y) : pc'[y] = After(y, t)
          BY <3>3, <4>1 DEF HandleUser, Goes, Inv, TypeOK
        <4>3. t = "main"
          BY Deaf DEF Inv
        <4>4. pc[y] # "loop"
          BY <4>2, <4>3 DEF Takers, Masks, Inv
        <4> QED
          BY <4>2, <4>3, <4>4 DEF After, InLoop
      <3> QED
        BY <2>5, <3>1, <3>2, <3>3 DEF Handles
    <2>6. ASSUME NEW l \in 1 .. Launches, Launch(l) PROVE FALSE
      BY <2>6 DEF Launch, signalVars
    <2>7. ASSUME NEW x \in Procs, Kill(x) PROVE FALSE
      BY <2>7, <2>3 DEF Kill
    <2>8. ASSUME NEW x \in Procs, NEW s \in Sent, Send(x, s) PROVE FALSE
      BY <2>8 DEF Send
    <2>9. CASE PortFree
      BY <2>9 DEF PortFree, signalVars
    <2> QED
      BY <2>4, <2>5, <2>6, <2>7, <2>8, <2>9 DEF Next
  <1> QED
    BY <1>1, ProcessesInvariant, PTL DEF Spec, FlagWakes
===============================================================================
